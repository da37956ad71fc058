-------------------------- MODULE MCInlineExecutor --------------------------
(* InlineExecutor on small instances: one run that is not retried, and one   *)
(* that is, as the default policy has it.                                   *)
EXTENDS InlineExecutor, TLC

CONSTANTS once, twice

RetryCounts == once :> 0 @@ twice :> 1
=============================================================================
