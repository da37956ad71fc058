-------------------------- MODULE QuickJsExecutor --------------------------
(***************************************************************************)
(* QuickJsExecutor of src/src/runtime/wasm/quickjs-executor.ts.  The module *)
(* is loaded once for the page, and its promise is kept when it rejects     *)
(* too.  Once it is there, a run is one synchronous step: context, wrapper, *)
(* evaluation, and the way back through JSON.                               *)
(***************************************************************************)

VARIABLE modulePromise      \* "none", "loading", "ready" or "failed"

QjsInit == modulePromise = "none"

\* loadQuickJS(), as far as its first await.
Require == modulePromise' = IF modulePromise = "none" THEN "loading" ELSE modulePromise

ModuleSettles ==
    /\ modulePromise = "loading"
    /\ modulePromise' \in {"ready", "failed"}

\* Mutant: a run whose module failed to load is left waiting.
QjsOutcomesIfLoaded ==
    IF modulePromise = "ready" THEN {"ok", "failed", "rejected"} ELSE {}

\* How execute() may end, once the promise settled.  A guest that throws, that
\* is interrupted, or whose value or state JSON cannot hold, fails; a state or
\* args that JSON cannot hold make buildWrapper() throw, and execute() rejects.
QjsOutcomes ==
    CASE modulePromise = "ready" -> {"ok", "failed", "rejected"}
      [] modulePromise = "failed" -> {"failed"}
      [] OTHER -> {}
=============================================================================
