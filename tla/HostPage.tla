------------------------------ MODULE HostPage ------------------------------
(***************************************************************************)
(* The parts of the library that a page uses next to its sandboxes and that *)
(* share nothing: the memory tier, the tiers of sandboxes, the orchestrator *)
(* over QuickJS, the snapshot files, Python, the hardware monitor and the   *)
(* policy editor.  A behaviour exercises one of them, the others stay as    *)
(* they are, so that checking all costs the sum of the parts and not their  *)
(* product.                                                                 *)
(***************************************************************************)
EXTENDS MemoryTier, TieredMemory, Orchestrator, OpfsStore, DataAgent,
        HardwareMonitor, Policy

Parts == {"tier", "memory", "board", "store", "asks", "monitor", "policy"}

VARIABLE part

vars == <<part, tierVars, memVars, orchVars, storeVars, askVars, monVars, policyVars>>

Init ==
    /\ part \in Parts
    /\ TierInit /\ MemInit /\ OrchInit /\ StoreInit /\ PyInit /\ MonInit /\ PolicyInit
    /\ part # "board" => runtime = "wasm"

Next ==
    /\ UNCHANGED part
    /\ IF part = "tier" THEN TierNext ELSE UNCHANGED tierVars
    /\ IF part = "memory" THEN MemNext ELSE UNCHANGED memVars
    /\ IF part = "board" THEN OrchNext ELSE UNCHANGED orchVars
    /\ IF part = "store" THEN StoreNext ELSE UNCHANGED storeVars
    /\ IF part = "asks" THEN AskNext ELSE UNCHANGED askVars
    /\ IF part = "monitor" THEN MonNext ELSE UNCHANGED monVars
    /\ IF part = "policy" THEN PolicyNext ELSE UNCHANGED policyVars

Spec == Init /\ [][Next]_vars /\ OrchFairness
=============================================================================
