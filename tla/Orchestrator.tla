---------------------------- MODULE Orchestrator ----------------------------
(***************************************************************************)
(* IsolatedOrchestrator of src/src/orchestration/blackboard.ts: phases of   *)
(* agents, each in a sandbox of its own, that read the board as their phase *)
(* begins and have the writes they return applied as they finish.           *)
(*                                                                          *)
(* runAgent() is cut at its two awaits, of Sandbox.create() and of          *)
(* Sandbox.run().  A value on the board is the agent that wrote it.  The     *)
(* host's onEvent is taken to return.                                       *)
(***************************************************************************)
EXTENDS QuickJsExecutor, Naturals, Sequences, SequencesExt, FiniteSetsExt

CONSTANTS
    Phases,         \* the agents of each phase, in the order of runPhase()
    BoardKeys,
    Nobody,         \* the value of a key nobody wrote
    Runtimes        \* the isolation modes an orchestrator is made with; "invalid"
                    \* is any, with a limit that Number() throws at

Agents == UNION Range(Phases)
PhaseOf(a) == CHOOSE p \in DOMAIN Phases : a \in Phases[p]
ASSUME PhasesAssumption ==
    /\ Phases \in Seq(SUBSET Agents)
    /\ \A p, q \in DOMAIN Phases : p # q => Phases[p] \cap Phases[q] = {}
ASSUME RuntimesAssumption == Runtimes \subseteq {"wasm", "worker", "invalid"}

VARIABLES
    runtime,
    board,
    phase,          \* the phase begun last, and how it stands
    agent,          \* agent[a]: status, reads, and the keys in run.writes
    boxes,          \* the agents whose sandbox is not disposed
    applied,        \* applied[a]: the keys a has put on the board
    broken          \* the phases that rejected

ownVars == <<runtime, board, phase, agent, boxes, applied, broken>>
orchVars == <<modulePromise, ownVars>>

Idle == [status |-> "idle", reads |-> [k \in BoardKeys |-> Nobody], writes |-> {}]

\* What a guest returns as writes: keys in some order, each with a value the
\* host can turn into a string or, past a structured clone, one it cannot.
Payloads == {"text", "cyclic"}
WriteLists ==
    {ws \in UNION {[1..n -> BoardKeys \X Payloads] : n \in 0..Cardinality(BoardKeys)} :
        \A i, j \in DOMAIN ws : i # j => ws[i][1] # ws[j][1]}

OrchInit ==
    /\ QjsInit
    /\ runtime \in Runtimes
    /\ board = [k \in BoardKeys |-> Nobody]
    /\ phase = [at |-> 0, status |-> "resolved"]
    /\ agent = [a \in Agents |-> Idle]
    /\ boxes = {}
    /\ applied = [a \in Agents |-> {}]
    /\ broken = {}
-----------------------------------------------------------------------------
\* runPhase(): each agent takes its snapshot before the first await of any.
\* The client has awaited the last phase, and goes on though it rejected.
StartPhase ==
    /\ phase.status # "running" /\ phase.at < Len(Phases)
    /\ phase' = [at |-> phase.at + 1, status |-> "running"]
    /\ agent' = [a \in Agents |-> IF a \in Phases[phase.at + 1]
                                  THEN [Idle EXCEPT !.status = "creating", !.reads = board]
                                  ELSE agent[a]]
    /\ UNCHANGED <<modulePromise, runtime, board, boxes, applied, broken>>

\* Mutant: the snapshot is taken when the sandbox is there.
CreatedThenReads(a) ==
    /\ agent[a].status = "creating" /\ runtime # "invalid"
    /\ agent' = [agent EXCEPT ![a].status = "running", ![a].reads = board]
    /\ boxes' = boxes \cup {a}
    /\ IF runtime = "wasm" THEN Require ELSE UNCHANGED modulePromise
    /\ UNCHANGED <<runtime, board, phase, applied, broken>>

\* Sandbox.create() resolved, and run() has called execute().
Created(a) ==
    /\ agent[a].status = "creating" /\ runtime # "invalid"
    /\ agent' = [agent EXCEPT ![a].status = "running"]
    /\ boxes' = boxes \cup {a}
    /\ IF runtime = "wasm" THEN Require ELSE UNCHANGED modulePromise
    /\ UNCHANGED <<runtime, board, phase, applied, broken>>

\* It rejected, before there was anything to dispose, as it does for every agent:
\* all are given the options of the orchestrator.
NotCreated(a) ==
    /\ agent[a].status = "creating" /\ runtime = "invalid"
    /\ agent' = [agent EXCEPT ![a].status = "rejected"]
    /\ UNCHANGED <<modulePromise, runtime, board, phase, boxes, applied, broken>>

Outcomes == IF runtime = "wasm" THEN QjsOutcomes ELSE {"ok", "failed", "rejected"}

\* Mutant: a rejected run leaves its sandbox behind.
EndUndisposed(a, status, keys) ==
    /\ agent' = [agent EXCEPT ![a].status = status, ![a].writes = keys]
    /\ boxes' = IF status = "done" THEN boxes \ {a} ELSE boxes
    /\ UNCHANGED <<modulePromise, runtime, phase, broken>>

\* The finally of runAgent() disposes the sandbox, whatever happened.
End(a, status, keys) ==
    /\ agent' = [agent EXCEPT ![a].status = status, ![a].writes = keys]
    /\ boxes' = boxes \ {a}
    /\ UNCHANGED <<modulePromise, runtime, phase, broken>>

\* JSON.stringify() throws at the first value it cannot hold.
Unserialisable(ws) == {i \in DOMAIN ws : ws[i][2] = "cyclic"}
Reached(ws) ==
    {ws[i][1] : i \in {i \in DOMAIN ws : \A j \in Unserialisable(ws) : i < j}}

\* Mutant: a write that cannot be made ends the loop and not the run, which is done
\* and reports none of those that were made.
ApplyUnreported(a, ws) ==
    LET keys == IF Unserialisable(ws) = {} THEN Reached(ws) ELSE {}
    IN  /\ board' = [k \in BoardKeys |-> IF k \in Reached(ws) THEN a ELSE board[k]]
        /\ applied' = [applied EXCEPT ![a] = Reached(ws)]
        /\ End(a, "done", keys)

\* The writes are made one by one, in one step of the event loop.
Apply(a, ws) ==
    /\ board' = [k \in BoardKeys |-> IF k \in Reached(ws) THEN a ELSE board[k]]
    /\ applied' = [applied EXCEPT ![a] = Reached(ws)]
    /\ IF Unserialisable(ws) = {} THEN End(a, "done", Reached(ws)) ELSE End(a, "rejected", {})

\* run() resolved.  What JSON cannot hold has failed the run in the guest.
Succeeded(a, ws) ==
    /\ agent[a].status = "running" /\ "ok" \in Outcomes
    /\ runtime = "wasm" => Unserialisable(ws) = {}
    /\ Apply(a, ws)

Failed(a) ==
    /\ agent[a].status = "running"
    /\ \/ "failed" \in Outcomes /\ End(a, "done", {})
       \/ "rejected" \in Outcomes /\ End(a, "rejected", {})
    /\ UNCHANGED <<board, applied>>

\* Mutant: the phase resolves with the first agent that did.
EndPhaseAtFirst ==
    /\ phase.status = "running"
    /\ \/ /\ \E a \in Phases[phase.at] : agent[a].status = "done"
          /\ phase' = [phase EXCEPT !.status = "resolved"]
          /\ UNCHANGED broken
       \/ /\ \E a \in Phases[phase.at] : agent[a].status = "rejected"
          /\ phase' = [phase EXCEPT !.status = "rejected"]
          /\ broken' = broken \cup {phase.at}
    /\ UNCHANGED <<modulePromise, runtime, board, agent, boxes, applied>>

\* Promise.all() settles with the first rejection, or with the last agent.
EndPhase ==
    /\ phase.status = "running"
    /\ \/ /\ \A a \in Phases[phase.at] : agent[a].status = "done"
          /\ phase' = [phase EXCEPT !.status = "resolved"]
          /\ UNCHANGED broken
       \/ /\ \E a \in Phases[phase.at] : agent[a].status = "rejected"
          /\ phase' = [phase EXCEPT !.status = "rejected"]
          /\ broken' = broken \cup {phase.at}
    /\ UNCHANGED <<modulePromise, runtime, board, agent, boxes, applied>>

ModuleLoads == ModuleSettles /\ UNCHANGED ownVars
Runs(a) == Failed(a) \/ \E ws \in WriteLists : Succeeded(a, ws)

OrchNext ==
    \/ StartPhase \/ EndPhase \/ ModuleLoads
    \/ \E a \in Agents : Created(a) \/ NotCreated(a) \/ Runs(a)

\* The event loop runs what is due, an import settles, and so does run(): the
\* client alone may stop.
OrchFairness ==
    /\ WF_orchVars(EndPhase) /\ WF_orchVars(ModuleLoads)
    /\ \A a \in Agents : WF_orchVars(Created(a) \/ NotCreated(a)) /\ WF_orchVars(Runs(a))
-----------------------------------------------------------------------------
\* "Phases run in order, so later phases see earlier phases' writes", and agents
\* of one phase see nothing of each other, whoever finishes first: an agent reads
\* for each key what the latest phase before its own put there.  When one of those
\* phases rejected, agents of it may still be writing, and what is read is only
\* known to be of an earlier phase.  (runAgent() and runPhase().)
WroteIn(p, k) == {a \in Phases[p] : k \in agent[a].writes}
SeesEarlierPhases ==
    \A a \in Agents, k \in BoardKeys :
        LET earlier == 1..(PhaseOf(a) - 1)
            writing == {p \in earlier : WroteIn(p, k) # {}}
            seen == agent[a].reads[k]
        IN  /\ seen = Nobody \/ PhaseOf(seen) \in earlier
            /\ agent[a].status # "idle" /\ broken \cap earlier = {} =>
                IF writing = {} THEN seen = Nobody ELSE seen \in WroteIn(Max(writing), k)

\* "Phases run in order" (blackboard.ts) but for rejections: an agent that works
\* while a later phase runs was left behind by its own, which an agent beside it
\* broke.  (Promise.all() in runPhase(), which waits for nobody else then.)
StragglersAreOfBrokenPhases ==
    \A a \in Agents : agent[a].status \in {"creating", "running"} =>
        PhaseOf(a) = phase.at \/ \E b \in Phases[PhaseOf(a)] : agent[b].status = "rejected"

\* What a run reports is what it put on the board; one that rejected reports
\* nothing, and has put nothing there if its guest ran in QuickJS, where a value
\* without a JSON form fails the guest.  (The loop over value.writes.)
WritesAreReported ==
    \A a \in Agents :
        \/ applied[a] = agent[a].writes
        \/ agent[a].status = "rejected" /\ runtime # "wasm"

\* Every phase ends, though modules fail to load and agents reject.
\* (runPhase(), over loadQuickJS() and Sandbox.run().)
PhasesEnd == phase.status = "running" ~> phase.status # "running"

\* In the end every sandbox is disposed, also those of the agents a rejected phase
\* left running.  (The finally of runAgent().)
BoxesAreDisposed == <>[](boxes = {})
=============================================================================
