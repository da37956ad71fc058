------------------------------- MODULE Sandbox -------------------------------
(***************************************************************************)
(* The Sandbox class of src/src/sandbox/sandbox.ts: run, snapshot, fork,    *)
(* restore, replay and dispose, as the segments the JavaScript event loop   *)
(* runs without interruption.  An async method is cut at each await, so the *)
(* actions of one call interleave with those of every other call.           *)
(*                                                                          *)
(* The executor is the abstract one of Executor; the store is any           *)
(* SnapshotStore whose save() may fail; probes are the verdict they give    *)
(* on the run:start tracepoint.                                             *)
(***************************************************************************)
EXTENDS Executor, FiniteSets

CONSTANTS
    Runtime,        \* options.runtime, where the executor runs the guests
    Kinds,          \* kinds of guest code the clients call run() with
    Cadence,        \* policy.snapshotEveryNRuns
    Overlap,        \* whether a client may call before its last call settled
    MaxSnapshots    \* bound on the snapshots after which none is asked for

\* What the sandbox can tell of the code of a run:
\*   pure    completes, and does the same every time and wherever it runs
\*   throws  fails every time and wherever it runs
\*   flaky   completes or fails, as time, memory tiers, the other runs of its
\*           worker or luck have it
\*   unsafe  does not pass assertGuestCodeSafety
\*   denied  is pure, and is vetoed by a run:start probe
\*   unfit   comes with an estimatedMemoryMB that BigInt() refuses (NaN)
\*   poison  leaves in the state what neither structuredClone nor JSON takes
\*   retried throws unless it finds in the state what an attempt left there
\*   heavy   is pure, with an estimate above the policy's memoryBudgetMB
\*   loops   never yields
AllKinds == {"pure", "throws", "flaky", "unsafe", "denied", "unfit", "poison",
             "retried", "heavy", "loops"}

\* How code ends depends on where it runs.  Inline, all attempts share the state
\* object and no message has to carry it; QuickJS does not read the estimate; a
\* guest that loops is terminated or interrupted, and inline never ends.
CompletesIn(where, k) ==
    \/ k \in {"pure", "flaky", "denied"}
    \/ k \in {"poison", "retried"} /\ where = "inline"
    \/ k = "heavy" /\ where = "wasm"
BreaksIn(where, k) ==
    \/ k \in {"throws", "flaky", "unsafe"}
    \/ k \in {"poison", "retried", "loops"} /\ where # "inline"
    \/ k = "heavy" /\ where # "wasm"
Completes(k) == CompletesIn(Runtime, k)
Breaks(k) == BreaksIn(Runtime, k)

ASSUME KindsAssumption == Kinds \subseteq AllKinds
\* Inline, a guest that loops stops the event loop, and all of this module with it.
ASSUME RuntimeAssumption ==
    /\ Runtime \in {"inline", "worker", "wasm"}
    /\ Runtime = "inline" => "loops" \notin Kinds
ASSUME CadenceAssumption == Cadence \in Nat
ASSUME OverlapAssumption == Overlap \in BOOLEAN
ASSUME MaxSnapshotsAssumption == MaxSnapshots \in Nat

VARIABLES
    disposed,
    state,
    runLog,     \* the RunRecords, in the order finish() pushes them
    past,       \* past[i + 1]: the state when runLog had i records
    status,     \* status[r]: how far the call run(r) is
    kind,       \* kind[r]: the code of r
    index,      \* index[r]: runIndex of r, the length of runLog at the call
    snaps,      \* the snapshots captured, in order; a position is an id
    children,   \* sandboxes created from a snapshot
    replay      \* the last replay: still running?, its results and its state

vars == <<request, outcome, disposed, state, runLog, past, status, kind,
          index, snaps, children, replay>>

Statuses == {"idle", "executing", "saving",
             "ok", "failed",    \* returned, with ok: true or ok: false
             "rejected",        \* the promise run() returned rejected
             "refused"}         \* called on a disposed sandbox

Records == [run : Runs, ok : BOOLEAN, index : Nat]
Snapshots == [label : {"auto", "fork", "client"}, runCount : Nat,
              state : States, saved : {"saving", "stored", "lost"}]
Children == [parent : Nat, init : States]
Replays == [active : BOOLEAN, results : Seq(BOOLEAN), state : States]

TypeOK ==
    /\ ExecTypeOK
    /\ disposed \in BOOLEAN
    /\ state \in States
    /\ runLog \in Seq(Records)
    /\ past \in Seq(States)
    /\ status \in [Runs -> Statuses]
    /\ kind \in [Runs -> AllKinds \cup {"none"}]
    /\ index \in [Runs -> Nat]
    /\ snaps \in Seq(Snapshots)
    /\ children \subseteq Children
    /\ replay \in Replays

Init ==
    /\ ExecInit
    /\ disposed = FALSE
    /\ state = InitialState
    /\ runLog = <<>>
    /\ past = <<InitialState>>
    /\ status = [r \in Runs |-> "idle"]
    /\ kind = [r \in Runs |-> "none"]
    /\ index = [r \in Runs |-> 0]
    /\ snaps = <<>>
    /\ children = {}
    /\ replay = [active |-> FALSE, results |-> <<>>, state |-> InitialState]
-----------------------------------------------------------------------------
(* The client: overlapping calls, or one that awaits each call.             *)

InFlight(r) == status[r] \in {"executing", "saving"}
Quiet ==
    /\ \A r \in Runs : ~InFlight(r)
    /\ \A i \in 1..Len(snaps) : snaps[i].saved # "saving"
    /\ ~replay.active
MayCall == Overlap \/ Quiet

SetStatus(r, s) == status' = [status EXCEPT ![r] = s]

\* structuredClone accepts s: no poison in it.
Cloneable(s) ==
    \A i \in DOMAIN s : s[i][1] \in Runs => kind[s[i][1]] # "poison"

\* Mutant: the record takes its index when it is pushed.
FinishWithLateIndex(r, ok, s) ==
    /\ runLog' = Append(runLog, [run |-> r, ok |-> ok, index |-> Len(runLog)])
    /\ past' = Append(past, s)

\* Push a record of r for a run that leaves the state s behind.
Finish(r, ok, s) ==
    /\ runLog' = Append(runLog, [run |-> r, ok |-> ok, index |-> index'[r]])
    /\ past' = Append(past, s)

NotRecorded == UNCHANGED <<runLog, past>>

\* Mutant: runCount is the index of the last run instead of the count.
CaptureLastIndex(label, s, n) ==
    snaps' = Append(snaps, [label |-> label, runCount |-> n - 1,
                            state |-> s, saved |-> "saving"])

\* The synchronous half of snapshot(): the state and the length of the log are
\* read together, and the save is under way.
Capture(label, s, n) ==
    snaps' = Append(snaps, [label |-> label, runCount |-> n,
                            state |-> s, saved |-> "saving"])
-----------------------------------------------------------------------------
(* run(): from the call to the first await.                                 *)

\* assertUsable() throws.
CallDisposed(r) ==
    /\ status[r] = "idle"
    /\ disposed
    /\ SetStatus(r, "refused")
    /\ NotRecorded
    /\ UNCHANGED <<execVars, disposed, state, kind, index, snaps, children, replay>>

\* run() is called with code of kind k, and notes runIndex.
Enter(r, k) ==
    /\ status[r] = "idle"
    /\ ~disposed
    /\ MayCall
    /\ kind' = [kind EXCEPT ![r] = k]
    /\ index' = [index EXCEPT ![r] = Len(runLog)]
    /\ UNCHANGED <<disposed, state, snaps, children, replay>>

\* The token scan, the clone of the state or a probe refuses the run.
Deny(r, k) ==
    /\ Enter(r, k)
    /\ k \in {"unsafe", "denied"} \/ ~Cloneable(state)
    /\ Finish(r, FALSE, state)
    /\ SetStatus(r, "failed")
    /\ UNCHANGED execVars

\* BigInt(Math.round(NaN)) throws while the fields of run:start are built.
Misfit(r, k) ==
    /\ Enter(r, k)
    /\ k = "unfit" /\ Cloneable(state)
    /\ SetStatus(r, "rejected")
    /\ NotRecorded
    /\ UNCHANGED execVars

\* Mutant: the guest gets a clone of the initial state.
StartFromInitialState(r, k) ==
    /\ Enter(r, k)
    /\ k \notin {"unsafe", "denied", "unfit"} /\ Cloneable(state)
    /\ Submit(r, InitialState)
    /\ SetStatus(r, "executing")
    /\ NotRecorded

\* The executor gets a clone of the state, and run() awaits it.
Start(r, k) ==
    /\ Enter(r, k)
    /\ k \notin {"unsafe", "denied", "unfit"} /\ Cloneable(state)
    /\ Submit(r, state)
    /\ SetStatus(r, "executing")
    /\ NotRecorded
-----------------------------------------------------------------------------
(* The executor's promise settles, and then run() resumes.                  *)

Execute(r) ==
    /\ \/ Completes(kind[r]) /\ Succeed(r)
       \/ Breaks(kind[r]) /\ Fail(r)
       \/ Reject(r)
    /\ UNCHANGED <<disposed, state, runLog, past, status, kind, index, snaps,
                   children, replay>>

Resumes(r, k) ==
    /\ status[r] = "executing"
    /\ outcome[r].kind = k
    /\ UNCHANGED <<execVars, disposed, kind, index, children, replay>>

\* maybeAutoSnapshot() once n runs are recorded: nothing to do, or a snapshot
\* to await, or a throw from assertUsable() or structuredClone.
Due(n) == Cadence > 0 /\ n % Cadence = 0
\* Mutant: the snapshot is not awaited.
AutoSnapshotUnawaited(r, n, s) ==
    /\ SetStatus(r, "ok")
    /\ IF Due(n) /\ ~disposed THEN Capture("auto", s, n) ELSE UNCHANGED snaps

\* Mutant: the snapshot is taken without assertUsable().
AutoSnapshotUnchecked(r, n, s) ==
    IF Due(n) THEN Capture("auto", s, n) /\ SetStatus(r, "saving")
              ELSE SetStatus(r, "ok") /\ UNCHANGED snaps

AutoSnapshot(r, n, s) ==
    \/ /\ ~Due(n)
       /\ SetStatus(r, "ok")
       /\ UNCHANGED snaps
    \/ /\ Due(n)
       /\ ~disposed /\ Cloneable(s)
       /\ Capture("auto", s, n)
       /\ SetStatus(r, "saving")
    \/ /\ Due(n)
       /\ disposed \/ ~Cloneable(s)
       /\ SetStatus(r, "rejected")
       /\ UNCHANGED snaps

\* Mutant: the snapshot is captured before the run is recorded.
ResumeOkSnapshotFirst(r) ==
    /\ Resumes(r, "ok")
    /\ state' = outcome[r].state
    /\ AutoSnapshot(r, Len(runLog), outcome[r].state)
    /\ Finish(r, TRUE, outcome[r].state)

ResumeOk(r) ==
    /\ Resumes(r, "ok")
    /\ state' = outcome[r].state
    /\ Finish(r, TRUE, outcome[r].state)
    /\ AutoSnapshot(r, Len(runLog) + 1, outcome[r].state)

\* Mutant: a failure returns without finish().
ResumeFailedUnrecorded(r) ==
    /\ Resumes(r, "failed")
    /\ NotRecorded
    /\ SetStatus(r, "failed")
    /\ UNCHANGED <<state, snaps>>

ResumeFailed(r) ==
    /\ Resumes(r, "failed")
    /\ Finish(r, FALSE, state)
    /\ SetStatus(r, "failed")
    /\ UNCHANGED <<state, snaps>>

ResumeRejected(r) ==
    /\ Resumes(r, "rejected")
    /\ NotRecorded
    /\ SetStatus(r, "rejected")
    /\ UNCHANGED <<state, snaps>>
-----------------------------------------------------------------------------
(* snapshot(), fork() and restore().                                        *)

\* snapshot(label), or the snapshot fork() begins with.  An uncloneable state
\* makes it reject before anything changes.
Snapshot(label) ==
    /\ ~disposed /\ MayCall
    /\ Len(snaps) < MaxSnapshots
    /\ Cloneable(state)
    /\ Capture(label, state, Len(runLog))
    /\ UNCHANGED <<execVars, disposed, state, runLog, past, status, kind, index,
                   children, replay>>

\* An auto snapshot is captured right after its run is recorded, so the run
\* that awaits it is the one at its runCount.
Awaiting(i) == runLog[snaps[i].runCount].run

\* store.save() settles: the run that awaited it returns or rejects, the fork
\* that awaited it creates the child from the state as it is now.
Saved(i, how) ==
    /\ snaps[i].saved = "saving"
    /\ snaps' = [snaps EXCEPT ![i].saved = how]
    /\ UNCHANGED <<execVars, disposed, state, runLog, past, kind, index, replay>>

\* Mutant: the fork is made of the initial state.
SaveDoneForkInitial(i) ==
    /\ Saved(i, "stored")
    /\ IF snaps[i].label = "auto" THEN SetStatus(Awaiting(i), "ok")
                                  ELSE UNCHANGED status
    /\ IF snaps[i].label = "fork"
       THEN children' = children \cup {[parent |-> i, init |-> InitialState]}
       ELSE UNCHANGED children

SaveDone(i) ==
    /\ Saved(i, "stored")
    /\ IF snaps[i].label = "auto" THEN SetStatus(Awaiting(i), "ok")
                                  ELSE UNCHANGED status
    /\ IF snaps[i].label = "fork" /\ Cloneable(state)
       THEN children' = children \cup {[parent |-> i, init |-> state]}
       ELSE UNCHANGED children

\* Mutant: the failed save settles nothing.
SaveFailsSilently(i) ==
    /\ Saved(i, "lost")
    /\ UNCHANGED <<status, children>>

SaveFails(i) ==
    /\ Saved(i, "lost")
    /\ IF snaps[i].label = "auto" THEN SetStatus(Awaiting(i), "rejected")
                                  ELSE UNCHANGED status
    /\ UNCHANGED children

\* Sandbox.restore(id): a static method, usable after dispose().
Restore(i) ==
    /\ snaps[i].saved = "stored"
    /\ MayCall
    /\ children' = children \cup {[parent |-> i, init |-> snaps[i].state]}
    /\ UNCHANGED <<execVars, disposed, state, runLog, past, status, kind, index,
                   snaps, replay>>
-----------------------------------------------------------------------------
(* replay(): a fresh sandbox runs the recorded code.  It is not given the       *)
(* runtime, the worker factory or the probes of this one, and so runs inline. *)

\* Mutant: the replay starts from the current state.
ReplayStartFromNow ==
    /\ ~disposed /\ MayCall
    /\ ~replay.active
    /\ replay' = [active |-> TRUE, results |-> <<>>, state |-> state]
    /\ UNCHANGED <<execVars, disposed, state, runLog, past, status, kind, index,
                   snaps, children>>

ReplayStart ==
    /\ ~disposed /\ MayCall
    /\ ~replay.active
    /\ replay' = [active |-> TRUE, results |-> <<>>, state |-> InitialState]
    /\ UNCHANGED <<execVars, disposed, state, runLog, past, status, kind, index,
                   snaps, children>>

\* One iteration of the loop over the live runLog.  Nothing else can reach the
\* replay sandbox, so its run is one step.  A guest that loops, which another
\* runtime had ended, does not come back from here.
ReplayRun ==
    LET n == Len(replay.results) + 1
        r == runLog[n].run
    IN  /\ replay.active
        /\ n <= Len(runLog)
        /\ \/ /\ CompletesIn("inline", kind[r]) /\ Cloneable(replay.state)
              /\ replay' = [replay EXCEPT !.results = Append(@, TRUE),
                                           !.state = Effect(@, r)]
           \/ /\ BreaksIn("inline", kind[r]) \/ ~Cloneable(replay.state)
              /\ replay' = [replay EXCEPT !.results = Append(@, FALSE)]
        /\ UNCHANGED <<execVars, disposed, state, runLog, past, status, kind,
                       index, snaps, children>>

ReplayEnd ==
    /\ replay.active
    /\ Len(replay.results) >= Len(runLog)
    /\ replay' = [replay EXCEPT !.active = FALSE]
    /\ UNCHANGED <<execVars, disposed, state, runLog, past, status, kind, index,
                   snaps, children>>

Dispose ==
    /\ MayCall
    /\ disposed' = TRUE
    /\ state' = EmptyState
    /\ UNCHANGED <<execVars, runLog, past, status, kind, index, snaps, children,
                   replay>>
-----------------------------------------------------------------------------
Call(r) ==
    \/ CallDisposed(r)
    \/ \E k \in Kinds : Deny(r, k) \/ Misfit(r, k) \/ Start(r, k)
Resume(r) == ResumeOk(r) \/ ResumeFailed(r) \/ ResumeRejected(r)
SaveSettles(i) == SaveDone(i) \/ SaveFails(i)
Replay == ReplayRun \/ ReplayEnd

Next ==
    \/ \E r \in Runs : Call(r) \/ Execute(r) \/ Resume(r)
    \/ \E label \in {"client", "fork"} : Snapshot(label)
    \/ \E i \in 1..Len(snaps) : SaveSettles(i) \/ Restore(i)
    \/ ReplayStart \/ Replay
    \/ Dispose

\* The event loop runs every callback in the end: executor promises settle (the
\* fairness of ExecSpec), awaits resume, saves finish, replay goes on.  Nothing
\* obliges a client to call anything.
Fairness ==
    /\ \A r \in Runs : WF_vars(Execute(r)) /\ WF_vars(Resume(r))
    /\ \A i \in 1..(MaxSnapshots + Cardinality(Runs)) :
           WF_vars(i <= Len(snaps) /\ SaveSettles(i))
    /\ WF_vars(Replay)

Spec == Init /\ [][Next]_vars /\ Fairness
-----------------------------------------------------------------------------
(* Properties that hold however calls overlap.                              *)

\* Each record says which state its run started from: the state when runLog had
\* index records.  A recorded success left exactly the whole effect of its code
\* on that state, never part of it, never that of another run; a recorded
\* failure left the state as it was (or {} once disposed).  (run(): the clone,
\* the commit and finish().)
RunsOnRecordedHistory ==
    \A i \in 1..Len(runLog) :
        LET rec == runLog[i]
        IN  IF rec.ok THEN past[i + 1] = Effect(past[rec.index + 1], rec.run)
            ELSE \/ past[i + 1] = past[i]
                 \/ disposed /\ past[i + 1] = EmptyState

\* A snapshot holds the state as it was when runLog had runCount records, also
\* when its save finishes, or its run resumes, many steps later.  (snapshot(),
\* maybeAutoSnapshot().)
SnapshotMatchesHistory ==
    \A i \in 1..Len(snaps) :
        /\ snaps[i].runCount <= Len(runLog)
        /\ snaps[i].state = past[snaps[i].runCount + 1]

\* The caller is told what the log says: a run that returned is recorded once,
\* with the ok it returned, and one that was refused, or never resumed, is not.
\* (run(): every path through finish().)
RecordedAsReturned ==
    \A r \in Runs :
        LET mine == {i \in 1..Len(runLog) : runLog[i].run = r}
        IN  /\ Cardinality(mine) <= 1
            /\ status[r] \in {"ok", "failed", "saving"} => mine # {}
            /\ status[r] \in {"idle", "executing", "refused"} => mine = {}
            /\ \A i \in mine : runLog[i].ok <=> status[r] # "failed"

\* When a run at the auto-snapshot cadence has returned, the state it committed
\* is in the store.  (maybeAutoSnapshot() is awaited before run() returns.)
DurableOnReturn ==
    \A i \in 1..Len(runLog) :
        Due(i) /\ status[runLog[i].run] = "ok" =>
            \E j \in 1..Len(snaps) :
                snaps[j] = [label |-> "auto", runCount |-> i,
                            state |-> past[i + 1], saved |-> "stored"]

\* A fork is never older than the snapshot it names as its parent: its state is
\* one the sandbox had when that snapshot was taken or later, or {} when the
\* sandbox was disposed before the save finished.  (fork() reads this.state
\* again after it awaited snapshot().)
ForkNotOlderThanParent ==
    \A c \in children :
        \/ disposed /\ c.init = EmptyState
        \/ \E i \in (snaps[c.parent].runCount + 1)..Len(past) : c.init = past[i]

\* dispose() is final: no guest code is handed to the executor afterwards and no
\* snapshot is captured, not even by a run that was in flight.  (assertUsable()
\* in run() and snapshot().)
ClosedForGood ==
    [][disposed => /\ disposed'
                   /\ request' = request
                   /\ Len(snaps') = Len(snaps)]_vars

\* Every run() that began settles: awaits of the executor and of the store end.
EveryRunSettles == \A r \in Runs : InFlight(r) ~> ~InFlight(r)
-----------------------------------------------------------------------------
(* Why they hold: the inductive invariant SandboxProofs rests on.           *)

\* The state is the latest of the history, unless dispose() dropped it.
StateIsLatest ==
    /\ Len(past) = Len(runLog) + 1
    /\ state = past[Len(past)] \/ (disposed /\ state = EmptyState)

\* A record's index is that of a state before it.
RecordsPointBack == \A i \in 1..Len(runLog) : runLog[i].index < i

\* A run that is executing was given the state its index points at, and what the
\* executor returns is the whole effect on it.
RequestsFromHistory ==
    \A r \in Runs :
        /\ ~request[r].made => outcome[r].kind = "none"
        /\ outcome[r].kind = "ok" => outcome[r].state = Effect(request[r].state, r)
        /\ status[r] = "executing" =>
              /\ index[r] <= Len(runLog)
              /\ request[r].state = past[index[r] + 1]

\* The log, the history, the requests under way and the snapshots agree at every
\* step.  (run() and snapshot() between their awaits.)
HistoryInv ==
    /\ TypeOK
    /\ StateIsLatest
    /\ RecordsPointBack
    /\ RequestsFromHistory
    /\ RunsOnRecordedHistory
    /\ SnapshotMatchesHistory
-----------------------------------------------------------------------------
(* Properties of a sandbox whose clients await each call (Overlap = FALSE). *)

\* No success is lost: each adds its effect to the state its predecessor left,
\* so the state is that of the successes in log order.
NoLostUpdate ==
    \A i \in 1..Len(runLog) :
        runLog[i].ok => past[i + 1] = Effect(past[i], runLog[i].run)

\* A forked or restored sandbox starts from the state of the snapshot it names
\* as parentSnapshotId.
ForkMatchesParent == \A c \in children : c.init = snaps[c.parent].state

\* As far as it has come, a replay returned what the log recorded and is in the
\* state the sandbox was in at that point.  (replay(), in the runtime of the runs.)
ReplayReproduces ==
    \A i \in 1..Len(replay.results) :
        /\ replay.results[i] = runLog[i].ok
        /\ i = Len(replay.results) => replay.state = past[i + 1]
-----------------------------------------------------------------------------
(* What the repository says and the code does not do.                       *)

\* "Failures are returned as ok: false results, never thrown" (sandbox.ts, the
\* comment on run()): the promise of a run on a usable sandbox never rejects.
RunNeverThrows == \A r \in Runs : status[r] # "rejected"
=============================================================================
