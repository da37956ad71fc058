---------------------------- MODULE SandboxProofs ----------------------------
(***************************************************************************)
(* Theorems about Sandbox, for every value of its constants.                *)
(***************************************************************************)
EXTENDS Sandbox, SequenceTheorems, FiniteSetTheorems, TLAPS

\* The whole effect of a guest on a state is a state.
LEMMA EffectType ==
    ASSUME NEW s \in States, NEW r \in Runs
    PROVE  Effect(s, r) \in States
<1>1. GuestMarks(r) \in [1..Steps -> Marks]
  BY StepsAssumption DEF GuestMarks, Marks
<1>2. GuestMarks(r) \in Seq(Marks)
  BY <1>1, StepsAssumption, SeqDef
<1>3. QED
  BY <1>2, ConcatProperties DEF Effect, States

\* The initial state and the empty one are states.
LEMMA ConstantStates == InitialState \in States /\ EmptyState \in States
  BY StepsAssumption DEF InitialState, EmptyState, States, Marks
-----------------------------------------------------------------------------
\* Each step keeps the types.
LEMMA TypeStep == TypeOK /\ [Next]_vars => TypeOK'
<1> SUFFICES ASSUME TypeOK, [Next]_vars PROVE TypeOK'
  OBVIOUS
<1> USE DEF TypeOK, ExecTypeOK
<1>1. ASSUME NEW r \in Runs, CallDisposed(r) PROVE TypeOK'
  BY <1>1 DEF CallDisposed, SetStatus, Statuses, NotRecorded, execVars
<1>2. ASSUME NEW r \in Runs, NEW k \in Kinds, Deny(r, k) PROVE TypeOK'
  <2>1. Len(runLog) \in Nat
    BY LenProperties
  <2>2. kind' \in [Runs -> AllKinds \cup {"none"}] /\ index' \in [Runs -> Nat]
    BY <1>2, <2>1, KindsAssumption DEF Deny, Enter
  <2>3. runLog' \in Seq(Records) /\ past' \in Seq(States)
    BY <1>2, <2>2, AppendProperties DEF Deny, Finish, Records
  <2>4. QED
    BY <1>2, <2>2, <2>3 DEF Deny, Enter, SetStatus, Statuses, execVars
<1>3. ASSUME NEW r \in Runs, NEW k \in Kinds, Misfit(r, k) PROVE TypeOK'
  <2>1. Len(runLog) \in Nat
    BY LenProperties
  <2>2. kind' \in [Runs -> AllKinds \cup {"none"}] /\ index' \in [Runs -> Nat]
    BY <1>3, <2>1, KindsAssumption DEF Misfit, Enter
  <2>3. QED
    BY <1>3, <2>2 DEF Misfit, Enter, SetStatus, Statuses, NotRecorded, execVars
<1>4. ASSUME NEW r \in Runs, NEW k \in Kinds, Start(r, k) PROVE TypeOK'
  <2>1. Len(runLog) \in Nat
    BY LenProperties
  <2>2. kind' \in [Runs -> AllKinds \cup {"none"}] /\ index' \in [Runs -> Nat]
    BY <1>4, <2>1, KindsAssumption DEF Start, Enter
  <2>3. request' \in [Runs -> Requests]
    BY <1>4 DEF Start, Submit, Request, Requests
  <2>4. QED
    BY <1>4, <2>2, <2>3 DEF Start, Enter, Submit, SetStatus, Statuses, NotRecorded
<1>5. ASSUME NEW r \in Runs, Execute(r) PROVE TypeOK'
  <2>1. request[r].state \in States
    BY DEF Requests
  <2>2. Effect(request[r].state, r) \in States
    BY <2>1, EffectType
  <2>3. PICK o \in Outcomes : Settle(r, o)
    BY <1>5, <2>2, ConstantStates
       DEF Execute, Succeed, Fail, Reject, Success, Failure, Rejection, Outcomes
  <2>4. QED
    BY <1>5, <2>3 DEF Execute, Settle
<1>6. ASSUME NEW r \in Runs, ResumeOk(r) PROVE TypeOK'
  <2>1. outcome[r].state \in States /\ index' = index
    BY <1>6 DEF Outcomes, ResumeOk, Resumes
  <2>2. runLog' \in Seq(Records) /\ past' \in Seq(States)
    BY <1>6, <2>1, AppendProperties DEF ResumeOk, Finish, Records
  <2>3. status' \in [Runs -> Statuses] /\ snaps' \in Seq(Snapshots)
    <3>1. Len(runLog) + 1 \in Nat
      BY LenProperties
    <3> DEFINE snap == [label |-> "auto", runCount |-> Len(runLog) + 1,
                        state |-> outcome[r].state, saved |-> "saving"]
    <3>2. snap \in Snapshots
      BY <2>1, <3>1 DEF Snapshots
    <3>3. Append(snaps, snap) \in Seq(Snapshots)
      BY <3>2, AppendProperties
    <3>4. snaps' = snaps \/ snaps' = Append(snaps, snap)
      BY <1>6 DEF ResumeOk, AutoSnapshot, Capture
    <3>5. \E s \in {"ok", "saving", "rejected"} : SetStatus(r, s)
      BY <1>6 DEF ResumeOk, AutoSnapshot
    <3>6. QED
      BY <3>3, <3>4, <3>5 DEF SetStatus, Statuses
  <2>4. QED
    BY <1>6, <2>1, <2>2, <2>3 DEF ResumeOk, Resumes, execVars
<1>7. ASSUME NEW r \in Runs, ResumeFailed(r) PROVE TypeOK'
  <2>1. runLog' \in Seq(Records) /\ past' \in Seq(States)
    BY <1>7, AppendProperties DEF ResumeFailed, Resumes, Finish, Records
  <2>2. QED
    BY <1>7, <2>1 DEF ResumeFailed, Resumes, SetStatus, Statuses, execVars
<1>8. ASSUME NEW r \in Runs, ResumeRejected(r) PROVE TypeOK'
  BY <1>8 DEF ResumeRejected, Resumes, SetStatus, Statuses, NotRecorded, execVars
<1>9. ASSUME NEW label \in {"client", "fork"}, Snapshot(label) PROVE TypeOK'
  <2>1. [label |-> label, runCount |-> Len(runLog), state |-> state,
         saved |-> "saving"] \in Snapshots
    BY LenProperties DEF Snapshots
  <2>2. snaps' \in Seq(Snapshots)
    BY <1>9, <2>1, AppendProperties DEF Snapshot, Capture
  <2>3. QED
    BY <1>9, <2>2 DEF Snapshot, execVars
<1>10. ASSUME NEW i \in 1..Len(snaps), SaveSettles(i) PROVE TypeOK'
  <2>1. snaps[i] \in Snapshots
    BY ElementOfSeq
  <2>2. PICK how \in {"stored", "lost"} : Saved(i, how)
    BY <1>10 DEF SaveSettles, SaveDone, SaveFails
  <2>3. [snaps[i] EXCEPT !.saved = how] \in Snapshots
    BY <2>1 DEF Snapshots
  <2>4. snaps' \in Seq(Snapshots)
    BY <2>2, <2>3, ExceptSeq DEF Saved
  <2>5. status' \in [Runs -> Statuses]
    BY <1>10 DEF SaveSettles, SaveDone, SaveFails, SetStatus, Statuses
  <2>6. [parent |-> i, init |-> state] \in Children
    BY DEF Children
  <2>7. children' \subseteq Children
    BY <1>10, <2>6 DEF SaveSettles, SaveDone, SaveFails
  <2>8. QED
    BY <2>2, <2>4, <2>5, <2>7 DEF Saved, execVars
<1>11. ASSUME NEW i \in 1..Len(snaps), Restore(i) PROVE TypeOK'
  <2>1. snaps[i] \in Snapshots
    BY ElementOfSeq
  <2>2. [parent |-> i, init |-> snaps[i].state] \in Children
    BY <2>1 DEF Snapshots, Children
  <2>3. QED
    BY <1>11, <2>2 DEF Restore, execVars
<1>12. CASE ReplayStart
  BY <1>12, ConstantStates DEF ReplayStart, Replays, execVars
<1>13. CASE Replay
  <2>1. CASE ReplayEnd
    BY <2>1 DEF ReplayEnd, Replays, execVars
  <2>2. CASE ReplayRun
    <3> DEFINE n == Len(replay.results) + 1
               r == runLog[n].run
    <3>1. replay.results \in Seq(BOOLEAN) /\ replay.state \in States
      BY DEF Replays
    <3>2. n \in 1..Len(runLog)
      BY <2>2, <3>1, LenProperties DEF ReplayRun
    <3>3. r \in Runs
      <4>1. runLog[n] \in Records
        BY <3>2, ElementOfSeq
      <4>2. QED
        BY <4>1 DEF Records
    <3>4. Effect(replay.state, r) \in States
      BY <3>1, <3>3, EffectType
    <3>5. Append(replay.results, TRUE) \in Seq(BOOLEAN)
          /\ Append(replay.results, FALSE) \in Seq(BOOLEAN)
      BY <3>1, AppendProperties
    <3>6. replay' \in Replays
      <4> HIDE DEF r, n
      <4>1. \/ replay' = [replay EXCEPT !.results = Append(@, TRUE),
                                        !.state = Effect(@, r)]
            \/ replay' = [replay EXCEPT !.results = Append(@, FALSE)]
        BY <2>2 DEF ReplayRun, r, n
      <4>2. QED
        BY ZenonT(30), <3>1, <3>4, <3>5, <4>1 DEF Replays
    <3>7. QED
      BY <2>2, <3>6 DEF ReplayRun, execVars
  <2>3. QED
    BY <1>13, <2>1, <2>2 DEF Replay
<1>14. CASE Dispose
  BY <1>14, ConstantStates DEF Dispose, execVars
<1>15. CASE UNCHANGED vars
  BY <1>15 DEF vars
<1>16. QED
  BY <1>1, <1>2, <1>3, <1>4, <1>5, <1>6, <1>7, <1>8, <1>9, <1>10, <1>11,
     <1>12, <1>13, <1>14, <1>15 DEF Next, Call, Resume
-----------------------------------------------------------------------------
\* The initial states have the types.
LEMMA TypeInit == Init => TypeOK
<1> SUFFICES ASSUME Init PROVE TypeOK
  OBVIOUS
<1>1. NoRequest \in Requests /\ NoOutcome \in Outcomes
  BY ConstantStates DEF NoRequest, NoOutcome, Requests, Outcomes
<1>2. ExecTypeOK
  BY <1>1 DEF Init, ExecInit, ExecTypeOK
<1>3. replay \in Replays
  BY ConstantStates, EmptySeq DEF Init, Replays
<1>4. runLog \in Seq(Records) /\ snaps \in Seq(Snapshots)
  BY EmptySeq DEF Init
<1>5. past \in Seq(States) /\ state \in States
  BY ConstantStates DEF Init
<1>6. status \in [Runs -> Statuses]
  BY DEF Init, Statuses
<1>7. QED
  BY <1>2, <1>3, <1>4, <1>5, <1>6 DEF Init, TypeOK

\* The variables of the sandbox and of its executor keep their types: whatever
\* interleaving of calls, the log holds RunRecords, the snapshots are snapshots
\* and the state is one the guests can have made.
THEOREM TypeCorrect == Spec => []TypeOK
  BY TypeInit, TypeStep, PTL DEF Spec

\* A save that settles changes nothing of what the snapshots hold.
LEMMA SavesKeepCaptures ==
  ASSUME TypeOK, NEW i \in 1..Len(snaps), NEW how \in {"stored", "lost"},
         Saved(i, how)
  PROVE  /\ Len(snaps') = Len(snaps)
         /\ \A j \in 1..Len(snaps) : /\ snaps'[j].state = snaps[j].state
                                     /\ snaps'[j].runCount = snaps[j].runCount
<1> DEFINE new == [snaps[i] EXCEPT !.saved = how]
<1>1. snaps \in Seq(Snapshots)
  BY DEF TypeOK
<1>2. \A j \in 1..Len(snaps) : snaps[j] \in Snapshots
  BY <1>1, ElementOfSeq
<1>3. /\ new \in Snapshots
      /\ new.state = snaps[i].state
      /\ new.runCount = snaps[i].runCount
  BY <1>2 DEF Snapshots
<1>4. snaps' = [snaps EXCEPT ![i] = new]
  BY DEF Saved
<1> HIDE DEF new
<1>5. /\ Len(snaps') = Len(snaps)
      /\ \A j \in 1..Len(snaps) : snaps'[j] = IF j = i THEN new ELSE snaps[j]
  BY <1>1, <1>3, <1>4, ExceptSeq
<1>6. QED
  BY <1>3, <1>5

\* No guest code is started and no snapshot captured after dispose(), by any
\* number of runs in flight.
THEOREM DisposeIsFinal == Spec => ClosedForGood
<1>1. TypeOK /\ [Next]_vars
      => [disposed => /\ disposed'
                      /\ request' = request
                      /\ Len(snaps') = Len(snaps)]_vars
  <2> SUFFICES ASSUME TypeOK, Next, disposed
               PROVE  disposed' /\ request' = request /\ Len(snaps') = Len(snaps)
    OBVIOUS
  <2>1. ASSUME NEW r \in Runs, Call(r) \/ Execute(r) \/ Resume(r)
        PROVE  disposed' /\ request' = request /\ snaps' = snaps
    <3>1. CASE Call(r)
      BY <3>1 DEF Call, CallDisposed, Deny, Misfit, Start, Enter, execVars
    <3>2. CASE Execute(r)
      BY <3>2 DEF Execute, Succeed, Fail, Reject, Settle
    <3>3. CASE Resume(r)
      BY <3>3 DEF Resume, ResumeOk, ResumeFailed, ResumeRejected, Resumes,
                  AutoSnapshot, execVars
    <3>4. QED
      BY <2>1, <3>1, <3>2, <3>3
  <2>2. ASSUME NEW i \in 1..Len(snaps), SaveSettles(i) \/ Restore(i)
        PROVE  disposed' /\ request' = request /\ Len(snaps') = Len(snaps)
    <3>1. CASE Restore(i)
      BY <3>1 DEF Restore, execVars
    <3>2. CASE SaveSettles(i)
      <4>1. PICK how \in {"stored", "lost"} : Saved(i, how)
        BY <3>2 DEF SaveSettles, SaveDone, SaveFails
      <4>2. QED
        BY <4>1, SavesKeepCaptures DEF Saved, execVars
    <3>3. QED
      BY <2>2, <3>1, <3>2
  <2>3. CASE \E label \in {"client", "fork"} : Snapshot(label)
    BY <2>3 DEF Snapshot
  <2>4. CASE ReplayStart \/ Replay \/ Dispose
    BY <2>4 DEF ReplayStart, Replay, ReplayRun, ReplayEnd, Dispose, execVars
  <2>5. QED
    BY <2>1, <2>2, <2>3, <2>4 DEF Next
<1>2. QED
  BY <1>1, TypeInit, TypeStep, PTL DEF Spec, ClosedForGood
-----------------------------------------------------------------------------
(* The log, the history, the requests under way and the snapshots agree.     *)

\* A record pushed with the state it leaves behind leaves the past as it was.
LEMMA HistoryGrows ==
  ASSUME TypeOK, StateIsLatest, NEW rec \in Records, NEW s \in States,
         runLog' = Append(runLog, rec), past' = Append(past, s)
  PROVE  /\ Len(runLog) \in Nat /\ Len(past) = Len(runLog) + 1
         /\ Len(runLog') = Len(runLog) + 1 /\ Len(past') = Len(past) + 1
         /\ \A i \in 1..Len(runLog) : runLog'[i] = runLog[i]
         /\ \A i \in 1..Len(past) : past'[i] = past[i]
         /\ runLog'[Len(runLog) + 1] = rec
         /\ past'[Len(past) + 1] = s
<1>1. runLog \in Seq(Records) /\ past \in Seq(States)
  BY DEF TypeOK
<1>2. QED
  BY <1>1, AppendProperties, LenProperties DEF StateIsLatest

\* Recording a run that kept to the state its index names keeps the log true.
LEMMA FinishKeepsLog ==
  ASSUME HistoryInv, NEW rec \in Records, NEW s \in States,
         runLog' = Append(runLog, rec), past' = Append(past, s),
         state' = s, disposed' = disposed,
         rec.index <= Len(runLog),
         IF rec.ok THEN s = Effect(past[rec.index + 1], rec.run) ELSE s = state
  PROVE  StateIsLatest' /\ RecordsPointBack' /\ RunsOnRecordedHistory'
<1>1. /\ Len(runLog) \in Nat /\ Len(past) = Len(runLog) + 1
      /\ Len(runLog') = Len(runLog) + 1 /\ Len(past') = Len(past) + 1
      /\ \A i \in 1..Len(runLog) : runLog'[i] = runLog[i]
      /\ \A i \in 1..Len(past) : past'[i] = past[i]
      /\ runLog'[Len(runLog) + 1] = rec
      /\ past'[Len(past) + 1] = s
  BY HistoryGrows DEF HistoryInv
<1>2. StateIsLatest'
  BY <1>1 DEF StateIsLatest
<1>3. \A i \in 1..Len(runLog) : runLog[i] \in Records
  BY ElementOfSeq DEF HistoryInv, TypeOK
<1>4. RecordsPointBack'
  <2>1. \A i \in 1..Len(runLog) : runLog'[i].index < i
    BY <1>1 DEF HistoryInv, RecordsPointBack
  <2>2. runLog'[Len(runLog) + 1].index < Len(runLog) + 1
    BY <1>1 DEF Records
  <2>3. QED
    BY <1>1, <2>1, <2>2 DEF RecordsPointBack
<1>5. ASSUME NEW i \in 1..Len(runLog')
      PROVE  IF runLog'[i].ok
             THEN past'[i + 1] = Effect(past'[runLog'[i].index + 1], runLog'[i].run)
             ELSE \/ past'[i + 1] = past'[i]
                  \/ disposed' /\ past'[i + 1] = EmptyState
  <2>1. CASE i \in 1..Len(runLog)
    <3>1. runLog'[i] = runLog[i] /\ past'[i] = past[i] /\ past'[i + 1] = past[i + 1]
      BY <1>1, <2>1
    <3>2. runLog[i].index \in Nat /\ runLog[i].index < i
      BY <1>3, <2>1 DEF Records, HistoryInv, RecordsPointBack
    <3>3. past'[runLog[i].index + 1] = past[runLog[i].index + 1]
      BY <1>1, <2>1, <3>2
    <3>4. QED
      BY <2>1, <3>1, <3>3 DEF HistoryInv, RunsOnRecordedHistory
  <2>2. CASE i = Len(runLog) + 1
    <3>1. runLog'[i] = rec /\ past'[i + 1] = s /\ past'[i] = past[Len(past)]
      BY <1>1, <2>2
    <3>2. past'[rec.index + 1] = past[rec.index + 1]
      BY <1>1 DEF Records
    <3>3. state = past[Len(past)] \/ (disposed /\ state = EmptyState)
      BY DEF HistoryInv, StateIsLatest
    <3>4. QED
      BY <3>1, <3>2, <3>3
  <2>3. i \in 1..Len(runLog) \/ i = Len(runLog) + 1
    BY <1>1
  <2>4. QED
    BY <2>1, <2>2, <2>3
<1>6. QED
  BY <1>2, <1>4, <1>5 DEF RunsOnRecordedHistory

\* The snapshots and the runs under way stay true when the log grows or stays,
\* provided a new snapshot is true to the new log.
LEMMA PastKeepsSnapshots ==
  ASSUME HistoryInv,
         Len(runLog') \in Nat, Len(runLog) <= Len(runLog'),
         \A i \in 1..Len(past) : past'[i] = past[i],
         NEW snap \in Snapshots,
         snaps' = snaps \/ (/\ snaps' = Append(snaps, snap)
                            /\ snap.runCount <= Len(runLog')
                            /\ snap.state = past'[snap.runCount + 1])
  PROVE  SnapshotMatchesHistory'
<1>1. /\ Len(runLog) \in Nat /\ Len(past) = Len(runLog) + 1
      /\ snaps \in Seq(Snapshots)
  BY LenProperties DEF HistoryInv, TypeOK, StateIsLatest
<1>2. \A i \in 1..Len(snaps) : snaps[i] \in Snapshots
  BY <1>1, ElementOfSeq
<1>3. \A i \in 1..Len(snaps) : /\ snaps[i].runCount <= Len(runLog')
                               /\ snaps[i].state = past'[snaps[i].runCount + 1]
  <2> SUFFICES ASSUME NEW i \in 1..Len(snaps)
               PROVE  /\ snaps[i].runCount <= Len(runLog')
                      /\ snaps[i].state = past'[snaps[i].runCount + 1]
    OBVIOUS
  <2>1. snaps[i].runCount \in Nat
    BY <1>2 DEF Snapshots
  <2>2. /\ snaps[i].runCount <= Len(runLog)
        /\ snaps[i].state = past[snaps[i].runCount + 1]
    BY DEF HistoryInv, SnapshotMatchesHistory
  <2>3. snaps[i].runCount + 1 \in 1..Len(past)
    BY <1>1, <2>1, <2>2
  <2>4. QED
    BY <1>1, <2>1, <2>2, <2>3
<1>4. CASE snaps' = snaps
  BY <1>3, <1>4 DEF SnapshotMatchesHistory
<1>5. CASE snaps' # snaps
  <2>1. /\ Len(snaps) \in Nat /\ Len(snaps') = Len(snaps) + 1
        /\ \A i \in 1..Len(snaps) : snaps'[i] = snaps[i]
        /\ snaps'[Len(snaps) + 1] = snap
    BY <1>1, <1>5, AppendProperties, LenProperties
  <2>2. QED
    BY <1>3, <1>5, <2>1 DEF SnapshotMatchesHistory
<1>6. QED
  BY <1>4, <1>5

\* A step that records nothing keeps the log true, also when it disposes.
LEMMA LogKept ==
  ASSUME HistoryInv, UNCHANGED <<runLog, past>>, disposed => disposed',
         state' = state \/ (disposed' /\ state' = EmptyState)
  PROVE  StateIsLatest' /\ RecordsPointBack' /\ RunsOnRecordedHistory'
<1>1. StateIsLatest' /\ RecordsPointBack'
  BY DEF HistoryInv, StateIsLatest, RecordsPointBack
<1>2. RunsOnRecordedHistory'
  BY DEF HistoryInv, RunsOnRecordedHistory
<1>3. QED
  BY <1>1, <1>2

\* The runs that go on executing keep the state they were given.
LEMMA PastKeepsRequests ==
  ASSUME HistoryInv,
         Len(runLog') \in Nat, Len(runLog) <= Len(runLog'),
         \A i \in 1..Len(past) : past'[i] = past[i],
         UNCHANGED execVars,
         \A r \in Runs : status'[r] = "executing" =>
                            status[r] = "executing" /\ index'[r] = index[r]
  PROVE  RequestsFromHistory'
<1>1. Len(runLog) \in Nat /\ Len(past) = Len(runLog) + 1
  BY LenProperties DEF HistoryInv, TypeOK, StateIsLatest
<1>2. UNCHANGED <<request, outcome>>
  BY DEF execVars
<1>3. ASSUME NEW r \in Runs, status'[r] = "executing"
      PROVE  index'[r] <= Len(runLog') /\ request'[r].state = past'[index'[r] + 1]
  <2>1. status[r] = "executing" /\ index'[r] = index[r] /\ index[r] \in Nat
    BY <1>3 DEF HistoryInv, TypeOK
  <2>2. index[r] <= Len(runLog) /\ request[r].state = past[index[r] + 1]
    BY <2>1 DEF HistoryInv, RequestsFromHistory
  <2>3. index[r] + 1 \in 1..Len(past)
    BY <1>1, <2>1, <2>2
  <2>4. QED
    BY <1>1, <1>2, <2>1, <2>2, <2>3
<1>4. ASSUME NEW r \in Runs
      PROVE  /\ ~request'[r].made => outcome'[r].kind = "none"
             /\ outcome'[r].kind = "ok" =>
                   outcome'[r].state = Effect(request'[r].state, r)
  BY <1>2 DEF HistoryInv, RequestsFromHistory
<1>5. QED
  BY <1>3, <1>4 DEF RequestsFromHistory
-----------------------------------------------------------------------------
\* The initial state satisfies the inductive invariant.
LEMMA HistoryInit == Init => HistoryInv
<1> SUFFICES ASSUME Init PROVE HistoryInv
  OBVIOUS
<1>1. Len(runLog) = 0 /\ Len(snaps) = 0 /\ Len(past) = 1 /\ past[1] = state
  BY DEF Init
<1>2. StateIsLatest /\ RecordsPointBack /\ RunsOnRecordedHistory
      /\ SnapshotMatchesHistory
  BY <1>1 DEF StateIsLatest, RecordsPointBack, RunsOnRecordedHistory,
              SnapshotMatchesHistory
<1>3. RequestsFromHistory
  BY DEF Init, ExecInit, NoRequest, NoOutcome, RequestsFromHistory
<1>4. QED
  BY <1>2, <1>3, TypeInit DEF HistoryInv

\* Each step keeps it.
LEMMA HistoryStep == HistoryInv /\ [Next]_vars => HistoryInv'
<1> SUFFICES ASSUME HistoryInv, [Next]_vars PROVE HistoryInv'
  OBVIOUS
<1> DEFINE LogTrue == StateIsLatest /\ RecordsPointBack /\ RunsOnRecordedHistory
           Rest == RequestsFromHistory /\ SnapshotMatchesHistory
<1>1. TypeOK /\ TypeOK'
  BY TypeStep DEF HistoryInv
<1>2. /\ Len(runLog) \in Nat /\ Len(past) = Len(runLog) + 1
      /\ Len(snaps) \in Nat
  BY <1>1, LenProperties DEF HistoryInv, TypeOK, StateIsLatest
<1>3. PICK anysnap \in Snapshots : TRUE
  <2>1. [label |-> "auto", runCount |-> 0, state |-> EmptyState,
         saved |-> "lost"] \in Snapshots
    BY ConstantStates DEF Snapshots
  <2>2. QED
    BY <2>1
<1>4. ASSUME UNCHANGED <<runLog, past, snaps, execVars>>,
             disposed => disposed',
             state' = state \/ (disposed' /\ state' = EmptyState),
             \A r \in Runs : status'[r] = "executing" =>
                                status[r] = "executing" /\ index'[r] = index[r]
      PROVE  LogTrue' /\ Rest'
  <2>1. LogTrue'
    BY <1>4, LogKept
  <2>2. RequestsFromHistory'
    BY <1>2, <1>4, PastKeepsRequests
  <2>3. SnapshotMatchesHistory'
    BY <1>2, <1>3, <1>4, PastKeepsSnapshots
  <2>4. QED
    BY <2>1, <2>2, <2>3
<1>5. ASSUME NEW r \in Runs, CallDisposed(r) PROVE LogTrue' /\ Rest'
  <2>1. \A q \in Runs : status'[q] = "executing" =>
                           status[q] = "executing" /\ index'[q] = index[q]
    BY <1>1, <1>5 DEF CallDisposed, SetStatus, TypeOK
  <2>2. QED
    BY <1>4, <1>5, <2>1 DEF CallDisposed, NotRecorded
<1>6. ASSUME NEW r \in Runs, NEW k \in Kinds, Misfit(r, k) PROVE LogTrue' /\ Rest'
  <2>1. \A q \in Runs : status'[q] = "executing" =>
                           status[q] = "executing" /\ index'[q] = index[q]
    BY <1>1, <1>6 DEF Misfit, Enter, SetStatus, TypeOK
  <2>2. QED
    BY <1>4, <1>6, <2>1 DEF Misfit, Enter, NotRecorded
<1>7. ASSUME NEW r \in Runs, ResumeRejected(r) PROVE LogTrue' /\ Rest'
  <2>1. \A q \in Runs : status'[q] = "executing" =>
                           status[q] = "executing" /\ index'[q] = index[q]
    BY <1>1, <1>7 DEF ResumeRejected, Resumes, SetStatus, TypeOK
  <2>2. QED
    BY <1>4, <1>7, <2>1 DEF ResumeRejected, Resumes, NotRecorded
<1>8. ASSUME ReplayStart \/ Replay \/ Dispose \/ UNCHANGED vars
      PROVE  LogTrue' /\ Rest'
  <2>1. UNCHANGED <<runLog, past, snaps, execVars, status, index>>
    BY <1>8 DEF ReplayStart, Replay, ReplayRun, ReplayEnd, Dispose, vars, execVars
  <2>2. UNCHANGED <<disposed, state>> \/ Dispose
    BY <1>8 DEF ReplayStart, Replay, ReplayRun, ReplayEnd, vars
  <2>3. /\ disposed => disposed'
        /\ state' = state \/ (disposed' /\ state' = EmptyState)
    BY <2>2 DEF Dispose
  <2>4. QED
    BY <1>4, <2>1, <2>3
<1>9. ASSUME NEW i \in 1..Len(snaps), Restore(i) PROVE LogTrue' /\ Rest'
  BY <1>4, <1>9 DEF Restore
<1>10. ASSUME NEW i \in 1..Len(snaps), SaveSettles(i) PROVE LogTrue' /\ Rest'
  <2>1. PICK how \in {"stored", "lost"} : Saved(i, how)
    BY <1>10 DEF SaveSettles, SaveDone, SaveFails
  <2>2. UNCHANGED <<runLog, past, execVars, index, disposed, state>>
    BY <2>1 DEF Saved
  <2>3. \A q \in Runs : status'[q] = "executing" => status[q] = "executing"
    BY <1>1, <1>10 DEF SaveSettles, SaveDone, SaveFails, SetStatus, TypeOK
  <2>4. LogTrue'
    BY <2>2, LogKept
  <2>5. RequestsFromHistory'
    BY <1>2, <2>2, <2>3, PastKeepsRequests
  <2>6. SnapshotMatchesHistory'
    BY <1>1, <2>1, <2>2, SavesKeepCaptures DEF HistoryInv, SnapshotMatchesHistory
  <2>7. QED
    BY <2>4, <2>5, <2>6
<1>11. ASSUME NEW label \in {"client", "fork"}, Snapshot(label)
       PROVE  LogTrue' /\ Rest'
  <2> DEFINE snap == [label |-> label, runCount |-> Len(runLog), state |-> state,
                      saved |-> "saving"]
  <2>1. UNCHANGED <<runLog, past, execVars, index, disposed, state, status>>
        /\ ~disposed /\ snaps' = Append(snaps, snap)
    BY <1>11 DEF Snapshot, Capture
  <2>2. snap \in Snapshots
    BY <1>1, <1>2 DEF Snapshots, TypeOK
  <2>3. snap.runCount <= Len(runLog') /\ snap.state = past'[snap.runCount + 1]
    BY <1>2, <2>1 DEF HistoryInv, StateIsLatest
  <2>4. LogTrue'
    BY <2>1, LogKept
  <2>5. RequestsFromHistory'
    BY <1>2, <2>1, PastKeepsRequests
  <2>6. SnapshotMatchesHistory'
    <3> HIDE DEF snap
    <3>1. QED
      BY <1>2, <2>1, <2>2, <2>3, PastKeepsSnapshots
  <2>7. QED
    BY <2>4, <2>5, <2>6
<1>12. ASSUME NEW r \in Runs, NEW k \in Kinds, Start(r, k) PROVE LogTrue' /\ Rest'
  <2>1. /\ UNCHANGED <<runLog, past, snaps, disposed, state, outcome>>
        /\ ~disposed /\ ~request[r].made
        /\ request' = [request EXCEPT ![r] = Request(state)]
        /\ index' = [index EXCEPT ![r] = Len(runLog)]
        /\ status' = [status EXCEPT ![r] = "executing"]
    BY <1>12 DEF Start, Enter, Submit, SetStatus, NotRecorded
  <2>2. LogTrue'
    BY <2>1, LogKept
  <2>3. SnapshotMatchesHistory'
    BY <2>1 DEF HistoryInv, SnapshotMatchesHistory
  <2>4. RequestsFromHistory'
    <3> SUFFICES ASSUME NEW q \in Runs
                 PROVE  /\ ~request'[q].made => outcome'[q].kind = "none"
                        /\ outcome'[q].kind = "ok" =>
                              outcome'[q].state = Effect(request'[q].state, q)
                        /\ status'[q] = "executing" =>
                              /\ index'[q] <= Len(runLog')
                              /\ request'[q].state = past'[index'[q] + 1]
      BY DEF RequestsFromHistory
    <3>1. CASE q # r
      <4>1. request'[q] = request[q] /\ index'[q] = index[q] /\ status'[q] = status[q]
        BY <1>1, <2>1, <3>1 DEF TypeOK, ExecTypeOK
      <4>2. QED
        BY <2>1, <4>1 DEF HistoryInv, RequestsFromHistory
    <3>2. CASE q = r
      <4>1. request'[q] = Request(state) /\ index'[q] = Len(runLog)
        BY <1>1, <2>1, <3>2 DEF TypeOK, ExecTypeOK
      <4>2. outcome'[q].kind = "none"
        BY <2>1, <3>2 DEF HistoryInv, RequestsFromHistory
      <4>3. request'[q].made /\ request'[q].state = past[Len(runLog) + 1]
        BY <1>2, <2>1, <4>1 DEF Request, HistoryInv, StateIsLatest
      <4>4. QED
        BY <1>2, <2>1, <4>1, <4>2, <4>3
    <3>3. QED
      BY <3>1, <3>2
  <2>5. QED
    BY <2>2, <2>3, <2>4
<1>13. ASSUME NEW r \in Runs, Execute(r) PROVE LogTrue' /\ Rest'
  <2>1. UNCHANGED <<disposed, state, runLog, past, status, index, snaps>>
    BY <1>13 DEF Execute
  <2>2. PICK o \in {Success(Effect(request[r].state, r)), Failure, Rejection} :
          Settle(r, o)
    BY <1>13 DEF Execute, Succeed, Fail, Reject
  <2>3. LogTrue'
    BY <2>1, LogKept
  <2>4. SnapshotMatchesHistory'
    BY <2>1 DEF HistoryInv, SnapshotMatchesHistory
  <2>5. RequestsFromHistory'
    <3>1. /\ o.kind = "ok" => o.state = Effect(request[r].state, r)
          /\ request[r].made /\ request' = request
          /\ outcome' = [outcome EXCEPT ![r] = o]
      BY <2>2 DEF Settle, Running, Success, Failure, Rejection
    <3>2. \A q \in Runs : outcome'[q] = IF q = r THEN o ELSE outcome[q]
      BY <1>1, <3>1 DEF TypeOK, ExecTypeOK
    <3>3. QED
      BY <2>1, <3>1, <3>2 DEF HistoryInv, RequestsFromHistory
  <2>6. QED
    BY <2>3, <2>4, <2>5
<1>14. ASSUME NEW r \in Runs, NEW k \in Kinds, Deny(r, k) PROVE LogTrue' /\ Rest'
  <2> DEFINE rec == [run |-> r, ok |-> FALSE, index |-> Len(runLog)]
  <2>1. /\ UNCHANGED <<execVars, disposed, state, snaps>>
        /\ index' = [index EXCEPT ![r] = Len(runLog)]
        /\ status' = [status EXCEPT ![r] = "failed"] /\ status[r] = "idle"
    BY <1>14 DEF Deny, Enter, SetStatus
  <2>2. index'[r] = Len(runLog)
    BY <1>1, <2>1 DEF TypeOK
  <2>3. runLog' = Append(runLog, rec) /\ past' = Append(past, state)
    BY <1>14, <2>2 DEF Deny, Finish
  <2>4. rec \in Records /\ ~rec.ok /\ rec.index = Len(runLog)
    BY <1>2 DEF Records
  <2>5. state \in States
    BY <1>1 DEF TypeOK
  <2>6. \A q \in Runs : status'[q] = "executing" =>
                           status[q] = "executing" /\ index'[q] = index[q]
    BY <1>1, <2>1 DEF TypeOK
  <2> HIDE DEF rec
  <2>7. LogTrue'
    BY <1>2, <2>1, <2>3, <2>4, <2>5, FinishKeepsLog
  <2>8. Len(runLog') = Len(runLog) + 1 /\ \A i \in 1..Len(past) : past'[i] = past[i]
    BY <1>1, <2>3, <2>4, <2>5, HistoryGrows DEF HistoryInv
  <2>9. RequestsFromHistory'
    BY <1>2, <2>1, <2>6, <2>8, PastKeepsRequests
  <2>10. SnapshotMatchesHistory'
    BY <1>2, <1>3, <2>1, <2>8, PastKeepsSnapshots
  <2>11. QED
    BY <2>7, <2>9, <2>10
<1>15. ASSUME NEW r \in Runs, ResumeFailed(r) PROVE LogTrue' /\ Rest'
  <2> DEFINE rec == [run |-> r, ok |-> FALSE, index |-> index[r]]
  <2>1. /\ UNCHANGED <<execVars, disposed, state, snaps, index>>
        /\ status' = [status EXCEPT ![r] = "failed"] /\ status[r] = "executing"
    BY <1>15 DEF ResumeFailed, Resumes, SetStatus
  <2>2. runLog' = Append(runLog, rec) /\ past' = Append(past, state)
    BY <1>15, <2>1 DEF ResumeFailed, Finish
  <2>3. rec \in Records /\ ~rec.ok /\ rec.index <= Len(runLog)
    BY <1>1, <2>1 DEF Records, TypeOK, HistoryInv, RequestsFromHistory
  <2>4. state \in States
    BY <1>1 DEF TypeOK
  <2>5. \A q \in Runs : status'[q] = "executing" =>
                           status[q] = "executing" /\ index'[q] = index[q]
    BY <1>1, <2>1 DEF TypeOK
  <2> HIDE DEF rec
  <2>6. LogTrue'
    BY <2>1, <2>2, <2>3, <2>4, FinishKeepsLog
  <2>7. Len(runLog') = Len(runLog) + 1 /\ \A i \in 1..Len(past) : past'[i] = past[i]
    BY <1>1, <2>2, <2>3, <2>4, HistoryGrows DEF HistoryInv
  <2>8. RequestsFromHistory'
    BY <1>2, <2>1, <2>5, <2>7, PastKeepsRequests
  <2>9. SnapshotMatchesHistory'
    BY <1>2, <1>3, <2>1, <2>7, PastKeepsSnapshots
  <2>10. QED
    BY <2>6, <2>8, <2>9
<1>16. ASSUME NEW r \in Runs, ResumeOk(r) PROVE LogTrue' /\ Rest'
  <2> DEFINE rec == [run |-> r, ok |-> TRUE, index |-> index[r]]
             s == outcome[r].state
             snap == [label |-> "auto", runCount |-> Len(runLog) + 1,
                      state |-> s, saved |-> "saving"]
  <2>1. /\ UNCHANGED <<execVars, disposed, index>>
        /\ state' = s
        /\ status[r] = "executing" /\ outcome[r].kind = "ok"
    BY <1>16 DEF ResumeOk, Resumes
  <2>2. \E how \in {"ok", "saving", "rejected"} : status' = [status EXCEPT ![r] = how]
    BY <1>16 DEF ResumeOk, AutoSnapshot, SetStatus
  <2>3. snaps' = snaps \/ snaps' = Append(snaps, snap)
    BY <1>16 DEF ResumeOk, AutoSnapshot, Capture
  <2>4. runLog' = Append(runLog, rec) /\ past' = Append(past, s)
    BY <1>16, <2>1 DEF ResumeOk, Finish
  <2>5. s \in States
    BY <1>1 DEF TypeOK, ExecTypeOK, Outcomes
  <2>6. index[r] <= Len(runLog) /\ s = Effect(past[index[r] + 1], r)
    BY <2>1 DEF HistoryInv, RequestsFromHistory
  <2>7. rec \in Records /\ rec.ok /\ rec.index <= Len(runLog)
        /\ s = Effect(past[rec.index + 1], rec.run)
    BY <1>1, <2>6 DEF Records, TypeOK
  <2>8. snap \in Snapshots /\ snap.runCount = Len(runLog) + 1 /\ snap.state = s
    BY <1>2, <2>5 DEF Snapshots
  <2>9. \A q \in Runs : status'[q] = "executing" =>
                           status[q] = "executing" /\ index'[q] = index[q]
    BY <1>1, <2>1, <2>2 DEF TypeOK
  <2> HIDE DEF rec, snap, s
  <2>10. LogTrue'
    BY <2>1, <2>4, <2>5, <2>7, FinishKeepsLog
  <2>11. /\ Len(runLog') = Len(runLog) + 1
         /\ \A i \in 1..Len(past) : past'[i] = past[i]
         /\ past'[Len(past) + 1] = s
    BY <1>1, <2>4, <2>5, <2>7, HistoryGrows DEF HistoryInv
  <2>12. RequestsFromHistory'
    BY <1>2, <2>1, <2>9, <2>11, PastKeepsRequests
  <2>13. snap.runCount <= Len(runLog') /\ snap.state = past'[snap.runCount + 1]
    BY <1>2, <2>8, <2>11
  <2>14. SnapshotMatchesHistory'
    BY <1>2, <2>3, <2>8, <2>11, <2>13, PastKeepsSnapshots
  <2>15. QED
    BY <2>10, <2>12, <2>14
<1>17. LogTrue' /\ Rest'
  <2> HIDE DEF LogTrue, Rest
  <2>1. ASSUME NEW r \in Runs, Call(r) PROVE LogTrue' /\ Rest'
    BY <1>5, <1>6, <1>12, <1>14, <2>1 DEF Call
  <2>2. ASSUME NEW r \in Runs, Resume(r) PROVE LogTrue' /\ Rest'
    BY <1>7, <1>15, <1>16, <2>2 DEF Resume
  <2>3. QED
    BY <1>8, <1>9, <1>10, <1>11, <1>13, <2>1, <2>2 DEF Next
<1>18. QED
  BY <1>1, <1>17 DEF HistoryInv
-----------------------------------------------------------------------------
\* The inductive invariant holds of every behaviour of the sandbox.
THEOREM HistoryInvariant == Spec => []HistoryInv
  BY HistoryInit, HistoryStep, PTL DEF Spec

\* However many calls overlap, a recorded success is the whole effect of its code
\* on the state the record's index names, and a recorded failure changes nothing.
THEOREM RunsAreAtomic == Spec => []RunsOnRecordedHistory
<1>1. HistoryInv => RunsOnRecordedHistory
  BY DEF HistoryInv
<1>2. QED
  BY <1>1, HistoryInvariant, PTL

\* A snapshot holds the state the sandbox had when its log had runCount records,
\* whenever its save settles.
THEOREM SnapshotsAreConsistent == Spec => []SnapshotMatchesHistory
<1>1. HistoryInv => SnapshotMatchesHistory
  BY DEF HistoryInv
<1>2. QED
  BY <1>1, HistoryInvariant, PTL
-----------------------------------------------------------------------------
(* What the log and the stored snapshots say of the calls that returned.     *)

\* A run is recorded once, when it leaves the executor, with the ok it returns.
LogMatchesCalls ==
    /\ \A i, j \in 1..Len(runLog) : runLog[i].run = runLog[j].run => i = j
    /\ \A i \in 1..Len(runLog) :
          /\ status[runLog[i].run] \notin {"idle", "executing", "refused"}
          /\ runLog[i].ok <=> status[runLog[i].run] # "failed"
    /\ \A r \in Runs : status[r] \in {"ok", "failed", "saving"} =>
          \E i \in 1..Len(runLog) : runLog[i].run = r

\* An auto snapshot is that of a recorded success.
AutosAreOfSuccesses ==
    \A j \in 1..Len(snaps) : snaps[j].label = "auto" =>
        snaps[j].runCount \in 1..Len(runLog) /\ runLog[snaps[j].runCount].ok

\* A run at the cadence waits for its snapshot to be saved, and returns after.
CadenceIsSaved ==
    \A n \in 1..Len(runLog) :
        Due(n) /\ status[runLog[n].run] \in {"ok", "saving"} =>
            \E j \in 1..Len(snaps) :
                /\ snaps[j].label = "auto" /\ snaps[j].runCount = n
                /\ status[runLog[n].run] = "ok" => snaps[j].saved = "stored"

\* A child names a snapshot, and is not older than it.
ChildrenNameSnapshots ==
    /\ \A c \in children : c.parent \in 1..Len(snaps)
    /\ ForkNotOlderThanParent

LogInv == HistoryInv /\ LogMatchesCalls /\ AutosAreOfSuccesses
          /\ CadenceIsSaved /\ ChildrenNameSnapshots

\* The steps as the log sees them: nothing is recorded or captured,
LogsNothing ==
    /\ UNCHANGED <<runLog, past, snaps>>
    /\ \A r \in Runs :
          \/ status'[r] = status[r]
          \/ /\ status[r] \in {"idle", "executing"}
             /\ status'[r] \in {"executing", "rejected", "refused"}

\* or r is recorded, and has the status s from then on,
Logs(r, s) ==
    /\ status[r] \in {"idle", "executing"}
    /\ status' = [status EXCEPT ![r] = s]
    /\ \E rec \in Records : /\ rec.run = r /\ (rec.ok <=> s # "failed")
                            /\ runLog' = Append(runLog, rec)
    /\ \E left \in States : past' = Append(past, left)
    /\ UNCHANGED <<disposed, children>>
    /\ \/ s \in {"failed", "rejected"} /\ snaps' = snaps
       \/ s = "ok" /\ ~Due(Len(runLog) + 1) /\ snaps' = snaps
       \/ /\ s = "saving"
          /\ \E snap \in Snapshots :
                /\ snap.label = "auto" /\ snap.runCount = Len(runLog) + 1
                /\ snap.saved = "saving" /\ snaps' = Append(snaps, snap)

\* or a client captures a snapshot, or a save settles.
LEMMA LogShapes ==
  ASSUME TypeOK, [Next]_vars
  PROVE  \/ LogsNothing
         \/ \E r \in Runs, s \in {"ok", "failed", "saving", "rejected"} : Logs(r, s)
         \/ \E label \in {"client", "fork"} : Snapshot(label)
         \/ \E i \in 1..Len(snaps) : SaveSettles(i)
<1>1. /\ Len(runLog) \in Nat /\ status \in [Runs -> Statuses]
      /\ index \in [Runs -> Nat] /\ state \in States
  BY LenProperties DEF TypeOK
<1>2. ASSUME NEW r \in Runs, CallDisposed(r) \/ ResumeRejected(r)
      PROVE  LogsNothing
  BY <1>1, <1>2 DEF CallDisposed, ResumeRejected, Resumes, SetStatus,
                    NotRecorded, LogsNothing
<1>3. ASSUME NEW r \in Runs, NEW k \in Kinds, Misfit(r, k) \/ Start(r, k)
      PROVE  LogsNothing
  BY <1>1, <1>3 DEF Misfit, Start, Enter, SetStatus, NotRecorded, LogsNothing
<1>4. ASSUME NEW r \in Runs, NEW k \in Kinds, Deny(r, k) PROVE Logs(r, "failed")
  <2> DEFINE rec == [run |-> r, ok |-> FALSE, index |-> Len(runLog)]
  <2>1. index'[r] = Len(runLog)
    BY <1>1, <1>4 DEF Deny, Enter
  <2>2. runLog' = Append(runLog, rec) /\ past' = Append(past, state)
    BY <1>4, <2>1 DEF Deny, Finish
  <2>3. rec \in Records /\ rec.run = r /\ ~rec.ok
    BY <1>1 DEF Records
  <2>4. /\ status[r] = "idle" /\ status' = [status EXCEPT ![r] = "failed"]
        /\ UNCHANGED <<disposed, children, snaps>>
    BY <1>4 DEF Deny, Enter, SetStatus
  <2> HIDE DEF rec
  <2>5. QED
    BY <1>1, <2>2, <2>3, <2>4 DEF Logs
<1>5. ASSUME NEW r \in Runs, ResumeFailed(r) PROVE Logs(r, "failed")
  <2> DEFINE rec == [run |-> r, ok |-> FALSE, index |-> index[r]]
  <2>1. /\ status[r] = "executing" /\ status' = [status EXCEPT ![r] = "failed"]
        /\ UNCHANGED <<disposed, children, snaps, index>>
    BY <1>5 DEF ResumeFailed, Resumes, SetStatus
  <2>2. runLog' = Append(runLog, rec) /\ past' = Append(past, state)
    BY <1>5, <2>1 DEF ResumeFailed, Finish
  <2>3. rec \in Records /\ rec.run = r /\ ~rec.ok
    BY <1>1 DEF Records
  <2> HIDE DEF rec
  <2>4. QED
    BY <1>1, <2>1, <2>2, <2>3 DEF Logs
<1>6. ASSUME NEW r \in Runs, ResumeOk(r)
      PROVE  \E s \in {"ok", "failed", "saving", "rejected"} : Logs(r, s)
  <2> DEFINE rec == [run |-> r, ok |-> TRUE, index |-> index[r]]
             left == outcome[r].state
             snap == [label |-> "auto", runCount |-> Len(runLog) + 1,
                      state |-> left, saved |-> "saving"]
  <2>1. status[r] = "executing" /\ UNCHANGED <<disposed, children, index>>
    BY <1>6 DEF ResumeOk, Resumes
  <2>2. runLog' = Append(runLog, rec) /\ past' = Append(past, left)
    BY <1>6, <2>1 DEF ResumeOk, Finish
  <2>3. left \in States
    BY DEF TypeOK, ExecTypeOK, Outcomes
  <2>4. rec \in Records /\ rec.run = r /\ rec.ok
    BY <1>1 DEF Records
  <2>5. /\ snap \in Snapshots /\ snap.label = "auto" /\ snap.runCount = Len(runLog) + 1
        /\ snap.saved = "saving"
    BY <1>1, <2>3 DEF Snapshots
  <2>6. \/ /\ status' = [status EXCEPT ![r] = "ok"]
           /\ ~Due(Len(runLog) + 1) /\ snaps' = snaps
        \/ status' = [status EXCEPT ![r] = "saving"] /\ snaps' = Append(snaps, snap)
        \/ status' = [status EXCEPT ![r] = "rejected"] /\ snaps' = snaps
    BY <1>6 DEF ResumeOk, AutoSnapshot, Capture, SetStatus
  <2> HIDE DEF rec, snap, left
  <2>7. Logs(r, "ok") \/ Logs(r, "saving") \/ Logs(r, "rejected")
    BY <2>1, <2>2, <2>3, <2>4, <2>5, <2>6 DEF Logs
  <2>8. QED
    BY <2>7
<1>7. ASSUME \/ ReplayStart \/ Replay \/ Dispose \/ UNCHANGED vars
             \/ \E r \in Runs : Execute(r)
             \/ \E i \in 1..Len(snaps) : Restore(i)
      PROVE  LogsNothing
  BY <1>7 DEF ReplayStart, Replay, ReplayRun, ReplayEnd, Dispose, Execute,
              Restore, vars, LogsNothing
<1>8. QED
  BY <1>2, <1>3, <1>4, <1>5, <1>6, <1>7 DEF Next, Call, Resume

\* A recorded run keeps what the log says of the calls.
LEMMA LogsKeepCalls ==
  ASSUME LogInv, NEW r \in Runs, NEW s \in {"ok", "failed", "saving", "rejected"},
         Logs(r, s)
  PROVE  LogMatchesCalls' /\ AutosAreOfSuccesses' /\ CadenceIsSaved'
<1> DEFINE n == Len(runLog)
<1>1. /\ TypeOK /\ runLog \in Seq(Records) /\ snaps \in Seq(Snapshots)
      /\ status \in [Runs -> Statuses]
      /\ LogMatchesCalls /\ AutosAreOfSuccesses /\ CadenceIsSaved
  BY DEF LogInv, HistoryInv, TypeOK
<1>2. n \in Nat /\ Len(snaps) \in Nat
  BY <1>1, LenProperties
<1>3. PICK rec \in Records : /\ rec.run = r /\ (rec.ok <=> s # "failed")
                             /\ runLog' = Append(runLog, rec)
  BY DEF Logs
<1>4. /\ Len(runLog') = n + 1 /\ runLog'[n + 1] = rec
      /\ \A i \in 1..n : runLog'[i] = runLog[i]
  BY <1>1, <1>3, AppendProperties
<1>5. /\ status[r] \in {"idle", "executing"} /\ status'[r] = s
      /\ \A q \in Runs : q # r => status'[q] = status[q]
  BY <1>1 DEF Logs
<1>6. \A i \in 1..n : runLog[i].run \in Runs /\ runLog[i].run # r
  <2>1. \A i \in 1..n : runLog[i] \in Records
    BY <1>1, ElementOfSeq
  <2>2. QED
    BY <1>1, <1>5, <2>1 DEF Records, LogMatchesCalls
<1>7. \/ s # "saving" /\ snaps' = snaps /\ (s = "ok" => ~Due(n + 1))
      \/ /\ s = "saving" /\ Len(snaps') = Len(snaps) + 1
         /\ \A j \in 1..Len(snaps) : snaps'[j] = snaps[j]
         /\ snaps'[Len(snaps) + 1].label = "auto"
         /\ snaps'[Len(snaps) + 1].runCount = n + 1
  <2>1. \/ s # "saving" /\ snaps' = snaps /\ (s = "ok" => ~Due(n + 1))
        \/ /\ s = "saving"
           /\ \E snap \in Snapshots : /\ snap.label = "auto" /\ snap.runCount = n + 1
                                     /\ snaps' = Append(snaps, snap)
    BY DEF Logs
  <2>2. ASSUME NEW snap \in Snapshots, snaps' = Append(snaps, snap)
        PROVE  /\ Len(snaps') = Len(snaps) + 1 /\ snaps'[Len(snaps) + 1] = snap
               /\ \A j \in 1..Len(snaps) : snaps'[j] = snaps[j]
    BY <1>1, <2>2, AppendProperties
  <2> HIDE DEF n
  <2> QED
    BY <2>1, <2>2
<1> HIDE DEF n
<1>8. \A i \in 1..(n + 1) : i \in 1..n \/ i = n + 1
  BY <1>2
<1>9. LogMatchesCalls'
  <2>1. ASSUME NEW i \in 1..(n + 1), NEW j \in 1..(n + 1),
               runLog'[i].run = runLog'[j].run
        PROVE  i = j
    <3>1. \A k, m \in 1..n : runLog[k].run = runLog[m].run => k = m
      BY <1>1 DEF LogMatchesCalls, n
    <3>2. /\ \A k \in 1..n : runLog'[k].run = runLog[k].run /\ runLog[k].run # r
          /\ runLog'[n + 1].run = r
      BY <1>3, <1>4, <1>6
    <3>3. (i \in 1..n \/ i = n + 1) /\ (j \in 1..n \/ j = n + 1)
      BY <1>8
    <3> QED
      BY <2>1, <3>1, <3>2, <3>3
  <2>2. \A i \in 1..(n + 1) :
           /\ status'[runLog'[i].run] \notin {"idle", "executing", "refused"}
           /\ runLog'[i].ok <=> status'[runLog'[i].run] # "failed"
    <3>1. \A i \in 1..n :
             /\ runLog'[i] = runLog[i] /\ status'[runLog[i].run] = status[runLog[i].run]
             /\ status[runLog[i].run] \notin {"idle", "executing", "refused"}
             /\ runLog[i].ok <=> status[runLog[i].run] # "failed"
      BY <1>1, <1>4, <1>5, <1>6 DEF LogMatchesCalls, n
    <3>2. /\ runLog'[n + 1].run = r /\ status'[r] = s
          /\ runLog'[n + 1].ok <=> s # "failed"
      BY <1>3, <1>4, <1>5
    <3> QED
      BY <1>8, <3>1, <3>2
  <2>3. ASSUME NEW q \in Runs, status'[q] \in {"ok", "failed", "saving"}
        PROVE  \E i \in 1..(n + 1) : runLog'[i].run = q
    <3>1. CASE q = r
      BY <1>2, <1>3, <1>4, <3>1
    <3>2. CASE q # r
      <4>1. PICK i \in 1..n : runLog[i].run = q
        BY <1>1, <1>5, <2>3, <3>2 DEF LogMatchesCalls, n
      <4>2. QED
        BY <1>2, <1>4, <4>1
    <3>3. QED
      BY <3>1, <3>2
  <2>4. QED
    BY <1>4, <2>1, <2>2, <2>3 DEF LogMatchesCalls
<1>10. AutosAreOfSuccesses'
  <2>1. \A j \in 1..Len(snaps) : snaps[j].label = "auto" =>
           snaps[j].runCount \in 1..(n + 1) /\ runLog'[snaps[j].runCount].ok
    BY <1>1, <1>2, <1>4 DEF AutosAreOfSuccesses, n
  <2>2. s = "saving" => n + 1 \in 1..(n + 1) /\ runLog'[n + 1].ok
    BY <1>2, <1>3, <1>4
  <2>3. QED
    BY <1>2, <1>4, <1>7, <2>1, <2>2 DEF AutosAreOfSuccesses
<1>11. CadenceIsSaved'
  <2> SUFFICES ASSUME NEW i \in 1..(n + 1), Due(i),
                      status'[runLog'[i].run] \in {"ok", "saving"}
               PROVE  \E j \in 1..Len(snaps') :
                         /\ snaps'[j].label = "auto" /\ snaps'[j].runCount = i
                         /\ status'[runLog'[i].run] = "ok" =>
                               snaps'[j].saved = "stored"
    BY <1>4 DEF CadenceIsSaved, Due
  <2>1. CASE i \in 1..n
    <3>1. runLog'[i].run = runLog[i].run /\ status'[runLog[i].run] = status[runLog[i].run]
      BY <1>4, <1>5, <1>6, <2>1
    <3>2. PICK j \in 1..Len(snaps) :
             /\ snaps[j].label = "auto" /\ snaps[j].runCount = i
             /\ status[runLog[i].run] = "ok" => snaps[j].saved = "stored"
      BY <1>1, <2>1, <3>1 DEF CadenceIsSaved, n
    <3>3. j \in 1..Len(snaps') /\ snaps'[j] = snaps[j]
      BY <1>2, <1>7
    <3>4. QED
      BY <3>1, <3>2, <3>3
  <2>2. CASE i = n + 1
    <3>1. s = "saving"
      BY <1>3, <1>4, <1>5, <1>7, <2>2
    <3>2. Len(snaps) + 1 \in 1..Len(snaps')
      BY <1>2, <1>7, <3>1
    <3>3. QED
      BY <1>3, <1>4, <1>5, <1>7, <2>2, <3>1, <3>2
  <2>3. QED
    BY <1>8, <2>1, <2>2
<1>12. QED
  BY <1>9, <1>10, <1>11

\* A save that settles lets its run return or reject, which the log allows.
LEMMA SavesKeepCalls ==
  ASSUME LogInv, NEW i \in 1..Len(snaps), SaveSettles(i)
  PROVE  LogMatchesCalls' /\ AutosAreOfSuccesses' /\ CadenceIsSaved'
<1>1. /\ TypeOK /\ runLog \in Seq(Records) /\ status \in [Runs -> Statuses]
      /\ snaps \in Seq(Snapshots)
      /\ LogMatchesCalls /\ AutosAreOfSuccesses /\ CadenceIsSaved
  BY DEF LogInv, HistoryInv, TypeOK
<1>2. PICK how \in {"stored", "lost"} :
         /\ Saved(i, how)
         /\ IF snaps[i].label = "auto"
            THEN SetStatus(Awaiting(i), IF how = "stored" THEN "ok" ELSE "rejected")
            ELSE UNCHANGED status
  BY DEF SaveSettles, SaveDone, SaveFails
<1>3. runLog' = runLog /\ Len(snaps) \in Nat
  BY <1>1, <1>2, LenProperties DEF Saved
<1>4. /\ Len(snaps') = Len(snaps)
      /\ \A j \in 1..Len(snaps) : /\ snaps'[j].label = snaps[j].label
                                  /\ snaps'[j].runCount = snaps[j].runCount
      /\ \A j \in 1..Len(snaps) : j # i => snaps'[j] = snaps[j]
      /\ snaps'[i].saved = how
  <2> DEFINE new == [snaps[i] EXCEPT !.saved = how]
  <2>1. snaps[i] \in Snapshots
    BY <1>1, ElementOfSeq
  <2>2. /\ new \in Snapshots /\ new.saved = how
        /\ new.label = snaps[i].label /\ new.runCount = snaps[i].runCount
    BY <2>1 DEF Snapshots
  <2>3. snaps' = [snaps EXCEPT ![i] = new]
    BY <1>2 DEF Saved
  <2> HIDE DEF new
  <2>4. /\ Len(snaps') = Len(snaps)
        /\ \A j \in 1..Len(snaps) : snaps'[j] = IF j = i THEN new ELSE snaps[j]
    BY <1>1, <2>2, <2>3, ExceptSeq
  <2>5. QED
    BY <2>2, <2>4
<1>5. AutosAreOfSuccesses'
  BY <1>1, <1>3, <1>4 DEF AutosAreOfSuccesses
<1>6. CASE snaps[i].label # "auto"
  <2>1. status' = status
    BY <1>2, <1>6
  <2>2. LogMatchesCalls'
    BY <1>1, <1>3, <2>1 DEF LogMatchesCalls
  <2>3. \A j \in 1..Len(snaps) : snaps[j].label = "auto" => snaps'[j] = snaps[j]
    BY <1>4, <1>6
  <2>4. CadenceIsSaved'
    BY SMTT(30), <1>1, <1>3, <1>4, <2>1, <2>3 DEF CadenceIsSaved, Due
  <2>5. QED
    BY <1>5, <2>2, <2>4
<1>7. CASE snaps[i].label = "auto"
  <2> DEFINE m == snaps[i].runCount
             r == runLog[m].run
  <2>1. m \in 1..Len(runLog) /\ runLog[m].ok
    BY <1>1, <1>7 DEF AutosAreOfSuccesses
  <2>2. r \in Runs
    <3>1. runLog[m] \in Records
      BY <1>1, <2>1, ElementOfSeq
    <3>2. QED
      BY <3>1 DEF Records
  <2>3. /\ status'[r] = IF how = "stored" THEN "ok" ELSE "rejected"
        /\ \A q \in Runs : q # r => status'[q] = status[q]
    BY <1>1, <1>2, <1>7, <2>2 DEF SetStatus, Awaiting
  <2>4. \A n \in 1..Len(runLog) : runLog[n].run \in Runs
    <3>1. \A n \in 1..Len(runLog) : runLog[n] \in Records
      BY <1>1, ElementOfSeq
    <3>2. QED
      BY <3>1 DEF Records
  <2>5. \A n \in 1..Len(runLog) : n # m => runLog[n].run # r
    BY <1>1, <2>1 DEF LogMatchesCalls
  <2>6. runLog[m].run = r
    OBVIOUS
  <2>7. snaps[i].runCount = m
    OBVIOUS
  <2> HIDE DEF m, r
  <2>8. LogMatchesCalls'
    <3>1. \A n \in 1..Len(runLog) :
             /\ status'[runLog[n].run] \notin {"idle", "executing", "refused"}
             /\ runLog[n].ok <=> status'[runLog[n].run] # "failed"
      <4> SUFFICES ASSUME NEW n \in 1..Len(runLog)
                   PROVE  /\ status'[runLog[n].run] \notin
                                    {"idle", "executing", "refused"}
                          /\ runLog[n].ok <=> status'[runLog[n].run] # "failed"
        OBVIOUS
      <4>1. CASE n = m
        BY <2>1, <2>3, <2>6, <4>1
      <4>2. CASE n # m
        BY <1>1, <2>3, <2>4, <2>5, <4>2 DEF LogMatchesCalls
      <4>3. QED
        BY <4>1, <4>2
    <3>2. ASSUME NEW q \in Runs, status'[q] \in {"ok", "failed", "saving"}
          PROVE  \E n \in 1..Len(runLog) : runLog[n].run = q
      BY <1>1, <2>1, <2>3, <2>6, <3>2 DEF LogMatchesCalls
    <3>3. QED
      BY <1>1, <1>3, <3>1, <3>2 DEF LogMatchesCalls
  <2>9. CadenceIsSaved'
    <3> SUFFICES ASSUME NEW n \in 1..Len(runLog), Due(n),
                        status'[runLog[n].run] \in {"ok", "saving"}
                 PROVE  \E j \in 1..Len(snaps) :
                           /\ snaps'[j].label = "auto" /\ snaps'[j].runCount = n
                           /\ status'[runLog[n].run] = "ok" =>
                                 snaps'[j].saved = "stored"
      BY <1>3, <1>4 DEF CadenceIsSaved, Due
    <3>1. CASE n = m
      BY <1>4, <1>7, <2>3, <2>6, <2>7, <3>1
    <3>2. CASE n # m
      <4>1. status'[runLog[n].run] = status[runLog[n].run]
        BY <2>3, <2>4, <2>5, <3>2
      <4>2. PICK j \in 1..Len(snaps) :
               /\ snaps[j].label = "auto" /\ snaps[j].runCount = n
               /\ status[runLog[n].run] = "ok" => snaps[j].saved = "stored"
        BY <1>1, <4>1 DEF CadenceIsSaved
      <4>3. snaps'[j] = snaps[j]
        BY <1>4, <2>7, <3>2, <4>2
      <4>4. QED
        BY <4>1, <4>2, <4>3
    <3>3. QED
      BY <3>1, <3>2
  <2>10. QED
    BY <1>5, <2>8, <2>9
<1>8. QED
  BY <1>6, <1>7

\* The steps that capture or record nothing leave the log true to the calls.
LEMMA OthersKeepCalls ==
  ASSUME LogInv,
         LogsNothing \/ \E label \in {"client", "fork"} : Snapshot(label)
  PROVE  LogMatchesCalls' /\ AutosAreOfSuccesses' /\ CadenceIsSaved'
<1>1. /\ TypeOK /\ runLog \in Seq(Records) /\ snaps \in Seq(Snapshots)
      /\ status \in [Runs -> Statuses]
      /\ LogMatchesCalls /\ AutosAreOfSuccesses /\ CadenceIsSaved
  BY DEF LogInv, HistoryInv, TypeOK
<1>2. \A n \in 1..Len(runLog) : runLog[n].run \in Runs
  <2>1. \A n \in 1..Len(runLog) : runLog[n] \in Records
    BY <1>1, ElementOfSeq
  <2>2. QED
    BY <2>1 DEF Records
<1>3. runLog' = runLog
  BY DEF LogsNothing, Snapshot
<1>4. \A r \in Runs :
         \/ status'[r] = status[r]
         \/ /\ status[r] \in {"idle", "executing"}
            /\ status'[r] \in {"executing", "rejected", "refused"}
  BY DEF LogsNothing, Snapshot
<1>5. \A n \in 1..Len(runLog) : status'[runLog[n].run] = status[runLog[n].run]
  BY <1>1, <1>2, <1>4 DEF LogMatchesCalls
<1>6. LogMatchesCalls'
  <2>1. \A r \in Runs : status'[r] \in {"ok", "failed", "saving"} =>
                           status[r] \in {"ok", "failed", "saving"}
    BY <1>4
  <2>2. QED
    BY <1>1, <1>3, <1>5, <2>1 DEF LogMatchesCalls
<1> DEFINE Longer ==
             /\ Len(snaps) \in Nat /\ Len(snaps') \in Nat /\ Len(snaps) <= Len(snaps')
             /\ \A j \in 1..Len(snaps) : snaps'[j] = snaps[j]
             /\ \A j \in 1..Len(snaps') :
                   snaps'[j].label = "auto" => j \in 1..Len(snaps)
<1>7. Longer
  <2>1. CASE snaps' = snaps
    BY <1>1, <2>1, LenProperties
  <2>2. ASSUME NEW label \in {"client", "fork"}, Snapshot(label)
        PROVE  Longer
    <3> DEFINE snap == [label |-> label, runCount |-> Len(runLog),
                        state |-> state, saved |-> "saving"]
    <3>1. snap \in Snapshots /\ snap.label # "auto"
      BY <1>1, LenProperties DEF Snapshots, TypeOK
    <3>2. snaps' = Append(snaps, snap)
      BY <2>2 DEF Snapshot, Capture
    <3> HIDE DEF snap
    <3>3. QED
      BY <1>1, <3>1, <3>2, AppendProperties, LenProperties
  <2>3. QED
    BY <2>1, <2>2 DEF LogsNothing
<1>8. AutosAreOfSuccesses'
  BY <1>1, <1>3, <1>7 DEF AutosAreOfSuccesses
<1>9. CadenceIsSaved'
  <2> SUFFICES ASSUME NEW n \in 1..Len(runLog), Due(n),
                      status[runLog[n].run] \in {"ok", "saving"}
               PROVE  \E j \in 1..Len(snaps') :
                         /\ snaps'[j].label = "auto" /\ snaps'[j].runCount = n
                         /\ status[runLog[n].run] = "ok" => snaps'[j].saved = "stored"
    BY <1>3, <1>5 DEF CadenceIsSaved, Due
  <2>1. PICK j \in 1..Len(snaps) :
           /\ snaps[j].label = "auto" /\ snaps[j].runCount = n
           /\ status[runLog[n].run] = "ok" => snaps[j].saved = "stored"
    BY <1>1 DEF CadenceIsSaved
  <2>2. j \in 1..Len(snaps')
    BY <1>7
  <2>3. QED
    BY <1>7, <2>1, <2>2
<1>10. QED
  BY <1>6, <1>8, <1>9

\* Whatever happens, the records, the past and the captures stay what they were.
LEMMA NothingForgotten ==
  ASSUME HistoryInv, [Next]_vars
  PROVE  /\ Len(runLog) \in Nat /\ Len(runLog') \in Nat
         /\ Len(runLog) <= Len(runLog')
         /\ Len(past) = Len(runLog) + 1 /\ Len(past') = Len(runLog') + 1
         /\ \A i \in 1..Len(runLog) : runLog'[i] = runLog[i]
         /\ \A i \in 1..Len(past) : past'[i] = past[i]
         /\ Len(snaps) \in Nat /\ Len(snaps') \in Nat /\ Len(snaps) <= Len(snaps')
         /\ \A j \in 1..Len(snaps) : /\ snaps'[j].state = snaps[j].state
                                     /\ snaps'[j].runCount = snaps[j].runCount
         /\ disposed => disposed'
<1>1. TypeOK /\ TypeOK' /\ HistoryInv'
  BY TypeStep, HistoryStep DEF HistoryInv
<1>2. /\ Len(runLog) \in Nat /\ Len(runLog') \in Nat
      /\ Len(snaps) \in Nat /\ Len(snaps') \in Nat
      /\ Len(past) = Len(runLog) + 1 /\ Len(past') = Len(runLog') + 1
      /\ past \in Seq(States) /\ snaps \in Seq(Snapshots)
  BY <1>1, LenProperties DEF HistoryInv, TypeOK, StateIsLatest
<1>3. disposed => disposed'
  BY DEF Next, Call, CallDisposed, Deny, Misfit, Start, Enter, Resume, ResumeOk,
         ResumeFailed, ResumeRejected, Resumes, Execute, Snapshot, SaveSettles,
         SaveDone, SaveFails, Saved, Restore, ReplayStart, Replay, ReplayRun,
         ReplayEnd, Dispose, vars
<1> DEFINE LogGrows == /\ Len(runLog) <= Len(runLog')
                       /\ \A i \in 1..Len(runLog) : runLog'[i] = runLog[i]
                       /\ \A i \in 1..Len(past) : past'[i] = past[i]
           SnapsGrow == /\ Len(snaps) <= Len(snaps')
                        /\ \A j \in 1..Len(snaps) :
                              /\ snaps'[j].state = snaps[j].state
                              /\ snaps'[j].runCount = snaps[j].runCount
<1>4. CASE LogsNothing
  BY <1>2, <1>3, <1>4 DEF LogsNothing
<1>5. ASSUME NEW r \in Runs, NEW s \in {"ok", "failed", "saving", "rejected"},
             Logs(r, s)
      PROVE  LogGrows /\ SnapsGrow
  <2>1. PICK rec \in Records, left \in States :
           runLog' = Append(runLog, rec) /\ past' = Append(past, left)
    BY <1>5 DEF Logs
  <2>2. LogGrows
    BY <1>1, <1>2, <2>1, HistoryGrows DEF HistoryInv
  <2>3. snaps' = snaps \/ \E snap \in Snapshots : snaps' = Append(snaps, snap)
    BY <1>5 DEF Logs
  <2>4. ASSUME NEW snap \in Snapshots, snaps' = Append(snaps, snap)
        PROVE  SnapsGrow
    <3>1. /\ Len(snaps') = Len(snaps) + 1
          /\ \A j \in 1..Len(snaps) : snaps'[j] = snaps[j]
      BY <1>2, <2>4, AppendProperties
    <3>2. QED
      BY <1>2, <3>1
  <2>5. snaps' = snaps => SnapsGrow
    BY <1>2
  <2>6. QED
    BY <2>2, <2>3, <2>4, <2>5
<1>6. ASSUME NEW label \in {"client", "fork"}, Snapshot(label)
      PROVE  LogGrows /\ SnapsGrow
  <2> DEFINE snap == [label |-> label, runCount |-> Len(runLog),
                      state |-> state, saved |-> "saving"]
  <2>1. snap \in Snapshots
    BY <1>1, <1>2 DEF Snapshots, TypeOK
  <2>2. snaps' = Append(snaps, snap) /\ UNCHANGED <<runLog, past>>
    BY <1>6 DEF Snapshot, Capture
  <2> HIDE DEF snap
  <2>3. QED
    BY <1>2, <2>1, <2>2, AppendProperties
<1>7. ASSUME NEW i \in 1..Len(snaps), SaveSettles(i)
      PROVE  LogGrows /\ SnapsGrow
  <2>1. PICK how \in {"stored", "lost"} : Saved(i, how)
    BY <1>7 DEF SaveSettles, SaveDone, SaveFails
  <2>2. UNCHANGED <<runLog, past>>
    BY <2>1 DEF Saved
  <2>3. QED
    BY <1>1, <1>2, <2>1, <2>2, SavesKeepCaptures
<1>8. LogGrows /\ SnapsGrow
  <2> HIDE DEF LogGrows, SnapsGrow
  <2>1. CASE LogsNothing
    BY <1>2, <1>4, <2>1 DEF LogGrows, SnapsGrow
  <2>2. QED
    BY <1>1, <1>5, <1>6, <1>7, <2>1, LogShapes
<1>9. QED
  BY <1>2, <1>3, <1>8

\* A child is made of the state a snapshot holds, or of the state as it is when
\* the save of the fork's snapshot ends.
LEMMA NewChildren ==
  ASSUME TypeOK, [Next]_vars
  PROVE  \/ children' = children
         \/ \E j \in 1..Len(snaps), s \in States :
               /\ children' = children \cup {[parent |-> j, init |-> s]}
               /\ \/ UNCHANGED <<runLog, past, snaps>> /\ s = snaps[j].state
                  \/ /\ SaveDone(j) /\ snaps[j].label = "fork"
                     /\ s = state
<1>1. ASSUME NEW j \in 1..Len(snaps), Restore(j)
      PROVE  /\ children' = children \cup {[parent |-> j, init |-> snaps[j].state]}
             /\ snaps[j].state \in States
             /\ UNCHANGED <<runLog, past, snaps>>
  <2>1. snaps[j] \in Snapshots
    BY ElementOfSeq DEF TypeOK
  <2>2. QED
    BY <1>1, <2>1 DEF Restore, Snapshots
<1>2. ASSUME NEW j \in 1..Len(snaps), SaveSettles(j)
      PROVE  \/ children' = children
             \/ /\ children' = children \cup {[parent |-> j, init |-> state]}
                /\ SaveDone(j) /\ snaps[j].label = "fork" /\ state \in States
  BY <1>2 DEF SaveSettles, SaveDone, SaveFails, TypeOK
<1>3. CASE ~ \E j \in 1..Len(snaps) : Restore(j) \/ SaveSettles(j)
  BY <1>3 DEF Next, Call, CallDisposed, Deny, Misfit, Start, Enter, Resume,
         ResumeOk, ResumeFailed, ResumeRejected, Resumes, Execute, Snapshot,
         ReplayStart, Replay, ReplayRun, ReplayEnd, Dispose, vars
<1>4. QED
  BY <1>1, <1>2, <1>3

\* No step makes a child that is older than its parent, or an old one wrong.
LEMMA ChildrenStep ==
  ASSUME LogInv, [Next]_vars PROVE ChildrenNameSnapshots'
<1> DEFINE Old(c) == \/ disposed' /\ c.init = EmptyState
                     \/ \E i \in (snaps'[c.parent].runCount + 1)..Len(past') :
                           c.init = past'[i]
<1>1. HistoryInv /\ HistoryInv' /\ TypeOK /\ ChildrenNameSnapshots
  BY HistoryStep DEF LogInv, HistoryInv
<1>2. /\ Len(runLog) \in Nat /\ Len(runLog') \in Nat
      /\ Len(runLog) <= Len(runLog')
      /\ Len(past) = Len(runLog) + 1 /\ Len(past') = Len(runLog') + 1
      /\ \A i \in 1..Len(past) : past'[i] = past[i]
      /\ Len(snaps) \in Nat /\ Len(snaps') \in Nat /\ Len(snaps) <= Len(snaps')
      /\ \A j \in 1..Len(snaps) : snaps'[j].runCount = snaps[j].runCount
      /\ disposed => disposed'
  BY <1>1, NothingForgotten
<1>3. \A j \in 1..Len(snaps) : snaps[j].runCount \in Nat
  <2>1. \A j \in 1..Len(snaps) : snaps[j] \in Snapshots
    BY <1>1, ElementOfSeq DEF TypeOK
  <2>2. QED
    BY <2>1 DEF Snapshots
<1>4. ASSUME NEW c \in children PROVE c.parent \in 1..Len(snaps') /\ Old(c)
  <2>1. c.parent \in 1..Len(snaps)
    BY <1>1 DEF ChildrenNameSnapshots
  <2>2. CASE disposed /\ c.init = EmptyState
    BY <1>2, <2>1, <2>2
  <2>3. ASSUME NEW i \in (snaps[c.parent].runCount + 1)..Len(past),
               c.init = past[i]
        PROVE  c.parent \in 1..Len(snaps') /\ Old(c)
    <3>1. i \in 1..Len(past) /\ i \in (snaps'[c.parent].runCount + 1)..Len(past')
      BY SMTT(30), <1>2, <1>3, <2>1
    <3>2. QED
      BY <1>2, <2>1, <2>3, <3>1
  <2>4. QED
    BY <1>1, <2>2, <2>3 DEF ChildrenNameSnapshots, ForkNotOlderThanParent
<1>5. ASSUME NEW j \in 1..Len(snaps), NEW s \in States,
             UNCHANGED <<runLog, past, snaps>>, s = snaps[j].state
      PROVE  Old([parent |-> j, init |-> s])
  <2>1. /\ snaps[j].runCount <= Len(runLog)
        /\ snaps[j].state = past[snaps[j].runCount + 1]
    BY <1>1 DEF HistoryInv, SnapshotMatchesHistory
  <2>2. QED
    BY <1>2, <1>3, <1>5, <2>1
<1>6. ASSUME NEW j \in 1..Len(snaps), SaveDone(j)
      PROVE  Old([parent |-> j, init |-> state])
  <2>1. UNCHANGED <<past, disposed>>
    BY <1>6 DEF SaveDone, Saved
  <2>2. state = past[Len(past)] \/ (disposed /\ state = EmptyState)
    BY <1>1 DEF HistoryInv, StateIsLatest
  <2>3. snaps[j].runCount <= Len(runLog)
    BY <1>1 DEF HistoryInv, SnapshotMatchesHistory
  <2>4. Len(past) \in (snaps'[j].runCount + 1)..Len(past')
    BY <1>2, <1>3, <2>1, <2>3
  <2>5. QED
    BY <2>1, <2>2, <2>4
<1>7. \A j \in 1..Len(snaps) : j \in 1..Len(snaps')
  BY <1>2
<1>8. \A c \in children' : c.parent \in 1..Len(snaps') /\ Old(c)
  <2> HIDE DEF Old
  <2>1. CASE children' = children
    BY <1>4, <2>1
  <2>2. ASSUME NEW j \in 1..Len(snaps), NEW s \in States,
               children' = children \cup {[parent |-> j, init |-> s]},
               \/ UNCHANGED <<runLog, past, snaps>> /\ s = snaps[j].state
               \/ SaveDone(j) /\ s = state
        PROVE  \A c \in children' : c.parent \in 1..Len(snaps') /\ Old(c)
    <3>1. Old([parent |-> j, init |-> s])
      BY <1>5, <1>6, <2>2
    <3>2. QED
      BY <1>4, <1>7, <2>2, <3>1
  <2>3. QED
    BY <1>1, <2>1, <2>2, NewChildren
<1>9. QED
  BY <1>8 DEF ChildrenNameSnapshots, ForkNotOlderThanParent

\* The invariant holds at the start, and each step keeps it.
LEMMA LogInit == Init => LogInv
<1> SUFFICES ASSUME Init PROVE LogInv
  OBVIOUS
<1>1. Len(runLog) = 0 /\ Len(snaps) = 0 /\ children = {}
  BY DEF Init
<1>2. \A r \in Runs : status[r] = "idle"
  BY DEF Init
<1>3. LogMatchesCalls /\ AutosAreOfSuccesses /\ CadenceIsSaved
      /\ ChildrenNameSnapshots
  BY <1>1, <1>2 DEF LogMatchesCalls, AutosAreOfSuccesses, CadenceIsSaved,
                    ChildrenNameSnapshots, ForkNotOlderThanParent
<1>4. QED
  BY <1>3, HistoryInit DEF LogInv

LEMMA LogStep == LogInv /\ [Next]_vars => LogInv'
<1> SUFFICES ASSUME LogInv, [Next]_vars PROVE LogInv'
  OBVIOUS
<1>1. TypeOK /\ HistoryInv'
  BY HistoryStep DEF LogInv, HistoryInv
<1>2. LogMatchesCalls' /\ AutosAreOfSuccesses' /\ CadenceIsSaved'
  BY <1>1, LogShapes, LogsKeepCalls, SavesKeepCalls, OthersKeepCalls
<1>3. QED
  BY <1>1, <1>2, ChildrenStep DEF LogInv

\* The log, the calls, the store and the children agree at every step.
THEOREM LogInvariant == Spec => []LogInv
  BY LogInit, LogStep, PTL DEF Spec

\* The caller is told what the log says, however the calls overlap: a run that
\* returned is recorded once with the ok it returned, and one that was refused,
\* or has not resumed yet, is not recorded.
THEOREM CallersAreToldTheLog == Spec => []RecordedAsReturned
<1>1. LogInv => RecordedAsReturned
  <2> SUFFICES ASSUME LogInv, NEW r \in Runs
               PROVE  LET mine == {i \in 1..Len(runLog) : runLog[i].run = r}
                      IN  /\ Cardinality(mine) <= 1
                          /\ status[r] \in {"ok", "failed", "saving"} => mine # {}
                          /\ status[r] \in {"idle", "executing", "refused"} =>
                                mine = {}
                          /\ \A i \in mine : runLog[i].ok <=> status[r] # "failed"
    BY DEF RecordedAsReturned
  <2> DEFINE mine == {i \in 1..Len(runLog) : runLog[i].run = r}
  <2>1. LogMatchesCalls
    BY DEF LogInv
  <2>2. Cardinality(mine) <= 1
    <3>1. Cardinality({}) = 0
      BY FS_EmptySet
    <3>2. ASSUME NEW i \in mine PROVE Cardinality(mine) = 1
      <4>1. mine = {i}
        BY <2>1 DEF LogMatchesCalls
      <4>2. QED
        BY <4>1, FS_Singleton
    <3> HIDE DEF mine
    <3>3. QED
      BY <3>1, <3>2
  <2>3. QED
    BY <2>1, <2>2 DEF LogMatchesCalls
<1>2. QED
  BY <1>1, LogInvariant, PTL

\* When a run at the auto-snapshot cadence has returned, the state it committed
\* is in the store, whatever other saves were lost or are under way.
THEOREM ReturnedIsDurable == Spec => []DurableOnReturn
<1>1. LogInv => DurableOnReturn
  <2> SUFFICES ASSUME LogInv, NEW i \in 1..Len(runLog), Due(i),
                      status[runLog[i].run] = "ok"
               PROVE  \E j \in 1..Len(snaps) :
                         snaps[j] = [label |-> "auto", runCount |-> i,
                                     state |-> past[i + 1], saved |-> "stored"]
    BY DEF DurableOnReturn
  <2>1. PICK j \in 1..Len(snaps) :
           /\ snaps[j].label = "auto" /\ snaps[j].runCount = i
           /\ snaps[j].saved = "stored"
    BY DEF LogInv, CadenceIsSaved
  <2>2. snaps[j] \in Snapshots
    BY ElementOfSeq DEF LogInv, HistoryInv, TypeOK
  <2>3. snaps[j].state = past[i + 1]
    BY <2>1 DEF LogInv, HistoryInv, SnapshotMatchesHistory
  <2>4. QED
    BY <2>1, <2>2, <2>3 DEF Snapshots
<1>2. QED
  BY <1>1, LogInvariant, PTL

\* A fork holds a state the sandbox had when its parent snapshot was taken or
\* later, although fork() reads the state again after the save.
THEOREM ForksAreNotOlder == Spec => []ForkNotOlderThanParent
<1>1. LogInv => ForkNotOlderThanParent
  BY DEF LogInv, ChildrenNameSnapshots
<1>2. QED
  BY <1>1, LogInvariant, PTL
-----------------------------------------------------------------------------
(* Clients that await each call (Overlap = FALSE).                           *)

\* One run is with the executor at a time, and it is the next to be recorded: no
\* record comes between its call and its own, nor does dispose().
OneRunAtATime ==
    \A r \in Runs : status[r] = "executing" =>
        /\ ~disposed /\ index[r] = Len(runLog)
        /\ \A q \in Runs : status[q] = "executing" => q = r

\* So a record's index is its position, and a failure left the state alone.
RecordsInOrder ==
    \A i \in 1..Len(runLog) : /\ runLog[i].index + 1 = i
                              /\ ~runLog[i].ok => past[i + 1] = past[i]

\* While a fork waits for the save of its snapshot the state stays what it was.
ForksWait ==
    \A j \in 1..Len(snaps) : snaps[j].label = "fork" /\ snaps[j].saved = "saving" =>
        /\ snaps[j].state = state
        /\ \A r \in Runs : status[r] # "executing"

SerialInv == /\ ~Overlap /\ LogInv
             /\ OneRunAtATime /\ RecordsInOrder
             /\ ForksWait /\ ForkMatchesParent

\* A run recorded with the state its own index names is recorded in order.
LEMMA RecordedInOrder ==
  ASSUME SerialInv, NEW rec \in Records, NEW s \in States,
         runLog' = Append(runLog, rec), past' = Append(past, s),
         rec.index = Len(runLog), rec.ok \/ s = past[Len(past)]
  PROVE  RecordsInOrder'
<1>1. /\ Len(runLog) \in Nat /\ Len(past) = Len(runLog) + 1
      /\ Len(runLog') = Len(runLog) + 1 /\ Len(past') = Len(past) + 1
      /\ \A i \in 1..Len(runLog) : runLog'[i] = runLog[i]
      /\ \A i \in 1..Len(past) : past'[i] = past[i]
      /\ runLog'[Len(runLog) + 1] = rec
      /\ past'[Len(past) + 1] = s
  BY HistoryGrows DEF SerialInv, LogInv, HistoryInv
<1>2. \A i \in 1..Len(runLog) : /\ runLog'[i].index + 1 = i
                                /\ ~runLog'[i].ok => past'[i + 1] = past'[i]
  BY <1>1 DEF SerialInv, RecordsInOrder
<1>3. /\ runLog'[Len(runLog) + 1].index + 1 = Len(runLog) + 1
      /\ ~runLog'[Len(runLog) + 1].ok =>
            past'[Len(runLog) + 2] = past'[Len(runLog) + 1]
  BY <1>1
<1>4. \A i \in 1..Len(runLog') : i \in 1..Len(runLog) \/ i = Len(runLog) + 1
  BY <1>1
<1>5. QED
  BY <1>1, <1>2, <1>3, <1>4 DEF RecordsInOrder

\* A client that awaits calls run() when nothing is under way.
LEMMA CalledWhenQuiet ==
  ASSUME ~Overlap, MayCall
  PROVE  /\ \A r \in Runs : status[r] # "executing"
         /\ \A j \in 1..Len(snaps) : snaps[j].saved # "saving"
  BY DEF MayCall, Quiet, InFlight

\* Each step keeps the runs in order.
LEMMA OrderStep ==
  ASSUME SerialInv, [Next]_vars PROVE OneRunAtATime' /\ RecordsInOrder'
<1>1. /\ ~Overlap /\ TypeOK /\ TypeOK' /\ HistoryInv
      /\ OneRunAtATime /\ RecordsInOrder
  BY TypeStep DEF SerialInv, LogInv, HistoryInv
<1>2. /\ Len(runLog) \in Nat /\ Len(past) = Len(runLog) + 1
      /\ status \in [Runs -> Statuses] /\ index \in [Runs -> Nat]
      /\ state \in States
  BY <1>1, LenProperties DEF HistoryInv, TypeOK, StateIsLatest
<1>3. ASSUME UNCHANGED <<runLog, past>>,
             \A r \in Runs : status'[r] = "executing" =>
                 /\ status[r] = "executing" /\ index'[r] = index[r]
                 /\ disposed' = disposed
      PROVE  OneRunAtATime' /\ RecordsInOrder'
  BY <1>1, <1>3 DEF OneRunAtATime, RecordsInOrder
<1>4. ASSUME NEW r \in Runs, CallDisposed(r) PROVE OneRunAtATime' /\ RecordsInOrder'
  BY <1>2, <1>3, <1>4 DEF CallDisposed, SetStatus, NotRecorded
<1>5. ASSUME NEW r \in Runs, NEW k \in Kinds, Deny(r, k)
      PROVE  OneRunAtATime' /\ RecordsInOrder'
  <2> DEFINE rec == [run |-> r, ok |-> FALSE, index |-> Len(runLog)]
  <2>1. /\ ~disposed /\ MayCall
        /\ index' = [index EXCEPT ![r] = Len(runLog)]
        /\ status' = [status EXCEPT ![r] = "failed"]
    BY <1>5 DEF Deny, Enter, SetStatus
  <2>2. runLog' = Append(runLog, rec) /\ past' = Append(past, state)
    BY <1>2, <1>5, <2>1 DEF Deny, Finish
  <2>3. rec \in Records /\ rec.index = Len(runLog)
    BY <1>2 DEF Records
  <2>4. state = past[Len(past)]
    BY <1>1, <2>1 DEF HistoryInv, StateIsLatest
  <2> HIDE DEF rec
  <2>5. RecordsInOrder'
    BY <1>2, <2>2, <2>3, <2>4, RecordedInOrder
  <2>6. \A q \in Runs : status'[q] # "executing"
    BY <1>1, <1>2, <2>1, CalledWhenQuiet
  <2>7. QED
    BY <2>5, <2>6 DEF OneRunAtATime
<1>6. ASSUME NEW r \in Runs, NEW k \in Kinds, Misfit(r, k)
      PROVE  OneRunAtATime' /\ RecordsInOrder'
  <2>1. \A q \in Runs : status'[q] = "executing" =>
            status[q] = "executing" /\ index'[q] = index[q] /\ disposed' = disposed
    BY <1>2, <1>6 DEF Misfit, Enter, SetStatus
  <2>2. QED
    BY <1>3, <1>6, <2>1 DEF Misfit, NotRecorded
<1>7. ASSUME NEW r \in Runs, NEW k \in Kinds, Start(r, k)
      PROVE  OneRunAtATime' /\ RecordsInOrder'
  <2>1. /\ UNCHANGED <<runLog, past, disposed>> /\ ~disposed /\ MayCall
        /\ index' = [index EXCEPT ![r] = Len(runLog)]
        /\ status' = [status EXCEPT ![r] = "executing"]
    BY <1>7 DEF Start, Enter, SetStatus, NotRecorded
  <2>2. \A q \in Runs : status[q] # "executing"
    BY <1>1, <2>1, CalledWhenQuiet
  <2>3. \A q \in Runs : status'[q] = "executing" => q = r
    BY <1>2, <2>1, <2>2
  <2>4. index'[r] = Len(runLog')
    BY <1>2, <2>1
  <2>5. QED
    BY <1>1, <2>1, <2>3, <2>4 DEF OneRunAtATime, RecordsInOrder
<1>8. ASSUME NEW r \in Runs, ResumeOk(r) \/ ResumeFailed(r)
      PROVE  OneRunAtATime' /\ RecordsInOrder'
  <2>1. /\ status[r] = "executing" /\ index' = index
        /\ ~disposed /\ index[r] = Len(runLog)
    BY <1>1, <1>8 DEF ResumeOk, ResumeFailed, Resumes, OneRunAtATime
  <2>2. \E s \in {"ok", "failed", "saving", "rejected"} :
           status' = [status EXCEPT ![r] = s]
    BY <1>8 DEF ResumeOk, ResumeFailed, AutoSnapshot, SetStatus
  <2>3. \A q \in Runs : status'[q] # "executing"
    BY <1>1, <1>2, <2>1, <2>2 DEF OneRunAtATime
  <2>4. PICK ok \in BOOLEAN, s \in States :
           /\ Finish(r, ok, s) /\ (ok \/ s = past[Len(past)])
    <3>1. CASE ResumeOk(r)
      <4>1. outcome[r].state \in States
        BY <1>1 DEF TypeOK, ExecTypeOK, Outcomes
      <4>2. QED
        BY <3>1, <4>1 DEF ResumeOk
    <3>2. CASE ResumeFailed(r)
      BY <1>1, <1>2, <2>1, <3>2 DEF ResumeFailed, HistoryInv, StateIsLatest
    <3>3. QED
      BY <1>8, <3>1, <3>2
  <2> DEFINE rec == [run |-> r, ok |-> ok, index |-> index[r]]
  <2>5. runLog' = Append(runLog, rec) /\ past' = Append(past, s)
    BY <2>1, <2>4 DEF Finish
  <2>6. rec \in Records /\ rec.index = Len(runLog) /\ (rec.ok \/ s = past[Len(past)])
    BY <1>2, <2>1, <2>4 DEF Records
  <2> HIDE DEF rec
  <2>7. RecordsInOrder'
    BY <2>5, <2>6, RecordedInOrder
  <2>8. QED
    BY <2>3, <2>7 DEF OneRunAtATime
<1>9. ASSUME NEW r \in Runs, ResumeRejected(r) \/ Execute(r)
      PROVE  OneRunAtATime' /\ RecordsInOrder'
  BY <1>2, <1>3, <1>9 DEF ResumeRejected, Resumes, Execute, SetStatus, NotRecorded
<1>10. CASE Dispose
  <2>1. \A q \in Runs : status[q] # "executing"
    BY <1>1, <1>10, CalledWhenQuiet DEF Dispose
  <2>2. QED
    BY <1>3, <1>10, <2>1 DEF Dispose
<1>11. CASE \/ ReplayStart \/ Replay \/ UNCHANGED vars
            \/ \E label \in {"client", "fork"} : Snapshot(label)
            \/ \E j \in 1..Len(snaps) : Restore(j)
  BY <1>3, <1>11 DEF ReplayStart, Replay, ReplayRun, ReplayEnd, Snapshot, Restore, vars
<1>12. ASSUME NEW j \in 1..Len(snaps), SaveSettles(j)
       PROVE  OneRunAtATime' /\ RecordsInOrder'
  BY <1>2, <1>3, <1>12 DEF SaveSettles, SaveDone, SaveFails, Saved, SetStatus
<1>13. QED
  BY <1>4, <1>5, <1>6, <1>7, <1>8, <1>9, <1>10, <1>11, <1>12 DEF Next, Call, Resume

\* Each step keeps the state while a fork waits.
LEMMA ForksStep ==
  ASSUME SerialInv, [Next]_vars PROVE ForksWait'
<1>1. /\ ~Overlap /\ TypeOK /\ OneRunAtATime /\ ForksWait
      /\ snaps \in Seq(Snapshots) /\ status \in [Runs -> Statuses]
  BY DEF SerialInv, LogInv, HistoryInv, TypeOK
<1>2. Len(snaps) \in Nat
  BY <1>1, LenProperties
<1>3. ASSUME snaps' = snaps,
             \A r \in Runs : status'[r] = "executing" => status[r] = "executing",
             state' = state
      PROVE  ForksWait'
  BY <1>1, <1>3 DEF ForksWait
<1>4. ASSUME snaps' = snaps, MayCall PROVE ForksWait'
  BY <1>1, <1>4, CalledWhenQuiet DEF ForksWait
<1>5. ASSUME NEW r \in Runs, Call(r) PROVE ForksWait'
  <2>1. CASE CallDisposed(r)
    BY <1>1, <1>3, <2>1 DEF CallDisposed, SetStatus
  <2>2. CASE ~CallDisposed(r)
    BY <1>4, <1>5, <2>2 DEF Call, Deny, Misfit, Start, Enter
  <2>3. QED
    BY <2>1, <2>2
<1>6. ASSUME NEW r \in Runs, ResumeFailed(r) \/ ResumeRejected(r) \/ Execute(r)
      PROVE  ForksWait'
  BY <1>1, <1>3, <1>6 DEF ResumeFailed, ResumeRejected, Resumes, Execute, SetStatus
<1>7. ASSUME NEW r \in Runs, ResumeOk(r) PROVE ForksWait'
  <2> DEFINE snap == [label |-> "auto", runCount |-> Len(runLog) + 1,
                      state |-> outcome[r].state, saved |-> "saving"]
  <2>1. \A j \in 1..Len(snaps) : ~(snaps[j].label = "fork" /\ snaps[j].saved = "saving")
    BY <1>1, <1>7 DEF ResumeOk, Resumes, ForksWait
  <2>2. snap \in Snapshots /\ snap.label = "auto"
    BY <1>1, LenProperties DEF Snapshots, TypeOK, ExecTypeOK, Outcomes
  <2>3. snaps' = snaps \/ snaps' = Append(snaps, snap)
    BY <1>7 DEF ResumeOk, AutoSnapshot, Capture
  <2> HIDE DEF snap
  <2>4. \A j \in 1..Len(snaps') :
           snaps'[j].label = "auto" \/ (j \in 1..Len(snaps) /\ snaps'[j] = snaps[j])
    BY <1>1, <1>2, <2>2, <2>3, AppendProperties
  <2>5. QED
    BY <2>1, <2>4 DEF ForksWait
<1>8. ASSUME NEW label \in {"client", "fork"}, Snapshot(label) PROVE ForksWait'
  <2> DEFINE snap == [label |-> label, runCount |-> Len(runLog), state |-> state,
                      saved |-> "saving"]
  <2>1. /\ MayCall /\ snaps' = Append(snaps, snap) /\ UNCHANGED <<state, status>>
    BY <1>8 DEF Snapshot, Capture
  <2>2. snap \in Snapshots /\ snap.state = state
    BY <1>1, LenProperties DEF Snapshots, TypeOK
  <2>3. /\ \A r \in Runs : status[r] # "executing"
        /\ \A j \in 1..Len(snaps) : snaps[j].saved # "saving"
    BY <1>1, <2>1, CalledWhenQuiet
  <2> HIDE DEF snap
  <2>4. \A j \in 1..Len(snaps') :
           snaps'[j] = snap \/ (j \in 1..Len(snaps) /\ snaps'[j] = snaps[j])
    BY <1>1, <1>2, <2>1, <2>2, AppendProperties
  <2>5. QED
    BY <2>1, <2>2, <2>3, <2>4 DEF ForksWait
<1>9. ASSUME NEW i \in 1..Len(snaps), SaveSettles(i) PROVE ForksWait'
  <2>1. PICK how \in {"stored", "lost"} : Saved(i, how)
    BY <1>9 DEF SaveSettles, SaveDone, SaveFails
  <2> DEFINE new == [snaps[i] EXCEPT !.saved = how]
  <2>2. snaps[i] \in Snapshots
    BY <1>1, ElementOfSeq
  <2>3. new \in Snapshots /\ new.saved = how
    BY <2>2 DEF Snapshots
  <2>4. snaps' = [snaps EXCEPT ![i] = new] /\ UNCHANGED state
    BY <2>1 DEF Saved
  <2> HIDE DEF new
  <2>5. /\ Len(snaps') = Len(snaps)
        /\ \A j \in 1..Len(snaps) : snaps'[j] = IF j = i THEN new ELSE snaps[j]
    BY <1>1, <2>3, <2>4, ExceptSeq
  <2>6. \A q \in Runs : status'[q] = "executing" => status[q] = "executing"
    BY <1>1, <1>9 DEF SaveSettles, SaveDone, SaveFails, SetStatus
  <2>7. QED
    BY <1>1, <2>3, <2>4, <2>5, <2>6 DEF ForksWait
<1>10. CASE Dispose
  BY <1>4, <1>10 DEF Dispose
<1>11. CASE \/ ReplayStart \/ Replay \/ UNCHANGED vars
            \/ \E j \in 1..Len(snaps) : Restore(j)
  BY <1>3, <1>11 DEF ReplayStart, Replay, ReplayRun, ReplayEnd, Restore, vars
<1>12. QED
  BY <1>5, <1>6, <1>7, <1>8, <1>9, <1>10, <1>11 DEF Next, Resume

\* Each step keeps the children those of their parents.
LEMMA ParentsStep ==
  ASSUME SerialInv, [Next]_vars PROVE ForkMatchesParent'
<1>1. HistoryInv /\ TypeOK /\ ForksWait /\ ForkMatchesParent
      /\ ChildrenNameSnapshots
  BY DEF SerialInv, LogInv, HistoryInv
<1>2. \A j \in 1..Len(snaps) : snaps'[j].state = snaps[j].state
  BY <1>1, NothingForgotten
<1>3. \A c \in children : c.init = snaps'[c.parent].state
  BY <1>1, <1>2 DEF ForkMatchesParent, ChildrenNameSnapshots
<1>4. ASSUME NEW j \in 1..Len(snaps), NEW s \in States,
             children' = children \cup {[parent |-> j, init |-> s]},
             \/ UNCHANGED <<runLog, past, snaps>> /\ s = snaps[j].state
             \/ SaveDone(j) /\ snaps[j].label = "fork" /\ s = state
      PROVE  ForkMatchesParent'
  <2>1. s = snaps[j].state
    BY <1>1, <1>4 DEF SaveDone, Saved, ForksWait
  <2>2. QED
    BY <1>2, <1>3, <1>4, <2>1 DEF ForkMatchesParent
<1>5. QED
  BY <1>1, <1>3, <1>4, NewChildren DEF ForkMatchesParent

LEMMA SerialInit == ~Overlap /\ Init => SerialInv
<1> SUFFICES ASSUME ~Overlap, Init PROVE SerialInv
  OBVIOUS
<1>1. Len(runLog) = 0 /\ Len(snaps) = 0 /\ children = {}
      /\ \A r \in Runs : status[r] = "idle"
  BY DEF Init
<1>2. OneRunAtATime /\ RecordsInOrder /\ ForksWait /\ ForkMatchesParent
  BY <1>1 DEF OneRunAtATime, RecordsInOrder, ForksWait, ForkMatchesParent
<1>3. QED
  BY <1>2, LogInit DEF SerialInv

LEMMA SerialStep == SerialInv /\ [Next]_vars => SerialInv'
<1> SUFFICES ASSUME SerialInv, [Next]_vars PROVE SerialInv'
  OBVIOUS
<1>1. LogInv' /\ ~Overlap
  BY LogStep DEF SerialInv
<1>2. QED
  BY <1>1, OrderStep, ForksStep, ParentsStep DEF SerialInv

\* Clients that await each call have one run under way, in order.
THEOREM SerialInvariant == ~Overlap => (Spec => []SerialInv)
  BY SerialInit, SerialStep, PTL DEF Spec

\* No success is lost when each call is awaited: it adds its effect to the state
\* the record before it left.
THEOREM AwaitedRunsAreNotLost == ~Overlap => (Spec => []NoLostUpdate)
<1>1. SerialInv => NoLostUpdate
  <2> SUFFICES ASSUME SerialInv, NEW i \in 1..Len(runLog), runLog[i].ok
               PROVE  past[i + 1] = Effect(past[i], runLog[i].run)
    BY DEF NoLostUpdate
  <2>1. runLog[i].index + 1 = i
    BY DEF SerialInv, RecordsInOrder
  <2>2. QED
    BY <2>1 DEF SerialInv, LogInv, HistoryInv, RunsOnRecordedHistory
<1>2. QED
  BY <1>1, SerialInvariant, PTL

\* When each call is awaited, a forked or restored sandbox starts from the state
\* of the snapshot it names as its parent.
THEOREM AwaitedForksMatch == ~Overlap => (Spec => []ForkMatchesParent)
<1>1. SerialInv => ForkMatchesParent
  BY DEF SerialInv
<1>2. QED
  BY <1>1, SerialInvariant, PTL
-----------------------------------------------------------------------------
(* Replay, when each call is awaited and guest code is deterministic.        *)

\* Neither code that depends on more than its state nor a probe, which the
\* replay sandbox has not.
Deterministic == Kinds \cap {"flaky", "denied"} = {}

\* The runs were executed inline, as a replay is, or their code ends inline as it
\* ends in the runtime they had.
ReplaysWhereItRan ==
    \/ Runtime = "inline"
    \/ /\ Kinds \cap {"poison", "retried", "loops"} = {}
       /\ Runtime = "worker" \/ "heavy" \notin Kinds

\* The code of a run is what it was called with as long as the executor or the
\* history holds something of it.
CodeIsKnown ==
    /\ \A r \in Runs :
          /\ kind[r] \in Kinds \cup {"none"}
          /\ request[r].made => status[r] # "idle"
          /\ outcome[r].kind = "ok" => Completes(kind[r])
          /\ outcome[r].kind = "failed" => Breaks(kind[r])
    /\ \A j \in 1..Len(past) : \A m \in DOMAIN past[j] :
          past[j][m][1] \in Runs => status[past[j][m][1]] # "idle"

\* A run succeeds by its code and the state it is given: the record says no more.
RecordsAreDetermined ==
    /\ past[1] = InitialState
    /\ \A r \in Runs : status[r] = "executing" => Cloneable(past[Len(past)])
    /\ \A i \in 1..Len(runLog) :
          runLog[i].ok <=> Completes(kind[runLog[i].run]) /\ Cloneable(past[i])

\* The replay is where the history was.
ReplayOnHistory ==
    /\ Len(replay.results) <= Len(runLog)
    /\ \A i \in 1..Len(replay.results) : replay.results[i] = runLog[i].ok
    /\ replay.state = past[Len(replay.results) + 1]

ReplayInv == /\ Deterministic /\ ReplaysWhereItRan /\ SerialInv
             /\ CodeIsKnown /\ RecordsAreDetermined /\ ReplayOnHistory

\* Code of a kind that clients call run() with ends inline as it ended when it was
\* recorded, and not both ways.
LEMMA EndsAlike ==
  ASSUME Deterministic, ReplaysWhereItRan, NEW k \in Kinds \cup {"none"}
  PROVE  /\ CompletesIn("inline", k) <=> Completes(k)
         /\ BreaksIn("inline", k) <=> Breaks(k)
         /\ ~(Completes(k) /\ Breaks(k))
<1>1. CASE Runtime = "inline"
  BY <1>1, RuntimeAssumption
     DEF Deterministic, Completes, Breaks, CompletesIn, BreaksIn
<1>2. CASE Runtime # "inline"
  BY <1>2, RuntimeAssumption
     DEF Deterministic, ReplaysWhereItRan, Completes, Breaks, CompletesIn, BreaksIn
<1>3. QED
  BY <1>1, <1>2

\* The marks of an effect are the run's own and those of the state before it.
LEMMA EffectMarks ==
  ASSUME NEW s \in States, NEW r \in Runs, NEW m \in DOMAIN Effect(s, r)
  PROVE  \/ Effect(s, r)[m][1] = r
         \/ m \in DOMAIN s /\ Effect(s, r)[m] = s[m]
<1>1. GuestMarks(r) \in [1..Steps -> Marks]
  BY StepsAssumption DEF GuestMarks, Marks
<1>2. GuestMarks(r) \in Seq(Marks) /\ Len(GuestMarks(r)) = Steps
  <2>1. GuestMarks(r) \in Seq(Marks)
    BY <1>1, StepsAssumption, SeqDef
  <2>2. QED
    BY <1>1, <2>1, LenProperties, StepsAssumption
<1>3. s \in Seq(Marks) /\ Len(s) \in Nat /\ DOMAIN s = 1..Len(s)
  BY LenProperties DEF States
<1>4. /\ Len(Effect(s, r)) = Len(s) + Steps
      /\ \A i \in 1..(Len(s) + Steps) :
            Effect(s, r)[i] = IF i <= Len(s) THEN s[i] ELSE GuestMarks(r)[i - Len(s)]
  BY <1>2, <1>3, ConcatProperties DEF Effect
<1>5. m \in 1..(Len(s) + Steps)
  BY <1>4, EffectType, LenProperties DEF States
<1>6. CASE m <= Len(s)
  BY <1>3, <1>4, <1>5, <1>6, StepsAssumption
<1>7. CASE m > Len(s)
  <2>1. m - Len(s) \in 1..Steps
    BY <1>3, <1>5, <1>7, StepsAssumption
  <2>2. GuestMarks(r)[m - Len(s)][1] = r
    BY <2>1 DEF GuestMarks
  <2>3. QED
    BY <1>3, <1>4, <1>5, <1>7, <2>2, StepsAssumption
<1>8. QED
  BY <1>3, <1>5, <1>6, <1>7, StepsAssumption

\* No code but that of a run being called changes.
LEMMA CodeStays ==
  ASSUME TypeOK, [Next]_vars, NEW r \in Runs, status[r] # "idle"
  PROVE  kind'[r] = kind[r] /\ status'[r] # "idle"
<1>1. status \in [Runs -> Statuses] /\ kind \in [Runs -> AllKinds \cup {"none"}]
  BY DEF TypeOK
<1>2. ASSUME NEW q \in Runs, Call(q) PROVE kind'[r] = kind[r] /\ status'[r] # "idle"
  <2>1. status[q] = "idle"
    BY <1>2 DEF Call, CallDisposed, Deny, Misfit, Start, Enter
  <2>2. kind' = kind \/ \E k \in Kinds : kind' = [kind EXCEPT ![q] = k]
    BY <1>2 DEF Call, CallDisposed, Deny, Misfit, Start, Enter
  <2>3. \E s : status' = [status EXCEPT ![q] = s]
    BY <1>2 DEF Call, CallDisposed, Deny, Misfit, Start, SetStatus
  <2>4. QED
    BY <1>1, <2>1, <2>2, <2>3
<1>3. ASSUME NEW q \in Runs, Resume(q) PROVE kind'[r] = kind[r] /\ status'[r] # "idle"
  <2>1. kind' = kind
    BY <1>3 DEF Resume, ResumeOk, ResumeFailed, ResumeRejected, Resumes
  <2>2. \E s \in {"ok", "failed", "saving", "rejected"} :
           status' = [status EXCEPT ![q] = s]
    BY <1>3 DEF Resume, ResumeOk, ResumeFailed, ResumeRejected, AutoSnapshot, SetStatus
  <2>3. QED
    BY <1>1, <2>1, <2>2
<1>4. ASSUME NEW i \in 1..Len(snaps), SaveSettles(i)
      PROVE  kind'[r] = kind[r] /\ status'[r] # "idle"
  <2>1. kind' = kind
    BY <1>4 DEF SaveSettles, SaveDone, SaveFails, Saved
  <2>2. status' = status \/ \E q, s : s # "idle" /\ status' = [status EXCEPT ![q] = s]
    BY <1>4 DEF SaveSettles, SaveDone, SaveFails, SetStatus
  <2>3. QED
    BY <1>1, <2>1, <2>2
<1>5. QED
  BY <1>2, <1>3, <1>4 DEF Next, Execute, Snapshot, Restore, ReplayStart, Replay,
     ReplayRun, ReplayEnd, Dispose, vars

\* So what structuredClone made of a state of the past it makes of it again.
LEMMA CloneableStays ==
  ASSUME TypeOK, CodeIsKnown, [Next]_vars, NEW j \in 1..Len(past), past'[j] = past[j]
  PROVE  Cloneable(past[j])' <=> Cloneable(past[j])
<1>1. \A m \in DOMAIN past[j] : past[j][m][1] \in Runs =>
          kind'[past[j][m][1]] = kind[past[j][m][1]]
  BY CodeStays DEF CodeIsKnown
<1>2. QED
  BY <1>1 DEF Cloneable

\* What a step adds to the past: nothing, the last state again, or the effect of
\* the one run that was executing.
LEMMA PastGrowsBy ==
  ASSUME ReplayInv, [Next]_vars
  PROVE  \/ /\ UNCHANGED <<runLog, past>>
            /\ \A q \in Runs : status'[q] = "executing" =>
                  \/ status[q] = "executing"
                  \/ Cloneable(past[Len(past)])
         \/ /\ \A q \in Runs : status'[q] # "executing"
            /\ \E r \in Runs, ok \in BOOLEAN, s \in States :
                  /\ runLog' = Append(runLog, [run |-> r, ok |-> ok,
                                               index |-> Len(runLog)])
                  /\ past' = Append(past, s)
                  /\ ok <=> Completes(kind'[r]) /\ Cloneable(past[Len(past)])
                  /\ s = past[Len(past)] \/ s = Effect(past[Len(past)], r)
                  /\ status'[r] # "idle"
<1>1. /\ ~Overlap /\ TypeOK /\ HistoryInv /\ OneRunAtATime
      /\ CodeIsKnown /\ RecordsAreDetermined /\ Deterministic /\ ReplaysWhereItRan
      /\ status \in [Runs -> Statuses] /\ index \in [Runs -> Nat]
      /\ kind \in [Runs -> AllKinds \cup {"none"}]
      /\ state \in States
  BY DEF ReplayInv, SerialInv, LogInv, HistoryInv, TypeOK
<1>2. ~disposed => state = past[Len(past)]
  BY <1>1 DEF HistoryInv, StateIsLatest
<1> DEFINE Added(r, ok, s) ==
             /\ \A q \in Runs : status'[q] # "executing"
             /\ runLog' = Append(runLog, [run |-> r, ok |-> ok, index |-> Len(runLog)])
             /\ past' = Append(past, s)
             /\ ok <=> Completes(kind'[r]) /\ Cloneable(past[Len(past)])
             /\ s = past[Len(past)] \/ s = Effect(past[Len(past)], r)
             /\ status'[r] # "idle"
           Kept ==
             /\ UNCHANGED <<runLog, past>>
             /\ \A q \in Runs : status'[q] = "executing" =>
                   status[q] = "executing" \/ Cloneable(past[Len(past)])
<1>3. ASSUME NEW r \in Runs, NEW k \in Kinds, Deny(r, k)
      PROVE  Added(r, FALSE, state) /\ state \in States
  <2>1. /\ ~disposed /\ MayCall
        /\ index' = [index EXCEPT ![r] = Len(runLog)]
        /\ kind' = [kind EXCEPT ![r] = k]
        /\ status' = [status EXCEPT ![r] = "failed"]
        /\ k \in {"unsafe", "denied"} \/ ~Cloneable(state)
    BY <1>3 DEF Deny, Enter, SetStatus
  <2>2. index'[r] = Len(runLog) /\ kind'[r] = k /\ status'[r] = "failed"
    BY <1>1, <2>1
  <2>3. \A q \in Runs : status'[q] # "executing"
    BY <1>1, <2>1, CalledWhenQuiet
  <2>4. /\ runLog' = Append(runLog, [run |-> r, ok |-> FALSE, index |-> Len(runLog)])
        /\ past' = Append(past, state)
    BY <1>3, <2>2 DEF Deny, Finish
  <2>5. k # "denied"
    BY <1>1 DEF Deterministic
  <2>6. ~(Completes(kind'[r]) /\ Cloneable(past[Len(past)]))
    BY <1>2, <2>1, <2>2, <2>5 DEF Completes, CompletesIn
  <2>7. QED
    BY <1>1, <1>2, <2>1, <2>2, <2>3, <2>4, <2>6
<1>4. ASSUME NEW r \in Runs, ResumeOk(r) \/ ResumeFailed(r)
      PROVE  \E ok \in BOOLEAN, s \in States : Added(r, ok, s)
  <2>1. /\ status[r] = "executing" /\ index' = index /\ kind' = kind
        /\ ~disposed /\ index[r] = Len(runLog)
        /\ \A q \in Runs : status[q] = "executing" => q = r
    BY <1>1, <1>4 DEF ResumeOk, ResumeFailed, Resumes, OneRunAtATime
  <2>2. \E st \in {"ok", "failed", "saving", "rejected"} :
           status' = [status EXCEPT ![r] = st]
    BY <1>4 DEF ResumeOk, ResumeFailed, AutoSnapshot, SetStatus
  <2>3. (\A q \in Runs : status'[q] # "executing") /\ status'[r] # "idle"
    BY <1>1, <2>1, <2>2
  <2>4. CASE ResumeOk(r)
    <3>1. outcome[r].state \in States
      BY <1>1 DEF TypeOK, ExecTypeOK, Outcomes
    <3>2. outcome[r].kind = "ok"
      BY <2>4 DEF ResumeOk, Resumes
    <3>3. outcome[r].state = Effect(past[Len(past)], r)
      BY <1>1, <2>1, <3>2 DEF HistoryInv, RequestsFromHistory, StateIsLatest
    <3>4. Completes(kind'[r]) /\ Cloneable(past[Len(past)])
      BY <1>1, <2>1, <3>2 DEF CodeIsKnown, RecordsAreDetermined
    <3>5. /\ runLog' = Append(runLog, [run |-> r, ok |-> TRUE, index |-> Len(runLog)])
          /\ past' = Append(past, outcome[r].state)
      BY <2>1, <2>4 DEF ResumeOk, Finish
    <3>6. Added(r, TRUE, outcome[r].state)
      BY <2>3, <3>3, <3>4, <3>5
    <3> HIDE DEF Added
    <3>7. QED
      BY <3>1, <3>6
  <2>5. CASE ResumeFailed(r)
    <3>1. outcome[r].kind = "failed"
      BY <2>5 DEF ResumeFailed, Resumes
    <3>2. ~Completes(kind'[r])
      BY <1>1, <2>1, <3>1, EndsAlike DEF CodeIsKnown
    <3>3. /\ runLog' = Append(runLog, [run |-> r, ok |-> FALSE, index |-> Len(runLog)])
          /\ past' = Append(past, state)
      BY <2>1, <2>5 DEF ResumeFailed, Finish
    <3>4. Added(r, FALSE, state)
      BY <1>2, <2>1, <2>3, <3>2, <3>3
    <3> HIDE DEF Added
    <3>5. QED
      BY <1>1, <3>4
  <2>6. QED
    BY <1>4, <2>4, <2>5
<1>5. ASSUME NEW r \in Runs, NEW k \in Kinds, Start(r, k)
      PROVE  UNCHANGED <<runLog, past>> /\ Cloneable(past[Len(past)])
  BY <1>2, <1>5 DEF Start, Enter, NotRecorded
<1>6. ASSUME NEW r \in Runs, Call(r)
             \/ ResumeRejected(r) \/ Execute(r)
      PROVE  Kept \/ Added(r, FALSE, state)
  <2> HIDE DEF Added
  <2>1. CASE CallDisposed(r) \/ ResumeRejected(r) \/ Execute(r)
    BY <1>1, <2>1 DEF CallDisposed, ResumeRejected, Resumes, Execute, SetStatus,
                      NotRecorded
  <2>2. ASSUME NEW k \in Kinds, Misfit(r, k)
        PROVE  /\ UNCHANGED <<runLog, past>>
               /\ \A q \in Runs : status'[q] = "executing" => status[q] = "executing"
    BY <1>1, <2>2 DEF Misfit, SetStatus, NotRecorded
  <2>3. QED
    BY <1>3, <1>5, <1>6, <2>1, <2>2 DEF Call
<1>7. ASSUME \/ ReplayStart \/ Replay \/ Dispose \/ UNCHANGED vars
             \/ \E label \in {"client", "fork"} : Snapshot(label)
             \/ \E j \in 1..Len(snaps) : Restore(j)
      PROVE  UNCHANGED <<runLog, past, status>>
  BY <1>7 DEF ReplayStart, Replay, ReplayRun, ReplayEnd, Dispose, Snapshot,
              Restore, vars
<1>8. ASSUME NEW j \in 1..Len(snaps), SaveSettles(j)
      PROVE  /\ UNCHANGED <<runLog, past>>
             /\ \A q \in Runs : status'[q] = "executing" => status[q] = "executing"
  BY <1>1, <1>8 DEF SaveSettles, SaveDone, SaveFails, Saved, SetStatus
<1>9. \/ Kept
      \/ \E r \in Runs, ok \in BOOLEAN, s \in States : Added(r, ok, s)
  <2> HIDE DEF Added
  <2>1. ASSUME NEW r \in Runs, Call(r) \/ Execute(r) \/ Resume(r)
        PROVE  Kept \/ \E ok \in BOOLEAN, s \in States : Added(r, ok, s)
    BY <1>1, <1>4, <1>6, <2>1 DEF Resume
  <2>2. QED
    BY <1>7, <1>8, <2>1 DEF Next
<1>10. QED
  BY <1>9

\* Each step keeps the code of the runs known.
LEMMA CodeStep ==
  ASSUME ReplayInv, [Next]_vars PROVE CodeIsKnown'
<1>1. /\ TypeOK /\ TypeOK' /\ HistoryInv /\ CodeIsKnown /\ Deterministic
  BY TypeStep DEF ReplayInv, SerialInv, LogInv, HistoryInv
<1>2. /\ kind \in [Runs -> AllKinds \cup {"none"}]
      /\ request \in [Runs -> Requests] /\ outcome \in [Runs -> Outcomes]
      /\ status \in [Runs -> Statuses] /\ past \in Seq(States)
  BY <1>1 DEF TypeOK, ExecTypeOK
<1>3. ASSUME NEW q \in Runs PROVE kind'[q] \in Kinds \cup {"none"}
  <2>1. kind' = kind \/ \E r \in Runs, k \in Kinds : kind' = [kind EXCEPT ![r] = k]
    BY DEF Next, Call, CallDisposed, Deny, Misfit, Start, Enter, Resume,
         ResumeOk, ResumeFailed, ResumeRejected, Resumes, Execute, Snapshot,
         SaveSettles, SaveDone, SaveFails, Saved, Restore,
         ReplayStart, Replay, ReplayRun, ReplayEnd, Dispose, vars
  <2>2. QED
    BY <1>1, <1>2, <2>1 DEF CodeIsKnown
<1>4. ASSUME NEW q \in Runs, request'[q].made PROVE status'[q] # "idle"
  <2>1. CASE request' = request
    BY <1>1, <1>4, <2>1, CodeStays DEF CodeIsKnown
  <2>2. ASSUME NEW r \in Runs, NEW k \in Kinds, Start(r, k)
        PROVE  status'[q] # "idle"
    <3>1. /\ status' = [status EXCEPT ![r] = "executing"]
          /\ request' = [request EXCEPT ![r] = Request(state)]
      BY <2>2 DEF Start, Submit, SetStatus
    <3>2. CASE q = r
      BY <1>2, <3>1, <3>2
    <3>3. CASE q # r
      BY <1>1, <1>2, <1>4, <3>1, <3>3 DEF CodeIsKnown
    <3>4. QED
      BY <3>2, <3>3
  <2>3. request' = request \/ \E r \in Runs, k \in Kinds : Start(r, k)
    BY DEF Next, Call, CallDisposed, Deny, Misfit, Resume, execVars, Settle,
         ResumeOk, ResumeFailed, ResumeRejected, Resumes, Execute, Snapshot,
         SaveSettles, SaveDone, SaveFails, Saved, Restore, Succeed, Fail, Reject,
         ReplayStart, Replay, ReplayRun, ReplayEnd, Dispose, vars
  <2>4. QED
    BY <2>1, <2>2, <2>3
<1>5. ASSUME NEW q \in Runs
      PROVE  /\ outcome'[q].kind = "ok" => Completes(kind'[q])
             /\ outcome'[q].kind = "failed" => Breaks(kind'[q])
  <2>1. CASE outcome' = outcome
    <3>1. CASE status[q] = "idle"
      BY <1>1, <2>1, <3>1 DEF CodeIsKnown, HistoryInv, RequestsFromHistory
    <3>2. CASE status[q] # "idle"
      BY <1>1, <2>1, <3>2, CodeStays DEF CodeIsKnown
    <3>3. QED
      BY <3>1, <3>2
  <2>2. ASSUME NEW r \in Runs, Execute(r)
        PROVE  /\ outcome'[q].kind = "ok" => Completes(kind'[q])
               /\ outcome'[q].kind = "failed" => Breaks(kind'[q])
    <3>1. kind' = kind
      BY <2>2 DEF Execute
    <3>2. PICK o \in {Success(Effect(request[r].state, r)), Failure, Rejection} :
             /\ outcome' = [outcome EXCEPT ![r] = o]
             /\ o = Success(Effect(request[r].state, r)) => Completes(kind[r])
             /\ o = Failure => Breaks(kind[r])
      <4>1. Success(Effect(request[r].state, r)).kind = "ok"
            /\ Failure.kind = "failed" /\ Rejection.kind = "rejected"
        BY DEF Success, Failure, Rejection
      <4>2. CASE Completes(kind[r]) /\ Succeed(r)
        BY <4>1, <4>2 DEF Succeed, Settle
      <4>3. CASE Breaks(kind[r]) /\ Fail(r)
        BY <4>1, <4>3 DEF Fail, Settle
      <4>4. CASE Reject(r)
        BY <4>1, <4>4 DEF Reject, Settle
      <4>5. QED
        BY <2>2, <4>2, <4>3, <4>4 DEF Execute
    <3>3. /\ o.kind = "ok" => Completes(kind[r])
          /\ o.kind = "failed" => Breaks(kind[r])
      BY <3>2 DEF Success, Failure, Rejection
    <3>4. QED
      BY <1>1, <1>2, <3>1, <3>2, <3>3 DEF CodeIsKnown
  <2>3. outcome' = outcome \/ \E r \in Runs : Execute(r)
    BY DEF Next, Call, CallDisposed, Deny, Misfit, Start, Submit, Resume, execVars,
         ResumeOk, ResumeFailed, ResumeRejected, Resumes, Snapshot,
         SaveSettles, SaveDone, SaveFails, Saved, Restore,
         ReplayStart, Replay, ReplayRun, ReplayEnd, Dispose, vars
  <2>4. QED
    BY <2>1, <2>2, <2>3
<1>6. /\ Len(past) \in Nat /\ Len(past) >= 1
      /\ \A j \in 1..Len(past) : past'[j] = past[j] /\ past[j] \in States
  <2>1. /\ Len(runLog) \in Nat /\ Len(past) = Len(runLog) + 1
        /\ \A j \in 1..Len(past) : past'[j] = past[j]
    BY <1>1, NothingForgotten
  <2>2. QED
    BY <1>2, <2>1, ElementOfSeq
<1>7. ASSUME NEW j \in 1..Len(past), NEW m \in DOMAIN past[j],
             past[j][m][1] \in Runs
      PROVE  status'[past[j][m][1]] # "idle"
  BY <1>1, <1>7, CodeStays DEF CodeIsKnown
<1>8. ASSUME NEW j \in 1..Len(past'), NEW m \in DOMAIN past'[j],
             past'[j][m][1] \in Runs
      PROVE  status'[past'[j][m][1]] # "idle"
  <2>1. CASE j \in 1..Len(past)
    BY <1>6, <1>7, <1>8, <2>1
  <2>2. CASE j \notin 1..Len(past)
    <3>1. past' # past
      BY <2>2
    <3>2. PICK r \in Runs, s \in States :
             /\ past' = Append(past, s) /\ status'[r] # "idle"
             /\ s = past[Len(past)] \/ s = Effect(past[Len(past)], r)
      BY <3>1, PastGrowsBy
    <3>3. past'[j] = s
      BY <1>2, <1>6, <2>2, <3>2, AppendProperties
    <3>4. Len(past) \in 1..Len(past) /\ past[Len(past)] \in States
      BY <1>6
    <3>5. \/ s[m][1] = r
          \/ m \in DOMAIN past[Len(past)] /\ s[m] = past[Len(past)][m]
      BY <1>8, <3>2, <3>3, <3>4, EffectMarks
    <3>6. QED
      BY <1>7, <1>8, <3>2, <3>3, <3>4, <3>5
  <2>3. QED
    BY <2>1, <2>2
<1>9. QED
  BY <1>3, <1>4, <1>5, <1>8 DEF CodeIsKnown

\* Each step keeps the records determined by code and state.
LEMMA DeterminedStep ==
  ASSUME ReplayInv, [Next]_vars PROVE RecordsAreDetermined'
<1>1. /\ TypeOK /\ HistoryInv /\ CodeIsKnown /\ RecordsAreDetermined
      /\ LogMatchesCalls
  BY DEF ReplayInv, SerialInv, LogInv, HistoryInv
<1>2. /\ Len(runLog) \in Nat /\ Len(past) = Len(runLog) + 1
      /\ Len(past') = Len(runLog') + 1
      /\ \A i \in 1..Len(runLog) : runLog'[i] = runLog[i]
      /\ \A i \in 1..Len(past) : past'[i] = past[i]
  BY <1>1, NothingForgotten
<1>3. ASSUME NEW j \in 1..Len(past)
      PROVE  Cloneable(past[j])' <=> Cloneable(past[j])
  BY <1>1, <1>2, CloneableStays
<1>4. \A i \in 1..Len(runLog) :
         runLog'[i].ok <=> Completes(kind'[runLog'[i].run]) /\ Cloneable(past[i])'
  <2> SUFFICES ASSUME NEW i \in 1..Len(runLog)
               PROVE  runLog[i].ok <=> Completes(kind'[runLog[i].run])
                                       /\ Cloneable(past[i])'
    BY <1>2
  <2>1. runLog[i].run \in Runs /\ status[runLog[i].run] # "idle"
    <3>1. runLog[i] \in Records
      BY <1>1, ElementOfSeq DEF TypeOK
    <3>2. QED
      BY <1>1, <3>1 DEF Records, LogMatchesCalls
  <2>2. kind'[runLog[i].run] = kind[runLog[i].run]
    BY <1>1, <2>1, CodeStays
  <2>3. i \in 1..Len(past)
    BY <1>2
  <2>4. QED
    BY <1>1, <1>3, <2>2, <2>3 DEF RecordsAreDetermined
<1>5. past'[1] = InitialState
  BY <1>1, <1>2 DEF RecordsAreDetermined
<1>6. Len(past) \in 1..Len(past)
  BY <1>2
<1>7. CASE /\ UNCHANGED <<runLog, past>>
           /\ \A q \in Runs : status'[q] = "executing" =>
                 status[q] = "executing" \/ Cloneable(past[Len(past)])
  <2>1. ASSUME NEW q \in Runs, status'[q] = "executing"
        PROVE  Cloneable(past[Len(past)])'
    <3>1. Cloneable(past[Len(past)])
      BY <1>1, <1>7, <2>1 DEF RecordsAreDetermined
    <3>2. Len(past') = Len(past)
      BY <1>7
    <3>3. QED
      BY <1>3, <1>6, <1>7, <3>1, <3>2 DEF Cloneable
  <2>2. QED
    BY <1>4, <1>5, <1>7, <2>1 DEF RecordsAreDetermined
<1>8. ASSUME \A q \in Runs : status'[q] # "executing",
             NEW r \in Runs, NEW ok \in BOOLEAN, NEW s \in States,
             runLog' = Append(runLog, [run |-> r, ok |-> ok, index |-> Len(runLog)]),
             past' = Append(past, s),
             ok <=> Completes(kind'[r]) /\ Cloneable(past[Len(past)])
      PROVE  RecordsAreDetermined'
  <2> DEFINE rec == [run |-> r, ok |-> ok, index |-> Len(runLog)]
  <2>1. rec \in Records /\ rec.run = r /\ rec.ok = ok
    BY <1>2 DEF Records
  <2>2. runLog' = Append(runLog, rec)
    BY <1>8
  <2> HIDE DEF rec
  <2>3. Len(runLog') = Len(runLog) + 1 /\ runLog'[Len(runLog) + 1] = rec
    BY <1>1, <1>8, <2>1, <2>2, HistoryGrows DEF HistoryInv
  <2>4. runLog'[Len(past)].ok <=> /\ Completes(kind'[runLog'[Len(past)].run])
                                  /\ Cloneable(past[Len(past)])
    BY <1>2, <1>8, <2>1, <2>3
  <2>5. ASSUME NEW i \in 1..Len(runLog')
        PROVE  runLog'[i].ok <=> /\ Completes(kind'[runLog'[i].run])
                                 /\ Cloneable(past[i])'
    <3>1. CASE i \in 1..Len(runLog)
      BY <1>4, <3>1
    <3>2. CASE i = Len(past)
      <4>1. Cloneable(past[i])' <=> Cloneable(past[i])
        BY <1>3, <1>6, <3>2
      <4>2. QED
        BY <2>4, <3>2, <4>1
    <3>3. i \in 1..Len(runLog) \/ i = Len(past)
      BY <1>2, <2>3
    <3>4. QED
      BY <3>1, <3>2, <3>3
  <2>6. QED
    BY <1>5, <1>8, <2>5 DEF RecordsAreDetermined
<1>9. QED
  BY <1>7, <1>8, PastGrowsBy

\* Each step keeps the replay on the history.
LEMMA ReplayStep ==
  ASSUME ReplayInv, [Next]_vars PROVE ReplayOnHistory'
<1>1. /\ TypeOK /\ HistoryInv /\ CodeIsKnown /\ RecordsAreDetermined
      /\ ReplayOnHistory /\ SerialInv /\ Deterministic /\ ReplaysWhereItRan
  BY DEF ReplayInv, SerialInv, LogInv, HistoryInv
<1>2. /\ Len(runLog) \in Nat /\ Len(runLog') \in Nat
      /\ Len(runLog) <= Len(runLog')
      /\ Len(past) = Len(runLog) + 1
      /\ \A i \in 1..Len(runLog) : runLog'[i] = runLog[i]
      /\ \A i \in 1..Len(past) : past'[i] = past[i]
  BY <1>1, NothingForgotten
<1>3. replay.results \in Seq(BOOLEAN) /\ Len(replay.results) \in Nat
  BY <1>1, LenProperties DEF TypeOK, Replays
<1>4. CASE UNCHANGED <<replay.results, replay.state>>
  <2>1. Len(replay.results) + 1 \in 1..Len(past)
    BY <1>1, <1>2, <1>3 DEF ReplayOnHistory
  <2>2. past'[Len(replay.results) + 1] = past[Len(replay.results) + 1]
    BY <1>2, <2>1
  <2>3. replay'.state = past'[Len(replay'.results) + 1]
    BY <1>1, <1>4, <2>2 DEF ReplayOnHistory
  <2>4. ASSUME NEW i \in 1..Len(replay.results)
        PROVE  replay.results[i] = runLog'[i].ok
    <3>1. i \in 1..Len(runLog)
      BY <1>1, <1>2, <1>3 DEF ReplayOnHistory
    <3>2. QED
      BY <1>1, <1>2, <3>1 DEF ReplayOnHistory
  <2>5. Len(replay.results) <= Len(runLog')
    BY <1>1, <1>2, <1>3 DEF ReplayOnHistory
  <2>6. QED
    BY <1>4, <2>3, <2>4, <2>5 DEF ReplayOnHistory
<1>5. CASE ReplayStart
  <2>1. replay'.results = <<>> /\ replay'.state = InitialState
    BY <1>5 DEF ReplayStart
  <2>2. Len(replay'.results) = 0 /\ replay'.state = past'[1]
    BY <1>1, <1>2, <2>1 DEF RecordsAreDetermined
  <2>3. QED
    BY <1>2, <2>2 DEF ReplayOnHistory
<1>6. CASE ReplayRun
  <2> DEFINE n == Len(replay.results) + 1
             r == runLog[n].run
  <2>1. n \in 1..Len(runLog)
    BY <1>2, <1>3, <1>6 DEF ReplayRun
  <2>2. UNCHANGED <<runLog, past>> /\ replay.state = past[n]
    BY <1>1, <1>6 DEF ReplayRun, ReplayOnHistory
  <2>3. r \in Runs
    <3>1. runLog[n] \in Records
      BY <1>1, <2>1, ElementOfSeq DEF TypeOK
    <3>2. QED
      BY <3>1 DEF Records
  <2>4. runLog[n].ok <=> Completes(kind[r]) /\ Cloneable(past[n])
    BY <1>1, <2>1 DEF RecordsAreDetermined
  <2>5. PICK ok \in BOOLEAN :
           /\ replay'.results = Append(replay.results, ok)
           /\ replay'.state = IF ok THEN Effect(replay.state, r) ELSE replay.state
           /\ ok => Completes(kind[r]) /\ Cloneable(replay.state)
           /\ ~ok => Breaks(kind[r]) \/ ~Cloneable(replay.state)
    <3>1. \/ /\ replay' = [replay EXCEPT !.results = Append(@, TRUE),
                                         !.state = Effect(@, r)]
             /\ CompletesIn("inline", kind[r]) /\ Cloneable(replay.state)
          \/ /\ replay' = [replay EXCEPT !.results = Append(@, FALSE)]
             /\ BreaksIn("inline", kind[r]) \/ ~Cloneable(replay.state)
      BY <1>6 DEF ReplayRun
    <3>2. replay \in Replays
      BY <1>1 DEF TypeOK
    <3>3. /\ CompletesIn("inline", kind[r]) <=> Completes(kind[r])
          /\ BreaksIn("inline", kind[r]) <=> Breaks(kind[r])
      BY <1>1, <2>3, EndsAlike DEF CodeIsKnown
    <3> HIDE DEF r, n
    <3>4. QED
      BY <3>1, <3>2, <3>3 DEF Replays
  <2>6. ok <=> runLog[n].ok
    <3>1. ~(Completes(kind[r]) /\ Breaks(kind[r]))
      BY <1>1, <2>3, EndsAlike DEF CodeIsKnown
    <3>2. QED
      BY <2>2, <2>4, <2>5, <3>1
  <2>7. replay'.state = past[n + 1]
    <3>1. CASE ok
      <4>1. runLog[n].index + 1 = n
        BY <1>1, <2>1 DEF SerialInv, RecordsInOrder
      <4>2. past[n + 1] = Effect(past[n], r)
        BY <1>1, <2>1, <2>6, <3>1, <4>1 DEF HistoryInv, RunsOnRecordedHistory
      <4>3. QED
        BY <2>2, <2>5, <3>1, <4>2
    <3>2. CASE ~ok
      BY <1>1, <2>1, <2>2, <2>5, <2>6, <3>2 DEF SerialInv, RecordsInOrder
    <3>3. QED
      BY <3>1, <3>2
  <2>8. /\ Len(replay'.results) = n /\ replay'.results[n] = ok
        /\ \A i \in 1..Len(replay.results) : replay'.results[i] = replay.results[i]
    BY <1>3, <2>5, AppendProperties
  <2>9. ASSUME NEW i \in 1..n PROVE replay'.results[i] = runLog[i].ok
    <3>1. CASE i = n
      <4>1. runLog[n] \in Records
        BY <1>1, <2>1, ElementOfSeq DEF TypeOK
      <4>2. QED
        BY <2>6, <2>8, <3>1, <4>1 DEF Records
    <3>2. CASE i # n
      BY <1>1, <1>3, <2>8, <3>2 DEF ReplayOnHistory
    <3>3. QED
      BY <3>1, <3>2
  <2> HIDE DEF n, r
  <2>10. QED
    BY <2>1, <2>2, <2>7, <2>8, <2>9 DEF ReplayOnHistory
<1>7. CASE ~ReplayStart /\ ~ReplayRun
  <2>1. replay' = replay \/ replay' = [replay EXCEPT !.active = FALSE]
    BY <1>7 DEF Next, Call, CallDisposed, Deny, Misfit, Start, Enter, Resume,
         ResumeOk, ResumeFailed, ResumeRejected, Resumes, Execute, Snapshot,
         SaveSettles, SaveDone, SaveFails, Saved, Restore,
         Replay, ReplayEnd, Dispose, vars
  <2>2. UNCHANGED <<replay.results, replay.state>>
    BY <1>1, <2>1 DEF TypeOK, Replays
  <2>3. QED
    BY <1>4, <2>2
<1>8. QED
  BY <1>5, <1>6, <1>7

LEMMA ReplayInit ==
  Deterministic /\ ReplaysWhereItRan /\ ~Overlap /\ Init => ReplayInv
<1> SUFFICES ASSUME Deterministic, ReplaysWhereItRan, ~Overlap, Init PROVE ReplayInv
  OBVIOUS
<1>1. SerialInv
  BY SerialInit
<1>2. /\ past = <<InitialState>> /\ Len(past) = 1 /\ past[1] = InitialState
      /\ Len(runLog) = 0 /\ replay.results = <<>> /\ replay.state = InitialState
      /\ Len(replay.results) = 0
      /\ \A r \in Runs : /\ kind[r] = "none" /\ status[r] = "idle"
                         /\ ~request[r].made /\ outcome[r].kind = "none"
  BY DEF Init, ExecInit, NoRequest, NoOutcome
<1>3. \A m \in DOMAIN InitialState : InitialState[m][1] = Seed
  BY DEF InitialState
<1>4. CodeIsKnown
  <2>1. ASSUME NEW j \in 1..Len(past) PROVE past[j] = InitialState
    BY <1>2
  <2>2. QED
    BY <1>2, <1>3, <2>1, SeedAssumption DEF CodeIsKnown
<1>5. RecordsAreDetermined
  BY <1>2 DEF RecordsAreDetermined
<1>6. ReplayOnHistory
  BY <1>2 DEF ReplayOnHistory
<1>7. QED
  BY <1>1, <1>4, <1>5, <1>6 DEF ReplayInv

LEMMA ReplayInvStep == ReplayInv /\ [Next]_vars => ReplayInv'
<1> SUFFICES ASSUME ReplayInv, [Next]_vars PROVE ReplayInv'
  OBVIOUS
<1>1. SerialInv' /\ Deterministic /\ ReplaysWhereItRan
  BY SerialStep DEF ReplayInv
<1>2. Deterministic' /\ ReplaysWhereItRan'
  BY <1>1 DEF Deterministic, ReplaysWhereItRan
<1>3. QED
  BY <1>1, <1>2, CodeStep, DeterminedStep, ReplayStep DEF ReplayInv

\* Clients that await each call, no probes, and code that does the same every time
\* and was run inline, or ends inline as it did where it was run: a replay returns
\* what the log recorded, and passes through the states the sandbox passed through.
THEOREM ReplayIsFaithful ==
  ~Overlap /\ Deterministic /\ ReplaysWhereItRan => (Spec => []ReplayReproduces)
<1>1. ReplayInv => ReplayReproduces
  BY DEF ReplayInv, ReplayOnHistory, ReplayReproduces
<1>2. QED
  BY <1>1, ReplayInit, ReplayInvStep, PTL DEF Spec
-----------------------------------------------------------------------------
(* What a call in flight waits for.                                          *)

\* A run that executes was handed to the executor, with code that ends one way or
\* the other.
RunsAreExecuting ==
    \A r \in Runs : status[r] = "executing" =>
        request[r].made /\ (Completes(kind[r]) \/ Breaks(kind[r]))

\* An auto snapshot whose save is under way is awaited by the run it is of, which
\* awaits no other, and a run that awaits a save awaits that of such a snapshot.
AutosAreAwaited ==
    /\ \A i, j \in 1..Len(snaps) :
          /\ snaps[i].label = "auto" /\ snaps[j].label = "auto"
          /\ snaps[i].runCount = snaps[j].runCount
          => i = j
    /\ \A i \in 1..Len(snaps) : snaps[i].label = "auto" /\ snaps[i].saved = "saving" =>
          status[Awaiting(i)] = "saving"
    /\ \A r \in Runs : status[r] = "saving" =>
          \E i \in 1..Len(snaps) :
             snaps[i].label = "auto" /\ snaps[i].saved = "saving" /\ Awaiting(i) = r

WaitInv == LogInv /\ RunsAreExecuting /\ AutosAreAwaited

LEMMA WaitInit == Init => WaitInv
<1> SUFFICES ASSUME Init PROVE WaitInv
  OBVIOUS
<1>1. Len(snaps) = 0 /\ \A r \in Runs : status[r] = "idle"
  BY DEF Init
<1> QED
  BY <1>1, LogInit DEF WaitInv, RunsAreExecuting, AutosAreAwaited

\* Only what Start() hands over begins to execute.
LEMMA ExecutingStep ==
  ASSUME TypeOK, RunsAreExecuting, [Next]_vars
  PROVE  RunsAreExecuting'
<1>1. /\ status \in [Runs -> Statuses] /\ kind \in [Runs -> AllKinds \cup {"none"}]
      /\ request \in [Runs -> Requests]
  BY DEF TypeOK, ExecTypeOK
<1>2. ASSUME NEW r \in Runs, NEW k \in Kinds, NEW s, Enter(r, k), SetStatus(r, s),
             UNCHANGED execVars, s # "executing"
      PROVE  RunsAreExecuting'
  BY <1>1, <1>2 DEF Enter, SetStatus, execVars, RunsAreExecuting
<1>3. ASSUME NEW r \in Runs, NEW k \in Kinds, Start(r, k) PROVE RunsAreExecuting'
  <2>1. /\ status' = [status EXCEPT ![r] = "executing"]
        /\ kind' = [kind EXCEPT ![r] = k]
        /\ request' = [request EXCEPT ![r] = Request(state)]
        /\ k \notin {"unsafe", "denied", "unfit"}
    BY <1>3 DEF Start, Enter, SetStatus, Submit
  <2>2. Completes(k) \/ Breaks(k)
    BY <2>1, KindsAssumption, RuntimeAssumption
       DEF Completes, Breaks, CompletesIn, BreaksIn, AllKinds
  <2>3. Request(state).made
    BY DEF Request
  <2>4. \A q \in Runs : q # r => /\ status'[q] = status[q] /\ kind'[q] = kind[q]
                                 /\ request'[q] = request[q]
    BY <1>1, <2>1
  <2>5. kind'[r] = k /\ request'[r] = Request(state)
    BY <1>1, <2>1
  <2> QED
    BY <2>2, <2>3, <2>4, <2>5 DEF RunsAreExecuting
<1>4. ASSUME UNCHANGED <<request, kind>>,
             \A r \in Runs : status'[r] = "executing" => status[r] = "executing"
      PROVE  RunsAreExecuting'
  BY <1>4 DEF RunsAreExecuting
<1>5. ASSUME NEW r \in Runs, Call(r) PROVE RunsAreExecuting'
  <2>1. CASE CallDisposed(r)
    BY <1>1, <1>4, <2>1 DEF CallDisposed, SetStatus, execVars
  <2>2. ASSUME NEW k \in Kinds, Deny(r, k) \/ Misfit(r, k) PROVE RunsAreExecuting'
    BY <1>2, <2>2 DEF Deny, Misfit
  <2> QED
    BY <1>3, <1>5, <2>1, <2>2 DEF Call
<1>6. ASSUME NEW r \in Runs, Resume(r) PROVE RunsAreExecuting'
  BY <1>1, <1>4, <1>6 DEF Resume, ResumeOk, ResumeFailed, ResumeRejected, Resumes,
                          AutoSnapshot, SetStatus, execVars
<1>7. ASSUME NEW r \in Runs, Execute(r) PROVE RunsAreExecuting'
  BY <1>4, <1>7 DEF Execute, Succeed, Fail, Reject, Settle
<1>8. ASSUME NEW i \in 1..Len(snaps), SaveSettles(i) PROVE RunsAreExecuting'
  BY <1>1, <1>4, <1>8 DEF SaveSettles, SaveDone, SaveFails, Saved, SetStatus, execVars
<1>9. ASSUME \/ \E label \in {"client", "fork"} : Snapshot(label)
             \/ \E i \in 1..Len(snaps) : Restore(i)
             \/ ReplayStart \/ Replay \/ Dispose \/ UNCHANGED vars
      PROVE  RunsAreExecuting'
  BY <1>4, <1>9 DEF Snapshot, Restore, ReplayStart, Replay, ReplayRun, ReplayEnd, Dispose,
                    vars, execVars
<1> QED
  BY <1>5, <1>6, <1>7, <1>8, <1>9 DEF Next

\* A run is recorded, and its snapshot, if it has one, is its own.
LEMMA LogsAwait ==
  ASSUME WaitInv, NEW r \in Runs, NEW s \in {"ok", "failed", "saving", "rejected"},
         Logs(r, s)
  PROVE  AutosAreAwaited'
<1> DEFINE n == Len(runLog)
           m == Len(snaps)
<1>1. /\ runLog \in Seq(Records) /\ snaps \in Seq(Snapshots) /\ status \in [Runs -> Statuses]
      /\ AutosAreOfSuccesses /\ AutosAreAwaited /\ n \in Nat /\ m \in Nat
  BY LenProperties DEF WaitInv, LogInv, HistoryInv, TypeOK
<1>2. PICK rec \in Records : rec.run = r /\ runLog' = Append(runLog, rec)
  BY DEF Logs
<1>3. runLog'[n + 1] = rec /\ \A i \in 1..n : runLog'[i] = runLog[i]
  BY <1>1, <1>2, AppendProperties
<1>4. /\ status[r] \in {"idle", "executing"} /\ status'[r] = s
      /\ \A q \in Runs : q # r => status'[q] = status[q]
  BY <1>1 DEF Logs
<1>5. \A i \in 1..m : snaps[i].label = "auto" =>
         /\ snaps[i].runCount \in 1..n /\ runLog'[snaps[i].runCount] = runLog[snaps[i].runCount]
         /\ runLog[snaps[i].runCount].run \in Runs
  <2>1. \A i \in 1..n : runLog[i].run \in Runs
    <3>1. \A i \in 1..n : runLog[i] \in Records
      BY <1>1, ElementOfSeq
    <3> QED
      BY <3>1 DEF Records
  <2> QED
    BY <1>1, <1>3, <2>1 DEF AutosAreOfSuccesses
<1>6. CASE snaps' = snaps /\ s # "saving"
  <2>1. \A i \in 1..m : snaps[i].label = "auto" => Awaiting(i)' = Awaiting(i)
    BY <1>5, <1>6 DEF Awaiting
  <2>2. \A i \in 1..m : snaps[i].label = "auto" /\ snaps[i].saved = "saving" =>
           status'[Awaiting(i)] = "saving"
    BY <1>1, <1>4, <1>5 DEF AutosAreAwaited, Awaiting
  <2>3. \A q \in Runs : status'[q] = "saving" => status[q] = "saving"
    BY <1>4, <1>6
  <2> QED
    BY <1>1, <1>6, <2>1, <2>2, <2>3 DEF AutosAreAwaited
<1>7. ASSUME s = "saving", NEW snap \in Snapshots, snap.label = "auto",
             snap.runCount = n + 1, snap.saved = "saving", snaps' = Append(snaps, snap)
      PROVE  AutosAreAwaited'
  <2>1. /\ Len(snaps') = m + 1 /\ snaps'[m + 1] = snap
        /\ \A i \in 1..m : snaps'[i] = snaps[i]
    BY <1>1, <1>7, AppendProperties
  <2>2. \A i \in 1..(m + 1) : i = m + 1 => Awaiting(i)' = r
    BY <1>2, <1>3, <1>7, <2>1 DEF Awaiting
  <2>3. \A i \in 1..m : snaps[i].label = "auto" => Awaiting(i)' = Awaiting(i)
    BY <1>5, <2>1 DEF Awaiting
  <2>4. \A i \in 1..m : snaps[i].label = "auto" /\ snaps[i].saved = "saving" =>
           status'[Awaiting(i)] = "saving"
    BY <1>1, <1>4, <1>5 DEF AutosAreAwaited, Awaiting
  <2>5. \A i \in 1..(m + 1) : i = m + 1 \/ i \in 1..m
    BY <1>1
  <2>6. m + 1 \in 1..(m + 1) /\ \A i \in 1..m : i \in 1..(m + 1)
    BY <1>1
  <2>7. \A i \in 1..m : snaps[i].label = "auto" => snaps[i].runCount # n + 1
    BY <1>1, <1>5
  <2>8. \A i, j \in 1..(m + 1) :
           /\ snaps'[i].label = "auto" /\ snaps'[j].label = "auto"
           /\ snaps'[i].runCount = snaps'[j].runCount
           => i = j
    BY <1>1, <1>7, <2>1, <2>5, <2>7 DEF AutosAreAwaited
  <2>9. \A i \in 1..(m + 1) : snaps'[i].label = "auto" /\ snaps'[i].saved = "saving" =>
           status'[Awaiting(i)'] = "saving"
    BY <1>4, <1>7, <2>1, <2>2, <2>3, <2>4, <2>5
  <2>10. ASSUME NEW q \in Runs, status'[q] = "saving"
         PROVE  \E i \in 1..(m + 1) :
                   snaps'[i].label = "auto" /\ snaps'[i].saved = "saving" /\ Awaiting(i)' = q
    <3>1. CASE q = r
      BY <1>7, <2>1, <2>2, <2>6, <3>1
    <3>2. CASE q # r
      <4>1. PICK i \in 1..m : snaps[i].label = "auto" /\ snaps[i].saved = "saving"
                              /\ Awaiting(i) = q
        BY <1>1, <1>4, <2>10, <3>2 DEF AutosAreAwaited
      <4> QED
        BY <2>1, <2>3, <2>6, <4>1
    <3> QED
      BY <3>1, <3>2
  <2> HIDE DEF m, n
  <2> QED
    BY <2>1, <2>8, <2>9, <2>10 DEF AutosAreAwaited
<1> QED
  BY <1>6, <1>7 DEF Logs

\* A save that settles lets the run go that awaited it, and no other.
LEMMA SavesAwait ==
  ASSUME WaitInv, NEW i \in 1..Len(snaps), SaveSettles(i)
  PROVE  /\ AutosAreAwaited'
         /\ \A r \in Runs : \/ status'[r] = status[r]
                            \/ status[r] = "saving" /\ status'[r] \in {"ok", "rejected"}
<1>1. /\ runLog \in Seq(Records) /\ snaps \in Seq(Snapshots) /\ status \in [Runs -> Statuses]
      /\ AutosAreOfSuccesses /\ AutosAreAwaited /\ LogMatchesCalls
  BY DEF WaitInv, LogInv, HistoryInv, TypeOK
<1>2. PICK how \in {"stored", "lost"} :
         /\ Saved(i, how)
         /\ IF snaps[i].label = "auto"
            THEN SetStatus(Awaiting(i), IF how = "stored" THEN "ok" ELSE "rejected")
            ELSE UNCHANGED status
  BY DEF SaveSettles, SaveDone, SaveFails
<1>3. runLog' = runLog /\ Len(snaps) \in Nat /\ snaps[i].saved = "saving"
  BY <1>1, <1>2, LenProperties DEF Saved
<1>4. /\ Len(snaps') = Len(snaps)
      /\ \A j \in 1..Len(snaps) : /\ snaps'[j].label = snaps[j].label
                                  /\ snaps'[j].runCount = snaps[j].runCount
      /\ \A j \in 1..Len(snaps) : j # i => snaps'[j] = snaps[j]
      /\ snaps'[i].saved = how
  <2> DEFINE new == [snaps[i] EXCEPT !.saved = how]
  <2>1. snaps[i] \in Snapshots
    BY <1>1, ElementOfSeq
  <2>2. /\ new \in Snapshots /\ new.saved = how
        /\ new.label = snaps[i].label /\ new.runCount = snaps[i].runCount
    BY <2>1 DEF Snapshots
  <2>3. snaps' = [snaps EXCEPT ![i] = new]
    BY <1>2 DEF Saved
  <2> HIDE DEF new
  <2>4. /\ Len(snaps') = Len(snaps)
        /\ \A j \in 1..Len(snaps) : snaps'[j] = IF j = i THEN new ELSE snaps[j]
    BY <1>1, <2>2, <2>3, ExceptSeq
  <2> QED
    BY <2>2, <2>4
<1>5. \A j \in 1..Len(snaps) : Awaiting(j)' = Awaiting(j)
  BY <1>3, <1>4 DEF Awaiting
<1>6. CASE snaps[i].label # "auto"
  <2>1. status' = status
    BY <1>2, <1>6
  <2>2. \A j \in 1..Len(snaps) : snaps[j].label = "auto" => snaps'[j] = snaps[j]
    BY <1>4, <1>6
  <2>3. \A j \in 1..Len(snaps) : snaps'[j].label = "auto" => snaps'[j] = snaps[j]
    BY <1>4, <1>6
  <2>4. AutosAreAwaited'
    BY SMTT(30), <1>1, <1>4, <1>5, <2>1, <2>2, <2>3 DEF AutosAreAwaited
  <2> QED
    BY <2>1, <2>4
<1>7. CASE snaps[i].label = "auto"
  <2> DEFINE r == Awaiting(i)
  <2>1. snaps[i].runCount \in 1..Len(runLog) /\ status[r] = "saving"
    BY <1>1, <1>3, <1>7 DEF AutosAreOfSuccesses, AutosAreAwaited
  <2>2. r \in Runs
    <3>1. runLog[snaps[i].runCount] \in Records
      BY <1>1, <2>1, ElementOfSeq
    <3> QED
      BY <3>1 DEF Records, Awaiting
  <2>3. /\ status'[r] \in {"ok", "rejected"}
        /\ \A q \in Runs : q # r => status'[q] = status[q]
    BY <1>1, <1>2, <1>7, <2>2 DEF SetStatus
  <2>4. ASSUME NEW j \in 1..Len(snaps), snaps[j].label = "auto", j # i
        PROVE  Awaiting(j) \in Runs /\ Awaiting(j) # r
    <3>1. snaps[j].runCount \in 1..Len(runLog) /\ snaps[j].runCount # snaps[i].runCount
      BY <1>1, <1>7, <2>4 DEF AutosAreOfSuccesses, AutosAreAwaited
    <3>2. runLog[snaps[j].runCount] \in Records
      BY <1>1, <3>1, ElementOfSeq
    <3> QED
      BY <1>1, <2>1, <3>1, <3>2 DEF LogMatchesCalls, Awaiting, Records
  <2> HIDE DEF r
  <2>5. \A j \in 1..Len(snaps) : snaps'[j].label = "auto" /\ snaps'[j].saved = "saving" =>
           status'[Awaiting(j)'] = "saving"
    <3> SUFFICES ASSUME NEW j \in 1..Len(snaps), snaps'[j].label = "auto",
                        snaps'[j].saved = "saving"
                 PROVE  status'[Awaiting(j)'] = "saving"
      OBVIOUS
    <3>1. j # i
      BY <1>4
    <3>2. snaps[j].label = "auto" /\ snaps[j].saved = "saving"
      BY <1>4, <3>1
    <3>3. status[Awaiting(j)] = "saving"
      BY <1>1, <3>2 DEF AutosAreAwaited
    <3> QED
      BY <1>5, <2>3, <2>4, <3>1, <3>2, <3>3
  <2>6. ASSUME NEW q \in Runs, status'[q] = "saving"
        PROVE  \E j \in 1..Len(snaps) :
                  snaps'[j].label = "auto" /\ snaps'[j].saved = "saving" /\ Awaiting(j)' = q
    <3>1. q # r /\ status[q] = "saving"
      BY <2>3, <2>6
    <3>2. PICK j \in 1..Len(snaps) : snaps[j].label = "auto" /\ snaps[j].saved = "saving"
                                     /\ Awaiting(j) = q
      BY <1>1, <3>1 DEF AutosAreAwaited
    <3>3. j # i
      BY <3>1, <3>2 DEF r
    <3> QED
      BY <1>4, <1>5, <3>2, <3>3
  <2>7. \A j, k \in 1..Len(snaps) :
           /\ snaps'[j].label = "auto" /\ snaps'[k].label = "auto"
           /\ snaps'[j].runCount = snaps'[k].runCount
           => j = k
    BY <1>1, <1>4 DEF AutosAreAwaited
  <2>8. AutosAreAwaited'
    BY <1>4, <2>5, <2>6, <2>7 DEF AutosAreAwaited
  <2> QED
    BY <2>1, <2>2, <2>3, <2>8
<1> QED
  BY <1>6, <1>7

\* The other steps leave to wait who waited.
LEMMA OthersAwait ==
  ASSUME WaitInv, LogsNothing \/ \E label \in {"client", "fork"} : Snapshot(label)
  PROVE  AutosAreAwaited'
<1>1. /\ TypeOK /\ runLog \in Seq(Records) /\ snaps \in Seq(Snapshots)
      /\ status \in [Runs -> Statuses] /\ AutosAreOfSuccesses /\ AutosAreAwaited
  BY DEF WaitInv, LogInv, HistoryInv, TypeOK
<1>2. runLog' = runLog
  BY DEF LogsNothing, Snapshot
<1>3. \A r \in Runs :
         \/ status'[r] = status[r]
         \/ status[r] \in {"idle", "executing"} /\ status'[r] # "saving"
  BY DEF LogsNothing, Snapshot
<1> DEFINE Longer ==
             /\ \A j \in 1..Len(snaps) : j \in 1..Len(snaps') /\ snaps'[j] = snaps[j]
             /\ \A j \in 1..Len(snaps') :
                   snaps'[j].label = "auto" => j \in 1..Len(snaps)
<1>4. Longer
  <2>1. CASE snaps' = snaps
    BY <2>1
  <2>2. ASSUME NEW label \in {"client", "fork"}, Snapshot(label)
        PROVE  Longer
    <3> DEFINE snap == [label |-> label, runCount |-> Len(runLog),
                        state |-> state, saved |-> "saving"]
    <3>1. snap \in Snapshots /\ snap.label # "auto"
      BY <1>1, LenProperties DEF Snapshots, TypeOK
    <3>2. snaps' = Append(snaps, snap)
      BY <2>2 DEF Snapshot, Capture
    <3> HIDE DEF snap
    <3> QED
      BY <1>1, <3>1, <3>2, AppendProperties, LenProperties
  <2> QED
    BY <2>1, <2>2 DEF LogsNothing
<1>5. \A j \in 1..Len(snaps) : Awaiting(j)' = Awaiting(j)
  BY <1>2, <1>4 DEF Awaiting
<1>6. \A j \in 1..Len(snaps) : snaps[j].label = "auto" => Awaiting(j) \in Runs
  <2>1. \A n \in 1..Len(runLog) : runLog[n] \in Records
    BY <1>1, ElementOfSeq
  <2> QED
    BY <1>1, <2>1 DEF AutosAreOfSuccesses, Awaiting, Records
<1>7. \A j \in 1..Len(snaps') : snaps'[j].label = "auto" /\ snaps'[j].saved = "saving" =>
         status'[Awaiting(j)'] = "saving"
  <2> SUFFICES ASSUME NEW j \in 1..Len(snaps'), snaps'[j].label = "auto",
                      snaps'[j].saved = "saving"
               PROVE  status'[Awaiting(j)'] = "saving"
    OBVIOUS
  <2>1. j \in 1..Len(snaps) /\ snaps[j].label = "auto" /\ snaps[j].saved = "saving"
    BY <1>4
  <2>2. status[Awaiting(j)] = "saving" /\ Awaiting(j) \in Runs
    BY <1>1, <1>6, <2>1 DEF AutosAreAwaited
  <2> QED
    BY <1>3, <1>5, <2>1, <2>2
<1>8. \A r \in Runs : status'[r] = "saving" =>
         \E i \in 1..Len(snaps') :
            snaps'[i].label = "auto" /\ snaps'[i].saved = "saving" /\ Awaiting(i)' = r
  BY <1>1, <1>3, <1>4, <1>5 DEF AutosAreAwaited
<1>9. \A i, j \in 1..Len(snaps') :
          /\ snaps'[i].label = "auto" /\ snaps'[j].label = "auto"
          /\ snaps'[i].runCount = snaps'[j].runCount
          => i = j
  BY <1>1, <1>4 DEF AutosAreAwaited
<1> QED
  BY <1>7, <1>8, <1>9 DEF AutosAreAwaited

LEMMA WaitStep == WaitInv /\ [Next]_vars => WaitInv'
<1> SUFFICES ASSUME WaitInv, [Next]_vars PROVE WaitInv'
  OBVIOUS
<1>1. TypeOK /\ LogInv'
  BY LogStep DEF WaitInv, LogInv, HistoryInv
<1>2. RunsAreExecuting'
  BY <1>1, ExecutingStep DEF WaitInv
<1>3. AutosAreAwaited'
  BY <1>1, LogShapes, LogsAwait, SavesAwait, OthersAwait
<1> QED
  BY <1>1, <1>2, <1>3 DEF WaitInv

\* Runs and the saves they await agree at every step: the inductive invariant.
THEOREM WaitInvariant == Spec => []WaitInv
  BY WaitInit, WaitStep, PTL DEF Spec

\* No run waits for what nothing will bring: the executor has its code or has
\* answered, or the save of its own snapshot is under way.
WaitsForSomething ==
    \A r \in Runs :
        /\ status[r] = "executing" =>
              \/ Running(r) /\ (Completes(kind[r]) \/ Breaks(kind[r]))
              \/ outcome[r].kind \in {"ok", "failed", "rejected"}
        /\ status[r] = "saving" =>
              \E i \in 1..Len(snaps) : snaps[i].saved = "saving" /\ snaps[i].label = "auto"
                                       /\ Awaiting(i) = r

\* However calls overlap and saves fail, a run() in flight waits for the executor,
\* which has it, or for a save that is under way and settles it: with the fairness
\* of EveryRunSettles there is always a step that takes it on.  (The awaits of run()
\* and maybeAutoSnapshot().)
THEOREM NoRunWaitsInVain == Spec => []WaitsForSomething
<1>1. WaitInv => WaitsForSomething
  <2> SUFFICES ASSUME WaitInv, NEW r \in Runs
               PROVE  /\ status[r] = "executing" =>
                            \/ Running(r) /\ (Completes(kind[r]) \/ Breaks(kind[r]))
                            \/ outcome[r].kind \in {"ok", "failed", "rejected"}
                      /\ status[r] = "saving" =>
                            \E i \in 1..Len(snaps) :
                               /\ snaps[i].saved = "saving" /\ snaps[i].label = "auto"
                               /\ Awaiting(i) = r
    BY DEF WaitsForSomething
  <2>1. outcome[r].kind \in {"none", "ok", "failed", "rejected"}
    BY DEF WaitInv, LogInv, HistoryInv, TypeOK, ExecTypeOK, Outcomes
  <2> QED
    BY <2>1 DEF WaitInv, RunsAreExecuting, AutosAreAwaited, Running
<1> QED
  BY <1>1, WaitInvariant, PTL

\* A call goes forward: from its executor to its snapshot or to its end, and from its
\* end nowhere.
GoesForward(r) ==
    \/ status'[r] = status[r]
    \/ status[r] = "idle"
    \/ status[r] = "executing" /\ status'[r] \in {"saving", "ok", "failed", "rejected"}
    \/ status[r] = "saving" /\ status'[r] \in {"ok", "rejected"}

\* No answer is changed after it was given: a save that settles late touches the run
\* that awaits it and none that has settled, and no run takes more than two steps from
\* its call to its end.  (run(), and the await of store.save().)
THEOREM CallsGoForward == Spec => [][\A r \in Runs : GoesForward(r)]_vars
<1>1. WaitInv /\ [Next]_vars => [\A r \in Runs : GoesForward(r)]_vars
  <2> SUFFICES ASSUME WaitInv, Next, NEW r \in Runs PROVE GoesForward(r)
    OBVIOUS
  <2>1. TypeOK /\ status \in [Runs -> Statuses]
    BY DEF WaitInv, LogInv, HistoryInv, TypeOK
  <2>2. CASE LogsNothing
    <3>1. status'[r] = "executing" => status[r] \in {"idle", "executing"}
      BY <2>2 DEF LogsNothing
    <3>2. status[r] = "executing" => status'[r] # "refused"
      BY <2>1 DEF Next, Call, CallDisposed, Deny, Misfit, Start, Enter, Resume, ResumeOk,
             ResumeFailed, ResumeRejected, Resumes, AutoSnapshot, Execute, Snapshot,
             SaveSettles, SaveDone, SaveFails, Saved, Restore, ReplayStart, Replay,
             ReplayRun, ReplayEnd, Dispose, SetStatus
    <3> QED
      BY <2>2, <3>1, <3>2 DEF LogsNothing, GoesForward
  <2>3. ASSUME NEW q \in Runs, NEW s \in {"ok", "failed", "saving", "rejected"}, Logs(q, s)
        PROVE  GoesForward(r)
    BY <2>1, <2>3 DEF Logs, GoesForward
  <2>4. ASSUME NEW label \in {"client", "fork"}, Snapshot(label) PROVE GoesForward(r)
    BY <2>4 DEF Snapshot, GoesForward
  <2>5. ASSUME NEW i \in 1..Len(snaps), SaveSettles(i) PROVE GoesForward(r)
    BY <2>5, SavesAwait DEF GoesForward
  <2> QED
    BY <2>1, <2>2, <2>3, <2>4, <2>5, LogShapes
<1> QED
  BY <1>1, WaitInvariant, PTL DEF Spec
-----------------------------------------------------------------------------
(* Where the promise of run() does keep what its comment says.               *)

\* The executor does not throw, no snapshot is taken unasked, and the code's
\* estimate of its memory is a number.
NothingThrows == ~MayThrow /\ Cadence = 0 /\ "unfit" \notin Kinds

ReturnsInv ==
    /\ TypeOK /\ NothingThrows /\ RunNeverThrows
    /\ \A r \in Runs : outcome[r].kind # "rejected"
    /\ \A i \in 1..Len(snaps) : snaps[i].label # "auto"

LEMMA ReturnsStep == ReturnsInv /\ [Next]_vars => ReturnsInv'
<1> SUFFICES ASSUME ReturnsInv, [Next]_vars PROVE ReturnsInv'
  OBVIOUS
<1>1. /\ TypeOK' /\ status \in [Runs -> Statuses] /\ snaps \in Seq(Snapshots)
      /\ outcome \in [Runs -> Outcomes]
  BY TypeStep DEF ReturnsInv, TypeOK, ExecTypeOK
<1>2. \A n : ~Due(n)
  BY DEF ReturnsInv, NothingThrows, Due
<1> DEFINE Rest == /\ \A r \in Runs : status[r] # "rejected" /\ outcome[r].kind # "rejected"
                   /\ \A i \in 1..Len(snaps) : snaps[i].label # "auto"
<1>3. Rest
  BY DEF ReturnsInv, RunNeverThrows
<1>4. ASSUME UNCHANGED <<execVars, snaps>>, NEW r \in Runs, NEW s, s # "rejected",
             SetStatus(r, s)
      PROVE  Rest'
  BY <1>1, <1>3, <1>4 DEF SetStatus, execVars
<1>5. ASSUME NEW r \in Runs, Call(r) PROVE Rest'
  <2>1. CASE CallDisposed(r)
    BY <1>4, <2>1 DEF CallDisposed
  <2>2. ASSUME NEW k \in Kinds, Deny(r, k) PROVE Rest'
    BY <1>4, <2>2 DEF Deny, Enter
  <2>3. ASSUME NEW k \in Kinds PROVE ~Misfit(r, k)
    BY DEF Misfit, ReturnsInv, NothingThrows
  <2>4. ASSUME NEW k \in Kinds, Start(r, k) PROVE Rest'
    BY <1>1, <1>3, <2>4 DEF Start, Enter, Submit, SetStatus
  <2> QED
    BY <1>5, <2>1, <2>2, <2>3, <2>4 DEF Call
<1>6. ASSUME NEW r \in Runs, Execute(r) PROVE Rest'
  <2>1. PICK o : Settle(r, o) /\ o.kind # "rejected"
    BY <1>6 DEF Execute, Succeed, Fail, Reject, Success, Failure, ReturnsInv, NothingThrows
  <2>2. UNCHANGED <<status, snaps>>
    BY <1>6 DEF Execute
  <2> QED
    BY <1>1, <1>3, <2>1, <2>2 DEF Settle
<1>7. ASSUME NEW r \in Runs, Resume(r) PROVE Rest'
  <2>1. CASE ResumeOk(r)
    BY <1>2, <1>4, <2>1 DEF ResumeOk, Resumes, AutoSnapshot
  <2>2. CASE ResumeFailed(r)
    BY <1>4, <2>2 DEF ResumeFailed, Resumes
  <2>3. ~ResumeRejected(r)
    BY <1>3 DEF ResumeRejected, Resumes
  <2> QED
    BY <1>7, <2>1, <2>2, <2>3 DEF Resume
<1>8. ASSUME NEW label \in {"client", "fork"}, Snapshot(label) PROVE Rest'
  <2> DEFINE snap == [label |-> label, runCount |-> Len(runLog),
                      state |-> state, saved |-> "saving"]
  <2>1. snap \in Snapshots /\ snap.label # "auto"
    BY LenProperties DEF Snapshots, TypeOK, ReturnsInv
  <2>2. snaps' = Append(snaps, snap) /\ UNCHANGED <<status, outcome>>
    BY <1>8 DEF Snapshot, Capture, execVars
  <2> HIDE DEF snap
  <2> QED
    BY <1>1, <1>3, <2>1, <2>2, AppendProperties, LenProperties
<1>9. ASSUME NEW i \in 1..Len(snaps), SaveSettles(i) PROVE Rest'
  <2>1. PICK how \in {"stored", "lost"} : snaps' = [snaps EXCEPT ![i].saved = how]
    BY <1>9 DEF SaveSettles, SaveDone, SaveFails, Saved
  <2>2. UNCHANGED <<status, outcome>>
    BY <1>3, <1>9 DEF SaveSettles, SaveDone, SaveFails, Saved, execVars
  <2> DEFINE new == [snaps[i] EXCEPT !.saved = how]
  <2>3. snaps[i] \in Snapshots
    BY <1>1, ElementOfSeq
  <2>4. new \in Snapshots /\ new.label = snaps[i].label
    BY <2>3 DEF Snapshots
  <2>5. snaps' = [snaps EXCEPT ![i] = new]
    BY <2>1
  <2> HIDE DEF new
  <2>6. /\ Len(snaps') = Len(snaps)
        /\ \A j \in 1..Len(snaps) : snaps'[j] = IF j = i THEN new ELSE snaps[j]
    BY <1>1, <2>4, <2>5, ExceptSeq
  <2> QED
    BY <1>3, <2>2, <2>4, <2>6
<1>10. ASSUME \/ \E i \in 1..Len(snaps) : Restore(i)
              \/ ReplayStart \/ Replay \/ Dispose \/ UNCHANGED vars
       PROVE  Rest'
  BY <1>3, <1>10 DEF Restore, ReplayStart, Replay, ReplayRun, ReplayEnd, Dispose, vars, execVars
<1>11. Rest'
  <2> HIDE DEF Rest
  <2> QED BY <1>5, <1>6, <1>7, <1>8, <1>9, <1>10 DEF Next
<1> QED
  BY <1>1, <1>11 DEF ReturnsInv, RunNeverThrows, NothingThrows

\* "Failures are returned as ok: false results, never thrown" is true of a sandbox
\* that takes no auto snapshots, on an executor whose promise does not reject, for code
\* whose memory estimate is a number: whatever else guests do, saves that fail and a
\* dispose() in flight included.  (The comment of
\* run(); sandbox_throws shows the same with a snapshot due at every run.)
THEOREM RunsReturnWithoutCadence == NothingThrows => (Spec => []RunNeverThrows)
<1> SUFFICES ASSUME NothingThrows PROVE Spec => []RunNeverThrows
  OBVIOUS
<1>1. Init => ReturnsInv
  <2> SUFFICES ASSUME Init PROVE ReturnsInv
    OBVIOUS
  <2>1. Len(snaps) = 0 /\ \A r \in Runs : status[r] = "idle" /\ outcome[r].kind = "none"
    BY DEF Init, ExecInit, NoOutcome
  <2> QED
    BY <2>1, TypeInit DEF ReturnsInv, RunNeverThrows
<1>2. ReturnsInv => RunNeverThrows
  BY DEF ReturnsInv
<1> QED
  BY <1>1, <1>2, ReturnsStep, PTL DEF Spec
=============================================================================
