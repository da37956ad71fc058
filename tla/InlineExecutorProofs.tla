------------------------ MODULE InlineExecutorProofs ------------------------
(***************************************************************************)
(* InlineExecutor without retries implements the steps of Executor, for      *)
(* every value of its constants; with them, a success has every mutation at  *)
(* least once.  That every run settles is left to TLC.                      *)
(***************************************************************************)
EXTENDS InlineExecutor, GuestStateProofs, FiniteSetTheorems

\* Of a run that is not retried: it makes at most one attempt, whose mutations
\* are all that its state object has seen, and a promise that resolved is that of
\* a guest that completed.
SingleOK(r) ==
    /\ phase[r] = "idle" => ~request[r].made /\ attempts[r] = <<>>
    /\ phase[r] # "idle" => request[r].made /\ request[r].state \in States
    /\ phase[r] = "warming" => attempts[r] = <<>> /\ object[r] = request[r].state
    /\ phase[r] \in {"trying", "ok"} => Len(attempts[r]) = 1
    /\ phase[r] = "ok" => attempts[r][1].promise = "resolved"
    /\ attempts[r] # <<>> =>
        /\ Len(attempts[r]) = 1
        /\ phase[r] # "idle"
        /\ object[r] = Partly(request[r].state, r, attempts[r][1].pos)
        /\ attempts[r][1].promise = "resolved" =>
            attempts[r][1].guest = "ended" /\ attempts[r][1].pos = Steps

InlineInv ==
    /\ DOMAIN request = Runs /\ DOMAIN phase = Runs
    /\ DOMAIN object = Runs /\ DOMAIN attempts = Runs
    /\ \A r \in Runs : attempts[r] \in Seq(Attempts)
    /\ \A r \in Runs : phase[r] = "trying" => Len(attempts[r]) > 0
    /\ \A r \in SingleShot : SingleOK(r)

LEMMA InlineInit == Init => InlineInv
  BY EmptySeq
  DEF Init, InlineInv, SingleOK, SingleShot, Abstract!NoRequest

\* What the rest of the page sees of r.
Shown(r) ==
    CASE phase[r] = "ok"     -> [kind |-> "ok", state |-> object[r]]
      [] phase[r] = "failed" -> [kind |-> "failed", state |-> <<>>]
      [] OTHER               -> [kind |-> "none", state |-> <<>>]
Asks == [r \in SingleShot |-> request[r]]
Answers == [r \in SingleShot |-> Shown(r)]

AbstractStep == Abstract!ExecNext \/ UNCHANGED <<Asks, Answers>>

\* A step of r leaves the other runs as they are.
OnlyOf(r) ==
    /\ DOMAIN request' = Runs /\ DOMAIN phase' = Runs
    /\ DOMAIN object' = Runs /\ DOMAIN attempts' = Runs
    /\ attempts'[r] \in Seq(Attempts)
    /\ phase'[r] = "trying" => Len(attempts'[r]) > 0
    /\ \A q \in Runs : q # r =>
        /\ request'[q] = request[q] /\ phase'[q] = phase[q]
        /\ object'[q] = object[q] /\ attempts'[q] = attempts[q]

LEMMA OthersKeep ==
    ASSUME InlineInv, NEW r \in Runs, OnlyOf(r), r \in SingleShot => SingleOK(r)'
    PROVE  InlineInv'
<1>1. \A q \in Runs : /\ attempts'[q] \in Seq(Attempts)
                     /\ phase'[q] = "trying" => Len(attempts'[q]) > 0
  BY DEF InlineInv, OnlyOf
<1>2. ASSUME NEW q \in SingleShot PROVE SingleOK(q)'
  <2>1. q \in Runs /\ SingleOK(q)
    BY DEF InlineInv, SingleShot
  <2> QED
    BY <2>1 DEF OnlyOf, SingleOK
<1> QED
  BY <1>1, <1>2 DEF InlineInv, OnlyOf

\* Nothing that the abstract executor shows has changed.
LEMMA Stutters ==
    ASSUME InlineInv, NEW r \in Runs, OnlyOf(r),
           r \in SingleShot => request'[r] = request[r] /\ Shown(r)' = Shown(r)
    PROVE  AbstractStep
<1>1. \A q \in SingleShot : request'[q] = request[q] /\ Shown(q)' = Shown(q)
  BY DEF OnlyOf, Shown, SingleShot
<1>2. Asks' = Asks /\ Answers' = Answers
  BY <1>1 DEF Asks, Answers
<1> QED
  BY <1>2 DEF AbstractStep

\* A run settles: what is shown of it was nothing and is now o.
LEMMA SettlesShown ==
    ASSUME InlineInv, NEW r \in SingleShot, OnlyOf(r), request'[r] = request[r],
           phase[r] \in {"warming", "trying"}, Shown(r)' = [kind |-> "failed", state |-> <<>>]
             \/ Shown(r)' = [kind |-> "ok", state |-> Effect(request[r].state, r)]
    PROVE  AbstractStep
<1>1. \A q \in SingleShot : request'[q] = request[q] /\ (q # r => Shown(q)' = Shown(q))
  BY DEF OnlyOf, Shown, SingleShot
<1>2. Asks' = Asks /\ Answers' = [Answers EXCEPT ![r] = Shown(r)']
  BY <1>1 DEF Asks, Answers
<1>3. Shown(r).kind = "none" /\ request[r].made
  BY DEF Shown, InlineInv, SingleOK
<1>4. Abstract!Running(r)
  BY <1>3 DEF Abstract!Running, Shown
<1>5. Abstract!Fail(r) \/ Abstract!Succeed(r)
  BY <1>2, <1>4
  DEF Abstract!Fail, Abstract!Succeed, Abstract!Settle, Abstract!Failure, Abstract!Success,
      Abstract!Effect, Abstract!GuestMarks, Effect, GuestMarks, Abstract!EmptyState,
      Asks, Answers, Shown
<1> QED
  BY <1>5 DEF AbstractStep, Abstract!ExecNext, Abstract!Complete
-----------------------------------------------------------------------------
(* execute() and invoke().                                                  *)

LEMMA ExecuteStep ==
    ASSUME InlineInv, NEW r \in Runs, NEW s \in {InitialState}, Execute(r, s)
    PROVE  InlineInv' /\ AbstractStep
<1> DEFINE asked == [made |-> TRUE, state |-> s]
<1>1. /\ phase[r] = "idle" /\ request' = [request EXCEPT ![r] = asked]
      /\ phase' = [phase EXCEPT ![r] = "warming"] /\ object' = [object EXCEPT ![r] = s]
      /\ UNCHANGED attempts
  BY DEF Execute, SetPhase, Abstract!Request
<1>2. OnlyOf(r) /\ phase'[r] = "warming" /\ object'[r] = s /\ request'[r] = asked
  BY <1>1 DEF InlineInv, OnlyOf
<1>3. r \in SingleShot => SingleOK(r)'
  BY <1>1, <1>2, InitialIsState DEF InlineInv, SingleOK
<1>4. CASE r \notin SingleShot
  BY <1>2, <1>3, <1>4, OthersKeep, Stutters
<1>5. CASE r \in SingleShot
  <2>1. \A q \in SingleShot : Shown(q)' = Shown(q)
    BY <1>1, <1>2 DEF OnlyOf, Shown, SingleShot
  <2>2. \A q \in SingleShot : request'[q] = IF q = r THEN asked ELSE request[q]
    BY <1>2 DEF OnlyOf, SingleShot
  <2>3. Asks' = [Asks EXCEPT ![r] = asked] /\ Answers' = Answers
    BY <1>5, <2>1, <2>2 DEF Asks, Answers
  <2>4. ~Asks[r].made /\ Asks'[r] = asked
    BY <1>1, <1>5, <2>2 DEF Asks, InlineInv, SingleOK
  <2>5. s \in Abstract!States
    <3>1. <<Seed, 0>> \in Abstract!Marks
      BY StepsAssumption DEF Abstract!Marks
    <3> QED
      BY <3>1 DEF Abstract!States, InitialState
  <2>6. Asks'[r].state = s
    BY <2>4
  <2>7. Abstract!SubmitSome(r)
    BY <1>5, <2>3, <2>4, <2>5, <2>6
    DEF Abstract!SubmitSome, Abstract!Submit, Abstract!Request, Asks, Answers, Shown
  <2>8. AbstractStep
    BY <1>5, <2>7 DEF AbstractStep, Abstract!ExecNext
  <2> QED
    BY <1>2, <1>3, <2>8, OthersKeep
<1> QED
  BY <1>2, <1>3, <1>4, <1>5, OthersKeep

LEMMA InvokerStep ==
    ASSUME InlineInv, NEW r \in Runs, Invoker(r)
    PROVE  InlineInv' /\ AbstractStep
<1>len. Len(attempts[r]) \in Nat /\ attempts[r] \in Seq(Attempts)
  BY DEF InlineInv
<1>single. r \in SingleShot => SingleOK(r) /\ RetryCount[r] = 0
  BY DEF InlineInv, SingleShot
<1>1. CASE Begin(r)
  <2>1. <<NewAttempt>> \in Seq(Attempts) /\ Len(<<NewAttempt>>) = 1
        /\ <<NewAttempt>>[1].pos = 0 /\ <<NewAttempt>>[1].promise = "pending"
    BY StepsAssumption DEF NewAttempt, Attempts
  <2>2. /\ phase[r] = "warming" /\ phase' = [phase EXCEPT ![r] = "trying"]
        /\ attempts' = [attempts EXCEPT ![r] = <<NewAttempt>>]
        /\ UNCHANGED <<request, object>>
    BY <1>1 DEF Begin, SetPhase
  <2>3. OnlyOf(r) /\ phase'[r] = "trying" /\ attempts'[r] = <<NewAttempt>>
    BY <2>1, <2>2 DEF InlineInv, OnlyOf
  <2>4. r \in SingleShot => SingleOK(r)'
    BY <1>single, <2>1, <2>2, <2>3, PartlyBounds DEF SingleOK
  <2>5. request'[r] = request[r] /\ Shown(r)' = Shown(r)
    BY <2>2, <2>3 DEF Shown
  <2> QED
    BY <2>3, <2>4, <2>5, OthersKeep, Stutters
<1>2. CASE OverBudget(r)
  <2>1. /\ phase[r] = "warming" /\ phase' = [phase EXCEPT ![r] = "failed"]
        /\ UNCHANGED <<request, object, attempts>>
    BY <1>2 DEF OverBudget, SetPhase
  <2>2. OnlyOf(r) /\ phase'[r] = "failed"
    BY <1>len, <2>1 DEF InlineInv, OnlyOf
  <2>3. r \in SingleShot => SingleOK(r)'
    BY <1>single, <2>1, <2>2 DEF SingleOK
  <2>4. Shown(r)' = [kind |-> "failed", state |-> <<>>]
    BY <2>2 DEF Shown
  <2> QED
    BY <2>1, <2>2, <2>3, <2>4, OthersKeep, SettlesShown, Stutters
<1>3. CASE Return(r)
  <2>1. /\ phase[r] = "trying" /\ phase' = [phase EXCEPT ![r] = "ok"]
        /\ attempts[r][Len(attempts[r])].promise = "resolved"
        /\ UNCHANGED <<request, object, attempts>>
    BY <1>3 DEF Return, SetPhase, Last
  <2>2. OnlyOf(r) /\ phase'[r] = "ok"
    BY <1>len, <2>1 DEF InlineInv, OnlyOf
  <2>3. r \in SingleShot => SingleOK(r)'
    BY <1>single, <2>1, <2>2 DEF SingleOK
  <2>4. CASE r \in SingleShot
    <3>1. object[r] = Partly(request[r].state, r, Steps) /\ request[r].state \in States
      BY <1>len, <1>single, <2>1, <2>4 DEF SingleOK
    <3>2. Shown(r)' = [kind |-> "ok", state |-> Effect(request[r].state, r)]
      BY <2>1, <2>2, <3>1, PartlyBounds DEF Shown
    <3> QED
      BY <2>1, <2>2, <2>3, <2>4, <3>2, OthersKeep, SettlesShown
  <2>5. CASE r \notin SingleShot
    BY <2>2, <2>3, <2>5, OthersKeep, Stutters
  <2> QED
    BY <2>4, <2>5
<1>4. CASE Retry(r)
  <2>1. /\ phase[r] = "trying" /\ Len(attempts[r]) <= RetryCount[r]
        /\ attempts' = [attempts EXCEPT ![r] = Append(@, NewAttempt)]
        /\ UNCHANGED <<request, phase, object>>
    BY <1>4 DEF Retry
  <2>2. r \notin SingleShot
    <3>1. ASSUME r \in SingleShot PROVE FALSE
      <4>1. Len(attempts[r]) = 1
        BY <1>single, <2>1, <3>1 DEF SingleOK
      <4>2. RetryCount[r] = 0
        BY <1>single, <3>1
      <4> QED
        BY <2>1, <4>1, <4>2
    <3> QED
      BY <3>1
  <2>3. NewAttempt \in Attempts
    BY StepsAssumption DEF NewAttempt, Attempts
  <2>4. OnlyOf(r)
    BY <1>len, <2>1, <2>3 DEF InlineInv, OnlyOf
  <2> QED
    BY <2>2, <2>4, OthersKeep, Stutters
<1>5. CASE GiveUp(r)
  <2>1. /\ phase[r] = "trying" /\ phase' = [phase EXCEPT ![r] = "failed"]
        /\ UNCHANGED <<request, object, attempts>>
    BY <1>5 DEF GiveUp, SetPhase
  <2>2. OnlyOf(r) /\ phase'[r] = "failed"
    BY <1>len, <2>1 DEF InlineInv, OnlyOf
  <2>3. r \in SingleShot => SingleOK(r)'
    BY <1>single, <2>1, <2>2 DEF SingleOK
  <2>4. Shown(r)' = [kind |-> "failed", state |-> <<>>]
    BY <2>2 DEF Shown
  <2> QED
    BY <2>1, <2>2, <2>3, <2>4, OthersKeep, SettlesShown, Stutters
<1> QED
  BY <1>1, <1>2, <1>3, <1>4, <1>5 DEF Invoker
-----------------------------------------------------------------------------
(* Timers and guests: they change an attempt, and maybe its state object.   *)

\* Attempt i of r becomes a, and the object of r becomes o.
LEMMA AttemptStep ==
    ASSUME InlineInv, NEW r \in Runs, NEW i \in 1..Len(attempts[r]), NEW a \in Attempts, NEW o,
           attempts' = [attempts EXCEPT ![r][i] = a], UNCHANGED <<request, phase>>,
           DOMAIN object' = Runs, object'[r] = o, \A q \in Runs \ {r} : object'[q] = object[q],
           attempts[r][i].promise = "resolved" => a.promise = "resolved",
           r \in SingleShot =>
               /\ o = Partly(request[r].state, r, a.pos)
               /\ a.promise = "resolved" => a.guest = "ended" /\ a.pos = Steps
               /\ phase[r] = "ok" => o = object[r]
    PROVE  InlineInv' /\ AbstractStep
<1>1. attempts[r] \in Seq(Attempts) /\ Len(attempts[r]) \in Nat
  BY DEF InlineInv
<1>2. /\ attempts'[r] = [attempts[r] EXCEPT ![i] = a] /\ object'[r] = o
      /\ phase'[r] = phase[r] /\ request'[r] = request[r]
  BY DEF InlineInv
<1>3. /\ attempts'[r] \in Seq(Attempts) /\ Len(attempts'[r]) = Len(attempts[r])
      /\ attempts'[r][i] = a
  BY <1>1, <1>2, ExceptSeq
<1>4. OnlyOf(r)
  BY <1>3 DEF InlineInv, OnlyOf
<1>5. ASSUME r \in SingleShot PROVE SingleOK(r)'
  <2>1. SingleOK(r)
    BY <1>5 DEF InlineInv
  <2>2. attempts[r] # <<>> /\ Len(attempts[r]) = 1 /\ i = 1
    BY <1>1, <2>1 DEF SingleOK
  <2> QED
    BY <1>2, <1>3, <1>5, <2>1, <2>2 DEF SingleOK
<1>6. r \in SingleShot => request'[r] = request[r] /\ Shown(r)' = Shown(r)
  BY <1>2 DEF Shown
<1> QED
  BY <1>4, <1>5, <1>6, OthersKeep, Stutters

LEMMA TimerStep ==
    ASSUME InlineInv, NEW r \in Runs, TimerFires(r)
    PROVE  InlineInv' /\ AbstractStep
<1> DEFINE i == Len(attempts[r])
           a == SettlePromise(attempts[r][i], "rejected")
<1>1. /\ phase[r] = "trying" /\ attempts[r][i].promise = "pending"
      /\ attempts' = [attempts EXCEPT ![r][i] = a]
      /\ UNCHANGED <<request, phase, object>>
  BY DEF TimerFires, Last
<1>2. i \in 1..Len(attempts[r]) /\ attempts[r][i] \in Attempts
  BY <1>1 DEF InlineInv
<1>3. a = [attempts[r][i] EXCEPT !.promise = "rejected"]
  BY <1>1 DEF SettlePromise
<1>4. a \in Attempts /\ a.promise = "rejected" /\ a.pos = attempts[r][i].pos
  BY <1>2, <1>3 DEF Attempts
<1>5. DOMAIN object' = Runs
  BY <1>1 DEF InlineInv
<1>6. r \in SingleShot => object[r] = Partly(request[r].state, r, a.pos)
  <2> HAVE r \in SingleShot
  <2>1. SingleOK(r)
    BY DEF InlineInv
  <2>2. attempts[r] # <<>> /\ i = 1
    BY <1>1, <1>2, <2>1 DEF SingleOK
  <2> QED
    BY <1>4, <2>1, <2>2 DEF SingleOK
<1> HIDE DEF i, a
<1> QED
  BY <1>1, <1>2, <1>4, <1>5, <1>6, AttemptStep

\* What is known of the guest of an attempt that is still running.
LEMMA RunningGuest ==
    ASSUME InlineInv, NEW r \in Runs, NEW i \in 1..Len(attempts[r]), Guest(r, i)
    PROVE  /\ attempts[r][i] \in Attempts
           /\ r \in SingleShot =>
                /\ phase[r] # "ok" /\ request[r].state \in States
                /\ attempts[r][i].promise # "resolved"
                /\ object[r] = Partly(request[r].state, r, attempts[r][i].pos)
<1>1. attempts[r] \in Seq(Attempts) /\ attempts[r] # <<>> /\ attempts[r][i] \in Attempts
  BY DEF InlineInv
<1>2. ASSUME r \in SingleShot PROVE SingleOK(r) /\ i = 1
  BY <1>1, <1>2 DEF InlineInv, SingleOK
<1> QED
  BY <1>1, <1>2 DEF SingleOK, Guest

LEMMA GuestMutatesStep ==
    ASSUME InlineInv, NEW r \in Runs, NEW i \in 1..Len(attempts[r]), GuestMutates(r, i)
    PROVE  InlineInv' /\ AbstractStep
<1> DEFINE old == attempts[r][i]
           a == [old EXCEPT !.pos = old.pos + 1]
           o == Append(object[r], <<r, old.pos + 1>>)
<1>1. /\ Guest(r, i) /\ old.pos < Steps
      /\ attempts' = [attempts EXCEPT ![r][i] = a]
      /\ object' = [object EXCEPT ![r] = o] /\ UNCHANGED <<request, phase>>
  BY DEF GuestMutates
<1>2. old \in Attempts /\ old.pos \in 0..Steps
  BY <1>1, RunningGuest DEF Attempts
<1>3. a \in Attempts /\ a.pos = old.pos + 1 /\ a.promise = old.promise
  BY <1>1, <1>2, StepsAssumption DEF Attempts
<1>4. /\ DOMAIN object' = Runs /\ object'[r] = o
      /\ \A q \in Runs \ {r} : object'[q] = object[q]
  BY <1>1 DEF InlineInv
<1>5. r \in SingleShot => o = Partly(request[r].state, r, a.pos)
  <2> HAVE r \in SingleShot
  <2>1. request[r].state \in States /\ object[r] = Partly(request[r].state, r, old.pos)
    BY <1>1, RunningGuest
  <2>2. Append(Partly(request[r].state, r, old.pos), <<r, old.pos + 1>>)
          = Partly(request[r].state, r, old.pos + 1)
    BY <1>1, <1>2, <2>1, PartlyGrows
  <2> QED
    BY <1>3, <2>1, <2>2
<1>6. r \in SingleShot => a.promise # "resolved" /\ phase[r] # "ok"
  BY <1>1, <1>3, RunningGuest
<1> HIDE DEF a, o
<1> QED
  BY ZenonT(30), <1>1, <1>3, <1>4, <1>5, <1>6, AttemptStep

LEMMA GuestEndsStep ==
    ASSUME InlineInv, NEW r \in Runs, NEW i \in 1..Len(attempts[r]),
           GuestReturns(r, i) \/ GuestThrows(r, i)
    PROVE  InlineInv' /\ AbstractStep
<1> DEFINE old == attempts[r][i]
<1>1. PICK how \in {"resolved", "rejected"} :
        /\ how = "resolved" => old.pos = Steps
        /\ GuestEnds(r, i, how)
  BY DEF GuestReturns, GuestThrows
<1> DEFINE a == [SettlePromise(old, how) EXCEPT !.guest = "ended"]
<1>2. /\ Guest(r, i) /\ attempts' = [attempts EXCEPT ![r][i] = a]
      /\ UNCHANGED <<request, phase, object>>
  BY <1>1 DEF GuestEnds
<1>3. old \in Attempts
  BY <1>2, RunningGuest
<1>4. /\ a \in Attempts /\ a.pos = old.pos /\ a.guest = "ended"
      /\ a.promise = IF old.promise = "pending" THEN how ELSE old.promise
  BY <1>3 DEF Attempts, SettlePromise
<1>5. DOMAIN object' = Runs
  BY <1>2 DEF InlineInv
<1>6. r \in SingleShot =>
        /\ object[r] = Partly(request[r].state, r, a.pos)
        /\ a.promise = "resolved" => a.guest = "ended" /\ a.pos = Steps
  BY <1>1, <1>2, <1>4, RunningGuest
<1>7. old.promise = "resolved" => a.promise = "resolved"
  BY <1>4
<1> HIDE DEF a
<1> QED
  BY <1>2, <1>4, <1>5, <1>6, <1>7, AttemptStep

LEMMA InlineNext == InlineInv /\ [Next]_vars => InlineInv' /\ AbstractStep
<1> SUFFICES ASSUME InlineInv, [Next]_vars PROVE InlineInv' /\ AbstractStep
  OBVIOUS
<1>1. CASE UNCHANGED vars
  BY <1>1 DEF vars, InlineInv, SingleOK, SingleShot, AbstractStep, Asks, Answers, Shown
<1>2. ASSUME NEW r \in Runs, NEW s \in {InitialState}, Execute(r, s)
      PROVE  InlineInv' /\ AbstractStep
  BY <1>2, ExecuteStep
<1>3. ASSUME NEW r \in Runs, Invoker(r) PROVE InlineInv' /\ AbstractStep
  BY <1>3, InvokerStep
<1>4. ASSUME NEW r \in Runs, TimerFires(r) PROVE InlineInv' /\ AbstractStep
  BY <1>4, TimerStep
<1>5. ASSUME NEW r \in Runs, NEW a \in 1..Len(attempts[r]),
             GuestMutates(r, a) \/ GuestReturns(r, a) \/ GuestThrows(r, a)
      PROVE  InlineInv' /\ AbstractStep
  BY <1>5, GuestMutatesStep, GuestEndsStep
<1> QED
  BY <1>1, <1>2, <1>3, <1>4, <1>5 DEF Next

\* Of a run that is not retried, the state object holds what its one guest did to it
\* and nothing else, at every step of the event loop.
THEOREM InlineInvariant == Spec => []InlineInv
  BY InlineInit, InlineNext, PTL DEF Spec
-----------------------------------------------------------------------------
\* The safety part of Implements: without retries, each step of the event loop is
\* one of the abstract executor or changes nothing that the sandbox sees, so that a
\* success is the whole effect of the guest on the requested state, and stays that
\* whatever the abandoned guests of other runs do.
ImplementsSteps == Abstract!ExecInit /\ [][Abstract!ExecNext]_<<Asks, Answers>>
\* InlineExecutor.execute is the abstract executor, but for settling.
THEOREM InlineImplements == Spec => ImplementsSteps
<1>1. Init => Abstract!ExecInit
  BY DEF Init, SingleShot, Abstract!ExecInit, Abstract!NoRequest, Abstract!NoOutcome,
         Abstract!EmptyState
<1>2. InlineInv /\ [Next]_vars => [Abstract!ExecNext]_<<Asks, Answers>>
  BY InlineNext DEF AbstractStep
<1> QED
  BY <1>1, <1>2, InlineInvariant, PTL DEF Spec, ImplementsSteps
\* No run of the executor is retried.
NoRetries == \A r \in Runs : RetryCount[r] = 0

\* Without retries the prompt's sentence is true: the state of a success is that of one
\* complete execution, and stays it.  The guest that a timeout abandons belongs to a
\* run that failed, so that no one hands on the object it goes on mutating.
\* (GuestInvoker.invoke; inline_retry shows that one retry is enough to break it.)
THEOREM WithoutRetriesOneExecution == NoRetries => (Spec => []OutcomeIsOneExecution)
<1> SUFFICES ASSUME NoRetries PROVE Spec => []OutcomeIsOneExecution
  OBVIOUS
<1>1. InlineInv => OutcomeIsOneExecution
  <2> SUFFICES ASSUME InlineInv, NEW r \in Runs, phase[r] = "ok"
               PROVE  object[r] = Effect(request[r].state, r)
    BY DEF OutcomeIsOneExecution
  <2>1. SingleOK(r) /\ attempts[r] \in Seq(Attempts)
    BY DEF InlineInv, SingleShot, NoRetries
  <2>2. Len(attempts[r]) = 1 /\ attempts[r] # <<>>
    BY <2>1 DEF SingleOK
  <2>3. object[r] = Partly(request[r].state, r, Steps) /\ request[r].state \in States
    BY <2>1, <2>2 DEF SingleOK
  <2> QED
    BY <2>3, PartlyBounds
<1> QED
  BY <1>1, InlineInvariant, PTL
-----------------------------------------------------------------------------
(* With retries: how often each mutation was made.                           *)

\* The attempts of r whose guest made the k-th mutation.
Made(r, k) == {i \in 1..Len(attempts[r]) : attempts[r][i].pos >= k}

\* Every attempt that made a mutation made it once, and no one else did; a promise
\* that resolved is that of a guest that completed.
AttemptsOK(r) ==
    /\ phase[r] \in {"idle", "warming"} => attempts[r] = <<>>
    /\ phase[r] \in {"trying", "ok"} => attempts[r] # <<>>
    /\ phase[r] = "ok" => Last(r).promise = "resolved"
    /\ \A i \in 1..Len(attempts[r]) : attempts[r][i].promise = "resolved" =>
          attempts[r][i].guest = "ended" /\ attempts[r][i].pos = Steps
    /\ \A k \in 1..Steps : Times(<<r, k>>, object[r]) = Cardinality(Made(r, k))

RetryInv == TypeOK /\ \A r \in Runs : AttemptsOK(r)

LEMMA OneMoreTime ==
    ASSUME NEW s \in States, NEW m \in Marks, NEW x
    PROVE  /\ Times(x, s) \in Nat
           /\ Times(x, Append(s, m)) = IF m = x THEN Times(x, s) + 1 ELSE Times(x, s)
<1> DEFINE at(t) == {i \in DOMAIN t : t[i] = x}
           longer == Append(s, m)
           n == Len(s)
<1>1. /\ n \in Nat /\ DOMAIN s = 1..n /\ DOMAIN longer = 1..(n + 1)
      /\ \A i \in 1..n : longer[i] = s[i]
      /\ longer[n + 1] = m
  BY AppendProperties, LenProperties DEF States
<1> HIDE DEF longer, n
<1>2. IsFiniteSet(at(s))
  <2>1. IsFiniteSet(1..n) /\ at(s) \in SUBSET (1..n)
    BY <1>1, FS_Interval
  <2> QED
    BY <2>1, FS_Subset
<1>3. \A i \in 1..(n + 1) : i \in 1..n \/ i = n + 1
  BY <1>1
<1>4. (n + 1) \notin 1..n /\ \A i \in 1..n : i \in 1..(n + 1)
  BY <1>1
<1>5. CASE m = x
  <2>1. at(longer) = at(s) \cup {n + 1} /\ (n + 1) \notin at(s)
    BY <1>1, <1>3, <1>4, <1>5
  <2> HIDE DEF at
  <2> QED
    BY <1>2, <1>5, <2>1, FS_AddElement, FS_CardinalityType DEF Times, at, longer
<1>6. CASE m # x
  <2>1. at(longer) = at(s)
    BY <1>1, <1>3, <1>4, <1>6
  <2> QED
    BY <1>2, <1>6, <2>1, FS_CardinalityType DEF Times, longer
<1> QED
  BY <1>5, <1>6

LEMMA MadeIsFinite ==
    ASSUME TypeOK, NEW r \in Runs, NEW k
    PROVE  /\ Len(attempts[r]) \in Nat
           /\ IsFiniteSet(Made(r, k)) /\ Cardinality(Made(r, k)) \in 0..Len(attempts[r])
<1>1. Len(attempts[r]) \in Nat
  BY LenProperties DEF TypeOK
<1>2. IsFiniteSet(1..Len(attempts[r])) /\ Cardinality(1..Len(attempts[r])) = Len(attempts[r])
  BY <1>1, FS_Interval
<1>3. Made(r, k) \in SUBSET (1..Len(attempts[r]))
  BY DEF Made
<1> QED
  BY <1>1, <1>2, <1>3, FS_Subset, FS_CardinalityType

LEMMA RetryInit == Init => RetryInv
<1> SUFFICES ASSUME Init PROVE RetryInv
  OBVIOUS
<1>1. TypeOK
  <2>1. request \in [Runs -> [made : BOOLEAN, state : States]]
    BY InitialIsState DEF Init, Abstract!NoRequest, Abstract!EmptyState, EmptyState
  <2>2. object \in [Runs -> States] /\ phase \in [Runs -> Phases]
        /\ attempts \in [Runs -> Seq(Attempts)]
    BY InitialIsState, EmptySeq DEF Init, Phases
  <2> QED
    BY <2>1, <2>2 DEF TypeOK
<1>2. ASSUME NEW r \in Runs PROVE AttemptsOK(r)
  <2>1. phase[r] = "idle" /\ attempts[r] = <<>> /\ object[r] = <<>>
    BY DEF Init, EmptyState
  <2>2. ASSUME NEW k \in 1..Steps PROVE Times(<<r, k>>, object[r]) = Cardinality(Made(r, k))
    <3>1. Made(r, k) = {} /\ {i \in DOMAIN object[r] : object[r][i] = <<r, k>>} = {}
      BY <2>1 DEF Made
    <3> QED
      BY <3>1 DEF Times
  <2> QED
    BY <2>1, <2>2 DEF AttemptsOK
<1> QED
  BY <1>1, <1>2 DEF RetryInv

\* A step of r leaves the other runs as they are.
LEMMA OtherRunsKeep ==
    ASSUME RetryInv, NEW r \in Runs, TypeOK', AttemptsOK(r)',
           \A q \in Runs \ {r} : /\ phase'[q] = phase[q] /\ object'[q] = object[q]
                                 /\ attempts'[q] = attempts[q]
    PROVE  RetryInv'
<1>1. ASSUME NEW q \in Runs, q # r PROVE AttemptsOK(q)'
  <2>1. AttemptsOK(q) /\ phase'[q] = phase[q] /\ object'[q] = object[q]
        /\ attempts'[q] = attempts[q]
    BY <1>1 DEF RetryInv
  <2> QED
    BY <2>1 DEF AttemptsOK, Last, Made
<1> QED
  BY <1>1 DEF RetryInv

\* The phase of r moves on, its attempts and its object stay.
LEMMA PhaseStep ==
    ASSUME RetryInv, NEW r \in Runs, NEW p \in {"ok", "failed"},
           phase' = [phase EXCEPT ![r] = p], UNCHANGED <<request, object, attempts>>,
           p = "ok" => attempts[r] # <<>> /\ Last(r).promise = "resolved"
    PROVE  RetryInv'
<1>1. TypeOK'
  BY DEF RetryInv, TypeOK, Phases
<1>2. phase'[r] = p /\ \A q \in Runs \ {r} : phase'[q] = phase[q]
  BY DEF RetryInv, TypeOK
<1>3. AttemptsOK(r)'
  BY <1>2 DEF RetryInv, AttemptsOK, Last, Made
<1> QED
  BY <1>1, <1>2, <1>3, OtherRunsKeep

LEMMA RetryExecuteStep ==
    ASSUME RetryInv, NEW r \in Runs, NEW s \in {InitialState}, Execute(r, s)
    PROVE  RetryInv'
<1> DEFINE asked == [made |-> TRUE, state |-> s]
<1>1. /\ phase[r] = "idle" /\ request' = [request EXCEPT ![r] = asked]
      /\ phase' = [phase EXCEPT ![r] = "warming"] /\ object' = [object EXCEPT ![r] = s]
      /\ UNCHANGED attempts
  BY DEF Execute, SetPhase, Abstract!Request
<1>2. s \in States /\ asked \in [made : BOOLEAN, state : States]
  BY InitialIsState
<1>3. TypeOK'
  <2> HIDE DEF asked
  <2> QED
    BY <1>1, <1>2 DEF RetryInv, TypeOK, Phases
<1>4. /\ phase'[r] = "warming" /\ object'[r] = s /\ attempts'[r] = attempts[r]
      /\ \A q \in Runs \ {r} : phase'[q] = phase[q] /\ object'[q] = object[q]
                               /\ attempts'[q] = attempts[q]
  BY <1>1 DEF RetryInv, TypeOK
<1>5. attempts[r] = <<>>
  BY <1>1 DEF RetryInv, AttemptsOK
<1>6. ASSUME NEW k \in 1..Steps
      PROVE  Times(<<r, k>>, object'[r]) = Cardinality(Made(r, k)')
  <2>1. Made(r, k)' = {}
    BY <1>4, <1>5 DEF Made
  <2>2. \A i \in DOMAIN s : s[i] # <<r, k>>
    <3>1. DOMAIN s = {1} /\ s[1] = <<Seed, 0>> /\ Seed # r
      BY SeedAssumption DEF InitialState
    <3> QED
      BY <3>1
  <2>3. {i \in DOMAIN s : s[i] = <<r, k>>} = {}
    BY <2>2
  <2> QED
    BY <1>4, <2>1, <2>3 DEF Times
<1>7. AttemptsOK(r)'
  BY <1>4, <1>5, <1>6 DEF AttemptsOK
<1> QED
  BY <1>3, <1>4, <1>7, OtherRunsKeep

\* A new attempt begins, after those there are.
LEMMA NewAttemptStep ==
    ASSUME RetryInv, NEW r \in Runs, phase'[r] = "trying",
           phase' = [phase EXCEPT ![r] = "trying"],
           attempts' = [attempts EXCEPT ![r] = Append(attempts[r], NewAttempt)],
           UNCHANGED <<request, object>>
    PROVE  RetryInv'
<1> DEFINE n == Len(attempts[r])
<1>1. NewAttempt \in Attempts /\ NewAttempt.pos = 0 /\ NewAttempt.promise = "pending"
  BY StepsAssumption DEF NewAttempt, Attempts
<1>2. /\ attempts \in [Runs -> Seq(Attempts)] /\ attempts[r] \in Seq(Attempts)
      /\ AttemptsOK(r) /\ TypeOK
  BY DEF RetryInv, TypeOK
<1>3. attempts'[r] = Append(attempts[r], NewAttempt)
      /\ \A q \in Runs \ {r} : attempts'[q] = attempts[q] /\ phase'[q] = phase[q]
  BY <1>2 DEF TypeOK
<1>4. /\ attempts'[r] \in Seq(Attempts) /\ n \in Nat /\ Len(attempts'[r]) = n + 1
      /\ \A i \in 1..n : attempts'[r][i] = attempts[r][i]
      /\ attempts'[r][n + 1] = NewAttempt
  BY <1>1, <1>2, <1>3, AppendProperties, LenProperties
<1>5. TypeOK'
  <2>1. attempts' \in [Runs -> Seq(Attempts)]
    BY <1>2, <1>3, <1>4
  <2> QED
    BY <1>2, <2>1 DEF TypeOK, Phases
<1> HIDE DEF n
<1>6. \A i \in 1..(n + 1) : i \in 1..n \/ i = n + 1
  BY <1>4
<1>7. \A i \in 1..n : i \in 1..(n + 1)
  BY <1>4
<1>8. ASSUME NEW k \in 1..Steps PROVE Made(r, k)' = Made(r, k)
  <2>1. ~(NewAttempt.pos >= k)
    BY <1>1
  <2> QED
    BY <1>4, <1>6, <1>7, <2>1 DEF Made, n
<1>9. attempts'[r] # <<>>
  BY <1>4
<1>10. AttemptsOK(r)'
  <2>1. \A i \in 1..Len(attempts'[r]) : attempts'[r][i].promise = "resolved" =>
          attempts'[r][i].guest = "ended" /\ attempts'[r][i].pos = Steps
    BY <1>1, <1>2, <1>4, <1>6 DEF AttemptsOK, n
  <2> QED
    BY <1>2, <1>8, <1>9, <2>1 DEF AttemptsOK
<1> QED
  BY <1>3, <1>5, <1>10, OtherRunsKeep

LEMMA RetryInvokerStep ==
    ASSUME RetryInv, NEW r \in Runs, Invoker(r)
    PROVE  RetryInv'
<1>1. /\ attempts[r] \in Seq(Attempts) /\ phase \in [Runs -> Phases]
      /\ AttemptsOK(r)
  BY DEF RetryInv, TypeOK
<1>2. CASE Begin(r)
  <2>1. /\ attempts[r] = <<>> /\ phase' = [phase EXCEPT ![r] = "trying"]
        /\ attempts' = [attempts EXCEPT ![r] = <<NewAttempt>>]
        /\ UNCHANGED <<request, object>>
    BY <1>1, <1>2 DEF Begin, SetPhase, AttemptsOK
  <2>2. Append(attempts[r], NewAttempt) = <<NewAttempt>>
    BY <2>1
  <2>3. phase'[r] = "trying"
    BY <1>1, <2>1
  <2> QED
    BY <2>1, <2>2, <2>3, NewAttemptStep
<1>3. CASE Retry(r)
  <2>1. /\ attempts' = [attempts EXCEPT ![r] = Append(attempts[r], NewAttempt)]
        /\ phase[r] = "trying" /\ UNCHANGED <<request, phase, object>>
    BY <1>3 DEF Retry
  <2>2. phase' = [phase EXCEPT ![r] = "trying"]
    BY <1>1, <2>1
  <2> QED
    BY <2>1, <2>2, NewAttemptStep
<1>4. CASE Return(r)
  BY <1>1, <1>4, PhaseStep DEF Return, SetPhase, AttemptsOK
<1>5. CASE OverBudget(r) \/ GiveUp(r)
  <2>1. phase' = [phase EXCEPT ![r] = "failed"] /\ UNCHANGED <<request, object, attempts>>
    BY <1>5 DEF OverBudget, GiveUp, SetPhase
  <2> QED
    BY <2>1, PhaseStep
<1> QED
  BY <1>2, <1>3, <1>4, <1>5 DEF Invoker

\* Attempt i of r becomes a, that made as many mutations or one more.
LEMMA RetryAttemptStep ==
    ASSUME RetryInv, NEW r \in Runs, NEW i \in 1..Len(attempts[r]), NEW a \in Attempts,
           attempts' = [attempts EXCEPT ![r][i] = a], UNCHANGED <<request, phase>>,
           attempts[r][i].promise = "resolved" => a.promise = "resolved",
           a.promise = "resolved" => a.guest = "ended" /\ a.pos = Steps,
           \/ a.pos = attempts[r][i].pos /\ object' = object
           \/ /\ a.pos = attempts[r][i].pos + 1
              /\ object' = [object EXCEPT ![r] = Append(object[r], <<r, a.pos>>)]
    PROVE  RetryInv'
<1> DEFINE n == Len(attempts[r])
<1>1. /\ attempts \in [Runs -> Seq(Attempts)] /\ attempts[r] \in Seq(Attempts)
      /\ object \in [Runs -> States] /\ AttemptsOK(r) /\ TypeOK /\ n \in Nat
  BY LenProperties DEF RetryInv, TypeOK
<1>2. /\ attempts[r][i] \in Attempts /\ attempts[r][i].pos \in Nat
      /\ a.pos \in 0..Steps /\ a.pos \in Nat /\ Steps \in Nat
  <2>1. attempts[r][i] \in Attempts
    BY <1>1, ElementOfSeq
  <2> QED
    BY <2>1, StepsAssumption DEF Attempts
<1>3. /\ attempts'[r] = [attempts[r] EXCEPT ![i] = a]
      /\ \A q \in Runs \ {r} : attempts'[q] = attempts[q]
  BY <1>1
<1>4. /\ attempts'[r] \in Seq(Attempts) /\ Len(attempts'[r]) = n
      /\ attempts'[r][i] = a
      /\ \A j \in 1..n : j # i => attempts'[r][j] = attempts[r][j]
  BY <1>1, <1>3, ExceptSeq
<1>5. attempts' \in [Runs -> Seq(Attempts)]
  BY <1>1, <1>3, <1>4
<1>6. ASSUME NEW k \in 1..Steps PROVE
        Made(r, k)' = IF a.pos = attempts[r][i].pos + 1 /\ k = a.pos
                      THEN Made(r, k) \cup {i} ELSE Made(r, k)
  <2>1. \A j \in 1..n : j # i => (j \in Made(r, k)' <=> j \in Made(r, k))
    BY <1>4 DEF Made
  <2>2. /\ i \in Made(r, k)' <=> a.pos >= k
        /\ i \in Made(r, k) <=> attempts[r][i].pos >= k
    BY <1>4 DEF Made
  <2>3. Made(r, k)' \subseteq 1..n /\ Made(r, k) \subseteq 1..n
    BY <1>4 DEF Made
  <2>4. IF a.pos = attempts[r][i].pos + 1 /\ k = a.pos
        THEN a.pos >= k ELSE (a.pos >= k <=> attempts[r][i].pos >= k)
    BY <1>2
  <2>5. CASE a.pos = attempts[r][i].pos + 1 /\ k = a.pos
    <3>1. \A j : j \in Made(r, k)' <=> j \in Made(r, k) \/ j = i
      BY <2>1, <2>2, <2>3, <2>4, <2>5
    <3> QED
      BY <2>5, <3>1
  <2>6. CASE ~(a.pos = attempts[r][i].pos + 1 /\ k = a.pos)
    <3>1. \A j : j \in Made(r, k)' <=> j \in Made(r, k)
      BY <2>1, <2>2, <2>3, <2>4, <2>6
    <3> QED
      BY <2>6, <3>1
  <2> QED
    BY <2>5, <2>6
<1>7. /\ object' \in [Runs -> States]
      /\ \A q \in Runs \ {r} : object'[q] = object[q]
      /\ \A k \in 1..Steps :
            Times(<<r, k>>, object'[r]) =
               IF a.pos = attempts[r][i].pos + 1 /\ k = a.pos
               THEN Times(<<r, k>>, object[r]) + 1 ELSE Times(<<r, k>>, object[r])
  <2>1. CASE a.pos = attempts[r][i].pos /\ object' = object
    <3>1. ~(a.pos = attempts[r][i].pos + 1)
      BY <1>2, <2>1
    <3> QED
      BY <1>1, <2>1, <3>1
  <2>2. CASE /\ a.pos = attempts[r][i].pos + 1
             /\ object' = [object EXCEPT ![r] = Append(object[r], <<r, a.pos>>)]
    <3> DEFINE m == <<r, a.pos>>
    <3>1. m \in Marks /\ object[r] \in States
      BY <1>1, <1>2 DEF Marks
    <3>2. \A k : m = <<r, k>> <=> k = a.pos
      OBVIOUS
    <3> HIDE DEF m
    <3>3. Append(object[r], m) \in States
      BY <3>1, AppendProperties DEF States
    <3>4. object'[r] = Append(object[r], m) /\ object' \in [Runs -> States]
          /\ \A q \in Runs \ {r} : object'[q] = object[q]
      BY <1>1, <2>2, <3>3 DEF m
    <3>5. \A k : Times(<<r, k>>, object'[r]) =
             IF m = <<r, k>> THEN Times(<<r, k>>, object[r]) + 1
             ELSE Times(<<r, k>>, object[r])
      BY <3>1, <3>4, OneMoreTime
    <3> QED
      BY <2>2, <3>2, <3>4, <3>5
  <2> QED
    BY <2>1, <2>2
<1>8. TypeOK'
  BY <1>1, <1>5, <1>7 DEF TypeOK
<1>9. ASSUME NEW k \in 1..Steps
      PROVE  Times(<<r, k>>, object'[r]) = Cardinality(Made(r, k)')
  <2>1. /\ Times(<<r, k>>, object[r]) = Cardinality(Made(r, k))
        /\ IsFiniteSet(Made(r, k))
    BY <1>1, MadeIsFinite DEF AttemptsOK
  <2>2. CASE a.pos = attempts[r][i].pos + 1 /\ k = a.pos
    <3>1. i \notin Made(r, k)
      BY <1>2, <2>2 DEF Made
    <3>2. Cardinality(Made(r, k) \cup {i}) = Cardinality(Made(r, k)) + 1
      BY <2>1, <3>1, FS_AddElement
    <3>3. Made(r, k)' = Made(r, k) \cup {i}
      BY <1>6, <2>2
    <3>4. Times(<<r, k>>, object'[r]) = Times(<<r, k>>, object[r]) + 1
      BY <1>7, <2>2
    <3> QED
      BY <2>1, <3>2, <3>3, <3>4
  <2>3. CASE ~(a.pos = attempts[r][i].pos + 1 /\ k = a.pos)
    BY <1>6, <1>7, <2>1, <2>3
  <2> QED
    BY <2>2, <2>3
<1>10. AttemptsOK(r)'
  <2>1. \A j \in 1..n : attempts'[r][j].promise = "resolved" =>
          attempts'[r][j].guest = "ended" /\ attempts'[r][j].pos = Steps
    BY <1>1, <1>4 DEF AttemptsOK
  <2>2. attempts[r] # <<>> /\ attempts'[r] # <<>> /\ n \in 1..n
    BY <1>1, <1>4
  <2>3. phase[r] = "ok" => attempts'[r][n].promise = "resolved"
    BY <1>1, <1>4, <2>2 DEF AttemptsOK, Last
  <2>4. phase'[r] = phase[r]
    OBVIOUS
  <2> QED
    BY <1>1, <1>4, <1>9, <2>1, <2>2, <2>3, <2>4 DEF AttemptsOK, Last
<1> QED
  BY <1>3, <1>7, <1>8, <1>10, OtherRunsKeep

LEMMA RetryTimerStep ==
    ASSUME RetryInv, NEW r \in Runs, TimerFires(r)
    PROVE  RetryInv'
<1> DEFINE i == Len(attempts[r])
           a == SettlePromise(attempts[r][i], "rejected")
<1>1. /\ phase[r] = "trying" /\ attempts[r][i].promise = "pending"
      /\ attempts' = [attempts EXCEPT ![r][i] = a]
      /\ UNCHANGED <<request, phase, object>>
  BY DEF TimerFires, Last
<1>2. attempts[r] \in Seq(Attempts) /\ attempts[r] # <<>>
  BY <1>1 DEF RetryInv, TypeOK, AttemptsOK
<1>3. i \in 1..Len(attempts[r]) /\ attempts[r][i] \in Attempts
  BY <1>2
<1>4. a = [attempts[r][i] EXCEPT !.promise = "rejected"]
  BY <1>1 DEF SettlePromise
<1>5. a \in Attempts /\ a.promise = "rejected" /\ a.pos = attempts[r][i].pos
  BY <1>3, <1>4 DEF Attempts
<1> HIDE DEF i, a
<1> QED
  BY <1>1, <1>3, <1>5, RetryAttemptStep

LEMMA RetryGuestStep ==
    ASSUME RetryInv, NEW r \in Runs, NEW i \in 1..Len(attempts[r]),
           GuestMutates(r, i) \/ GuestReturns(r, i) \/ GuestThrows(r, i)
    PROVE  RetryInv'
<1> DEFINE old == attempts[r][i]
<1>1. attempts[r] \in Seq(Attempts) /\ AttemptsOK(r)
  BY DEF RetryInv, TypeOK
<1>2. old \in Attempts
  BY <1>1, ElementOfSeq
<1>3. CASE GuestMutates(r, i)
  <2> DEFINE a == [old EXCEPT !.pos = old.pos + 1]
  <2>1. /\ old.guest = "running" /\ old.pos < Steps
        /\ attempts' = [attempts EXCEPT ![r][i] = a]
        /\ object' = [object EXCEPT ![r] = Append(object[r], <<r, old.pos + 1>>)]
        /\ UNCHANGED <<request, phase>>
    BY <1>3 DEF GuestMutates, Guest
  <2>2. old.pos \in 0..Steps
    BY <1>2 DEF Attempts
  <2>3. a \in Attempts /\ a.pos = old.pos + 1 /\ a.promise = old.promise
    BY <1>2, <2>1, <2>2, StepsAssumption DEF Attempts
  <2>4. old.promise # "resolved"
    BY <1>1, <2>1 DEF AttemptsOK
  <2> HIDE DEF a
  <2> QED
    BY <2>1, <2>3, <2>4, RetryAttemptStep
<1>4. CASE GuestReturns(r, i) \/ GuestThrows(r, i)
  <2>1. PICK how \in {"resolved", "rejected"} :
          (how = "resolved" => old.pos = Steps) /\ GuestEnds(r, i, how)
    BY <1>4 DEF GuestReturns, GuestThrows
  <2> DEFINE a == [SettlePromise(old, how) EXCEPT !.guest = "ended"]
  <2>2. /\ Guest(r, i) /\ attempts' = [attempts EXCEPT ![r][i] = a]
        /\ UNCHANGED <<request, phase, object>>
    BY <2>1 DEF GuestEnds
  <2>3. /\ a \in Attempts /\ a.pos = old.pos /\ a.guest = "ended"
        /\ a.promise = IF old.promise = "pending" THEN how ELSE old.promise
    BY <1>2 DEF Attempts, SettlePromise
  <2>4. old.promise # "resolved"
    BY <1>1, <2>2 DEF AttemptsOK, Guest
  <2>5. a.promise = "resolved" => a.guest = "ended" /\ a.pos = Steps
    BY <2>1, <2>3, <2>4
  <2> HIDE DEF a
  <2> QED
    BY <2>2, <2>3, <2>4, <2>5, RetryAttemptStep
<1> QED
  BY <1>3, <1>4

LEMMA RetryNext == RetryInv /\ [Next]_vars => RetryInv'
<1> SUFFICES ASSUME RetryInv, [Next]_vars PROVE RetryInv'
  OBVIOUS
<1>1. CASE UNCHANGED vars
  BY <1>1 DEF vars, RetryInv, TypeOK, AttemptsOK, Last, Made
<1>2. CASE Next
  BY <1>2, RetryExecuteStep, RetryInvokerStep, RetryTimerStep, RetryGuestStep DEF Next
<1> QED
  BY <1>1, <1>2

\* Each mutation is in the state object once per attempt that made it, abandoned
\* attempts included: the inductive invariant of runs that are retried.
THEOREM RetryInvariant == Spec => []RetryInv
  BY RetryInit, RetryNext, PTL DEF Spec

\* Type correctness of the inline executor, for any runs, steps and retry counts.
THEOREM InlineTypes == Spec => []TypeOK
  BY RetryInvariant, PTL DEF RetryInv

\* A success has every mutation of the guest, each at most once per attempt,
\* however many attempts the policy allows and however they overlap.
THEOREM SuccessIsAtLeastOnce == Spec => []AtLeastOnce
<1>1. RetryInv => AtLeastOnce
  <2> SUFFICES ASSUME RetryInv, NEW r \in Runs, phase[r] = "ok", NEW k \in 1..Steps
               PROVE  Times(<<r, k>>, object[r]) \in 1..Len(attempts[r])
    BY DEF AtLeastOnce
  <2>1. TypeOK /\ AttemptsOK(r) /\ attempts[r] \in Seq(Attempts) /\ attempts[r] # <<>>
    BY DEF RetryInv, TypeOK, AttemptsOK
  <2>2. /\ Times(<<r, k>>, object[r]) = Cardinality(Made(r, k))
        /\ Len(attempts[r]) \in 1..Len(attempts[r])
        /\ attempts[r][Len(attempts[r])].promise = "resolved"
    BY <2>1 DEF AttemptsOK, Last
  <2>3. attempts[r][Len(attempts[r])].pos = Steps
    BY <2>1, <2>2 DEF AttemptsOK
  <2>4. Len(attempts[r]) \in Made(r, k)
    BY <2>2, <2>3, StepsAssumption DEF Made
  <2>5. IsFiniteSet(Made(r, k)) /\ Cardinality(Made(r, k)) \in 0..Len(attempts[r])
        /\ Len(attempts[r]) \in Nat
    BY <2>1, MadeIsFinite
  <2>6. Cardinality(Made(r, k)) # 0
    BY <2>4, <2>5, FS_EmptySet
  <2> QED
    BY <2>2, <2>5, <2>6
<1>2. QED
  BY <1>1, RetryInvariant, PTL
=============================================================================
