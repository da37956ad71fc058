------------------------ MODULE WorkerExecutorProofs ------------------------
(***************************************************************************)
(* WorkerExecutor implements the steps of Executor, its books agree, and its *)
(* hard limit cuts no first attempt short, for every value of its constants. *)
(* That every run settles is left to TLC.                                   *)
(***************************************************************************)
EXTENDS WorkerExecutor, GuestStateProofs, FiniteSetTheorems

JobFields == {"stage", "worker", "attempt", "pos", "clone", "timer"}

\* What the requests, the outcomes and the timers look like.
HostInv ==
    /\ DOMAIN request = Runs /\ DOMAIN outcome = Runs /\ DOMAIN timer = Runs
    /\ spawned \in Nat /\ closed \in BOOLEAN
    /\ \A r \in Runs :
        /\ request[r].made \in BOOLEAN
        /\ request[r].made => request[r].state \in States
        /\ ~request[r].made => outcome[r].kind = "none"
        /\ DOMAIN timer[r] = {"on", "left"} /\ timer[r].on \in BOOLEAN

\* BooksAgree, and what it needs: pending runs have a live worker.
BooksInv ==
    /\ pending \subseteq Runs
    /\ \A r \in Runs :
        /\ timer[r].on <=> Unsettled(r)
        /\ r \in pending <=> Unsettled(r) /\ ~closed
        /\ r \in pending => job[r].worker = transport /\ transport # 0

\* A run in its worker has its request's state and the mutations of its present
\* attempt, and an answer of success is the whole effect.
GuestInv ==
    /\ DOMAIN job = Runs
    /\ \A r \in Runs :
        /\ DOMAIN job[r] = JobFields
        /\ job[r].stage # "none" => request[r].made
        /\ job[r].stage = "trying" =>
            /\ job[r].pos \in 0..Steps
            /\ job[r].clone = Partly(request[r].state, r, job[r].pos)
    /\ \A m \in replies :
        /\ m.run \in Runs /\ request[m.run].made
        /\ m.kind = "ok" => m.state = Effect(request[m.run].state, m.run)

WorkerInv == HostInv /\ BooksInv /\ GuestInv

LEMMA WorkerInit == Init => WorkerInv
<1> SUFFICES ASSUME Init PROVE WorkerInv
  OBVIOUS
<1> USE DEF Init, Abstract!ExecInit, Abstract!NoRequest, Abstract!NoOutcome, Abstract!EmptyState
<1>1. HostInv
  BY DEF HostInv, Off
<1>2. BooksInv
  BY DEF BooksInv, Unsettled, Abstract!Running, Off
<1>3. GuestInv
  BY DEF GuestInv, NoJob, JobFields
<1> QED
  BY <1>1, <1>2, <1>3 DEF WorkerInv

\* Runs that have not settled are pending or left to their timers, and were asked.
LEMMA UnsettledMade ==
    ASSUME WorkerInv, NEW r \in Runs
    PROVE  /\ Unsettled(r) <=> request[r].made /\ outcome[r].kind = "none"
           /\ ~request[r].made => r \notin pending /\ ~timer[r].on /\ job[r].stage = "none"
  BY DEF WorkerInv, HostInv, BooksInv, GuestInv, Unsettled, Abstract!Running

AbstractStep == Abstract!ExecNext \/ UNCHANGED <<request, outcome>>
-----------------------------------------------------------------------------
(* execute().                                                               *)

\* What Request() does to the books: r was unknown, and is asked for s.
NowAsked(r, s) ==
    /\ ~closed /\ r \notin pending /\ ~timer[r].on /\ job[r].stage = "none"
    /\ outcome[r].kind = "none" /\ ~request[r].made
    /\ DOMAIN request' = Runs
    /\ request'[r].made = TRUE /\ request'[r].state = s
    /\ \A q \in Runs : q # r => request'[q] = request[q]
    /\ UNCHANGED <<closed, wedged, replies>>

LEMMA Asked ==
    ASSUME WorkerInv, NEW r \in Runs, NEW s \in States, Request(r, s)
    PROVE  NowAsked(r, s)
<1>1. request' = [request EXCEPT ![r] = [made |-> TRUE, state |-> s]]
  BY DEF Request, Abstract!Request
<1>2. ~closed /\ ~request[r].made /\ UNCHANGED <<closed, wedged, replies>>
  BY DEF Request
<1>3. DOMAIN request = Runs /\ outcome[r].kind = "none"
  BY <1>2 DEF WorkerInv, HostInv
<1> QED
  BY <1>1, <1>2, <1>3, UnsettledMade DEF NowAsked

\* No run is pending without a transport, so a new one forgets none.
LEMMA TransportOK ==
    ASSUME WorkerInv, EnsureTransport
    PROVE  /\ transport' = Transport /\ Transport # 0 /\ spawned' \in Nat
           /\ \A q \in pending : transport' = transport
  BY DEF WorkerInv, HostInv, BooksInv, EnsureTransport, Transport

LEMMA PostStep ==
    ASSUME WorkerInv, NEW r \in Runs, NEW s \in States, Post(r, s)
    PROVE  WorkerInv' /\ AbstractStep
<1>1. Request(r, s) /\ EnsureTransport /\ UNCHANGED outcome
  BY DEF Post
<1>2. /\ pending' = pending \cup {r}
      /\ timer' = [timer EXCEPT ![r] = [on |-> TRUE, left |-> HardLimit]]
      /\ job' = [job EXCEPT ![r] = [NoJob EXCEPT !.stage = "queued", !.worker = Transport]]
  BY DEF Post, On
<1>3. /\ DOMAIN timer' = Runs /\ timer'[r].on = TRUE /\ DOMAIN timer'[r] = {"on", "left"}
      /\ \A q \in Runs : q # r => timer'[q] = timer[q]
  BY <1>2 DEF WorkerInv, HostInv
<1>4. /\ DOMAIN job' = Runs /\ DOMAIN job'[r] = JobFields
      /\ job'[r].stage = "queued" /\ job'[r].worker = Transport
      /\ \A q \in Runs : q # r => job'[q] = job[q]
  BY <1>2 DEF WorkerInv, GuestInv, NoJob, JobFields
<1>asked. NowAsked(r, s)
  BY <1>1, Asked
<1>5. HostInv'
  <2>1. \A q \in Runs : q # r =>
          timer'[q] = timer[q] /\ request'[q] = request[q] /\ outcome'[q] = outcome[q]
    BY <1>1, <1>3, <1>asked DEF NowAsked
  <2>2. DOMAIN request' = Runs /\ DOMAIN outcome' = Runs /\ DOMAIN timer' = Runs
        /\ spawned' \in Nat /\ closed' \in BOOLEAN
    BY <1>1, <1>3, <1>asked, TransportOK DEF NowAsked, WorkerInv, HostInv
  <2>3. request'[r].made = TRUE /\ request'[r].state \in States
        /\ DOMAIN timer'[r] = {"on", "left"} /\ timer'[r].on = TRUE
    BY <1>3, <1>asked DEF NowAsked
  <2> QED
    BY ZenonT(30), <2>1, <2>2, <2>3 DEF WorkerInv, HostInv
<1>6. BooksInv'
  <2>1. Unsettled(r)' /\ \A q \in Runs : q # r => (Unsettled(q)' <=> Unsettled(q))
    BY <1>1, <1>asked DEF NowAsked, Unsettled, Abstract!Running
  <2> QED
    BY <1>1, <1>2, <1>3, <1>4, <1>asked, <2>1, TransportOK DEF NowAsked, WorkerInv, BooksInv
<1>7. GuestInv'
  <2>1. \A q \in Runs : q # r => job'[q] = job[q] /\ request'[q] = request[q]
    BY <1>4, <1>asked DEF NowAsked
  <2>2. \A m \in replies : m.run # r
    BY <1>asked DEF NowAsked, WorkerInv, GuestInv
  <2>3. replies' = replies
    BY <1>asked DEF NowAsked
  <2>4. \A q \in Runs :
          /\ DOMAIN job'[q] = JobFields
          /\ job'[q].stage # "none" => request'[q].made
          /\ job'[q].stage = "trying" =>
              /\ job'[q].pos \in 0..Steps
              /\ job'[q].clone = Partly(request'[q].state, q, job'[q].pos)
    BY <1>4, <1>asked, <2>1 DEF NowAsked, WorkerInv, GuestInv
  <2>5. \A m \in replies :
          /\ m.run \in Runs /\ request'[m.run].made
          /\ m.kind = "ok" => m.state = Effect(request'[m.run].state, m.run)
    BY <2>1, <2>2 DEF WorkerInv, GuestInv
  <2> QED
    BY <1>4, <2>3, <2>4, <2>5 DEF GuestInv
<1>8. Abstract!SubmitSome(r)
  BY <1>1, <1>asked
  DEF NowAsked, Request, Abstract!SubmitSome, Abstract!Submit, Abstract!States, States,
      Abstract!Marks, Marks, Abstract!Request
<1> QED
  BY <1>5, <1>6, <1>7, <1>8 DEF WorkerInv, AbstractStep, Abstract!ExecNext

\* execute() settles at once: nothing of the run is left behind.
LEMMA RefusedStep ==
    ASSUME WorkerInv, NEW r \in Runs, NEW s \in States, Request(r, s),
           NEW o \in {Abstract!Failure, Abstract!Rejection},
           outcome' = [outcome EXCEPT ![r] = o], UNCHANGED <<pending, timer, job>>,
           spawned' \in Nat, \A q \in pending : transport' = transport
    PROVE  WorkerInv' /\ AbstractStep
<1>1. o.kind # "none"
  BY DEF Abstract!Failure, Abstract!Rejection
<1>2. /\ DOMAIN outcome' = Runs /\ outcome'[r] = o
      /\ \A q \in Runs : q # r => outcome'[q] = outcome[q]
  BY DEF WorkerInv, HostInv
<1>asked. NowAsked(r, s)
  BY Asked
<1>3. HostInv'
  <2>1. \A q \in Runs : q # r => request'[q] = request[q] /\ outcome'[q] = outcome[q]
    BY <1>2, <1>asked DEF NowAsked
  <2>2. DOMAIN request' = Runs /\ DOMAIN outcome' = Runs /\ closed' \in BOOLEAN
    BY <1>2, <1>asked DEF NowAsked, WorkerInv, HostInv
  <2>3. request'[r].made = TRUE /\ request'[r].state \in States
    BY <1>asked DEF NowAsked
  <2> QED
    BY <2>1, <2>2, <2>3 DEF WorkerInv, HostInv
<1>4. BooksInv'
  <2>1. ASSUME NEW q \in Runs, q # r PROVE Unsettled(q)' <=> Unsettled(q)
    <3>1. request'[q] = request[q] /\ outcome'[q] = outcome[q]
      BY <1>2, <1>asked, <2>1 DEF NowAsked
    <3> QED
      BY <3>1 DEF Unsettled, Abstract!Running
  <2>2. ~Unsettled(r)'
    BY <1>1, <1>2 DEF Unsettled, Abstract!Running
  <2> QED
    BY <1>asked, <2>1, <2>2 DEF NowAsked, WorkerInv, BooksInv
<1>5. GuestInv'
  <2>1. \A q \in Runs : q # r => request'[q] = request[q]
    BY <1>asked DEF NowAsked
  <2>2. \A m \in replies : m.run # r
    BY <1>asked DEF NowAsked, WorkerInv, GuestInv
  <2>3. replies' = replies /\ job[r].stage = "none"
    BY <1>asked DEF NowAsked
  <2>4. \A q \in Runs :
          /\ DOMAIN job[q] = JobFields
          /\ job[q].stage # "none" => request'[q].made
          /\ job[q].stage = "trying" =>
              /\ job[q].pos \in 0..Steps
              /\ job[q].clone = Partly(request'[q].state, q, job[q].pos)
    BY <2>1, <2>3 DEF WorkerInv, GuestInv
  <2>5. \A m \in replies :
          /\ m.run \in Runs /\ request'[m.run].made
          /\ m.kind = "ok" => m.state = Effect(request'[m.run].state, m.run)
    BY <2>1, <2>2 DEF WorkerInv, GuestInv
  <2> QED
    BY <2>3, <2>4, <2>5 DEF WorkerInv, GuestInv
<1>6. Abstract!SubmitSome(r)
  <2>1. s \in Abstract!States /\ request'[r].state = s
    BY <1>asked DEF NowAsked, Abstract!States, States, Abstract!Marks, Marks
  <2>2. Abstract!Refuse(r, s)
    BY DEF Request, Abstract!Refuse, Abstract!Request
  <2> QED
    BY <2>1, <2>2 DEF Abstract!SubmitSome
<1> QED
  BY <1>3, <1>4, <1>5, <1>6 DEF WorkerInv, AbstractStep, Abstract!ExecNext

LEMMA ExecuteStep ==
    ASSUME WorkerInv, NEW r \in Runs, Execute(r)
    PROVE  WorkerInv' /\ AbstractStep
<1>1. PICK s \in {InitialState} : Post(r, s) \/ Unpostable(r, s) \/ SpawnThrows(r, s)
  BY DEF Execute
<1>2. s \in States
  BY InitialIsState
<1>3. CASE Post(r, s)
  BY <1>2, <1>3, PostStep
<1>4. CASE Unpostable(r, s)
  BY <1>2, <1>4, RefusedStep, TransportOK DEF Unpostable
<1>5. CASE SpawnThrows(r, s)
  BY <1>2, <1>5, RefusedStep DEF SpawnThrows, WorkerInv, HostInv
<1> QED
  BY <1>1, <1>3, <1>4, <1>5
-----------------------------------------------------------------------------
(* The host's callbacks.                                                    *)

\* A run that settles by an answer has the whole effect, or failed.
LEMMA DeliverStep ==
    ASSUME WorkerInv, NEW m \in replies, Deliver(m)
    PROVE  WorkerInv' /\ AbstractStep
<1> DEFINE r == m.run
           o == IF m.kind = "ok" THEN Abstract!Success(m.state) ELSE Abstract!Failure
<1>1. /\ UNCHANGED <<request, transport, spawned, closed, job, wedged>>
      /\ replies' \subseteq replies
  BY DEF Deliver, workerVars
<1>2. r \in Runs
  BY DEF WorkerInv, GuestInv
<1>3. GuestInv'
  BY <1>1 DEF WorkerInv, GuestInv
<1>4. CASE r \notin pending
  <2>1. UNCHANGED <<pending, timer, outcome>>
    BY <1>4 DEF Deliver
  <2> QED
    BY <1>1, <1>3, <2>1
    DEF WorkerInv, HostInv, BooksInv, Unsettled, Abstract!Running, AbstractStep
<1>5. CASE r \in pending
  <2>1. /\ pending' = pending \ {r}
        /\ timer' = [timer EXCEPT ![r] = [on |-> FALSE, left |-> 0]]
        /\ outcome' = [outcome EXCEPT ![r] = o]
    BY <1>5 DEF Deliver, Off
  <2>2. o.kind # "none"
    BY DEF Abstract!Success, Abstract!Failure
  <2> HIDE DEF r, o
  <2>3. /\ DOMAIN timer' = Runs /\ DOMAIN outcome' = Runs
        /\ timer'[r].on = FALSE /\ DOMAIN timer'[r] = {"on", "left"} /\ outcome'[r] = o
        /\ \A q \in Runs : q # r => timer'[q] = timer[q] /\ outcome'[q] = outcome[q]
    BY <1>2, <2>1 DEF WorkerInv, HostInv
  <2>4. request[r].made /\ outcome[r].kind = "none"
    BY <1>2, <1>5, UnsettledMade DEF WorkerInv, BooksInv
  <2>5. HostInv'
    BY <1>1, <2>3, <2>4 DEF WorkerInv, HostInv
  <2>6. BooksInv'
    BY <1>1, <1>2, <2>1, <2>2, <2>3 DEF WorkerInv, BooksInv, Unsettled, Abstract!Running
  <2>7. Abstract!Running(r)
    BY <2>4 DEF Abstract!Running
  <2>8. Abstract!Succeed(r) \/ Abstract!Fail(r)
    <3>1. m.kind = "ok" => m.state = Abstract!Effect(request[r].state, r)
      BY DEF r, WorkerInv, GuestInv, Effect, Abstract!Effect, GuestMarks, Abstract!GuestMarks
    <3> QED
      BY <1>1, <2>1, <2>7, <3>1 DEF o, Abstract!Succeed, Abstract!Fail, Abstract!Settle
  <2> QED
    BY <1>2, <1>3, <2>5, <2>6, <2>8
    DEF WorkerInv, AbstractStep, Abstract!ExecNext, Abstract!Complete
<1> QED
  BY <1>4, <1>5

\* terminate() leaves of the worker only what the other workers do.
LEMMA TerminateGuests ==
    ASSUME WorkerInv, NEW w, Terminate(w), UNCHANGED request
    PROVE  GuestInv'
<1>1. /\ job' = [r \in Runs |-> IF job[r].worker = w THEN NoJob ELSE job[r]]
      /\ replies' \subseteq replies
  BY DEF Terminate
<1>2. DOMAIN NoJob = JobFields /\ NoJob.stage = "none"
  BY DEF NoJob, JobFields
<1> QED
  BY <1>1, <1>2 DEF WorkerInv, GuestInv

\* hardReset() fails every run that is pending, and no other.
LEMMA HardTimeoutStep ==
    ASSUME WorkerInv, NEW r \in Runs, HardTimeout(r)
    PROVE  WorkerInv' /\ AbstractStep
<1> DEFINE failed == pending \cup {r}
<1>1. /\ timer[r].on /\ Terminate(transport) /\ pending' = {}
      /\ outcome' = [q \in Runs |-> IF q \in failed THEN Abstract!Failure ELSE outcome[q]]
      /\ timer' = [q \in Runs |-> IF q \in failed THEN [on |-> FALSE, left |-> 0] ELSE timer[q]]
      /\ UNCHANGED <<request, spawned, closed>>
  BY DEF HardTimeout, Due, Off
<1>2. failed \subseteq Runs /\ \A q \in failed : Unsettled(q)
  BY <1>1 DEF WorkerInv, BooksInv
<1>3. Abstract!Failure.kind = "failed"
  BY DEF Abstract!Failure
<1> HIDE DEF failed
<1>4. GuestInv'
  BY <1>1, TerminateGuests
<1>5. HostInv'
  BY <1>1, <1>2 DEF WorkerInv, HostInv, Unsettled, Abstract!Running
<1>6. BooksInv'
  <2>1. \A q \in Runs : Unsettled(q)' <=> Unsettled(q) /\ q \notin failed
    BY <1>1, <1>3 DEF Unsettled, Abstract!Running
  <2>2. \A q \in Runs : timer'[q].on <=> timer[q].on /\ q \notin failed
    BY <1>1 DEF WorkerInv, HostInv
  <2>3. \A q \in Runs : q \notin failed => ~Unsettled(q) \/ closed
    BY DEF failed, WorkerInv, BooksInv
  <2> QED
    BY <1>1, <2>1, <2>2, <2>3 DEF WorkerInv, HostInv, BooksInv
<1>7. Abstract!FailTogether(failed)
  BY <1>1, <1>2 DEF Abstract!FailTogether, Unsettled
<1> QED
  BY <1>2, <1>4, <1>5, <1>6, <1>7 DEF WorkerInv, AbstractStep, Abstract!ExecNext

LEMMA DisposeStep ==
    ASSUME WorkerInv, Dispose
    PROVE  WorkerInv' /\ AbstractStep
<1>1. /\ closed' = TRUE /\ Terminate(transport) /\ pending' = {}
      /\ UNCHANGED <<request, outcome, timer, spawned>>
  BY DEF Dispose
<1>2. GuestInv'
  BY <1>1, TerminateGuests
<1>3. HostInv' /\ BooksInv'
  BY <1>1 DEF WorkerInv, HostInv, BooksInv, Unsettled, Abstract!Running
<1> QED
  BY <1>1, <1>2, <1>3 DEF WorkerInv, AbstractStep
-----------------------------------------------------------------------------
(* The worker, and time.                                                    *)

\* A step of the worker is of one job, and of the answers.
LEMMA JobStep ==
    ASSUME WorkerInv, NEW r \in Runs, InWorker, NEW j, job' = [job EXCEPT ![r] = j],
           DOMAIN j = JobFields, j.worker = job[r].worker, job[r].stage # "none",
           j.stage = "trying" =>
               j.pos \in 0..Steps /\ j.clone = Partly(request[r].state, r, j.pos),
           NEW m, replies' \subseteq replies \cup {m},
           m \in replies' \ replies =>
               /\ m.run = r
               /\ m.kind = "ok" => m.state = Effect(request[r].state, r)
    PROVE  WorkerInv' /\ AbstractStep
<1>1. UNCHANGED <<request, outcome, pending, timer, transport, spawned, closed>>
  BY DEF InWorker, hostVars
<1>2. DOMAIN job = Runs /\ request[r].made
  BY DEF WorkerInv, GuestInv
<1>3. DOMAIN job' = Runs /\ job'[r] = j /\ \A q \in Runs : q # r => job'[q] = job[q]
  BY <1>2
<1>4. HostInv'
  BY <1>1 DEF WorkerInv, HostInv
<1>5. BooksInv'
  BY <1>1, <1>3 DEF WorkerInv, BooksInv, Unsettled, Abstract!Running
<1>6. GuestInv'
  <2>1. \A n \in replies' :
          /\ n.run \in Runs /\ request[n.run].made
          /\ n.kind = "ok" => n.state = Effect(request[n.run].state, n.run)
    BY <1>2 DEF WorkerInv, GuestInv
  <2>2. \A q \in Runs :
          /\ DOMAIN job'[q] = JobFields
          /\ job'[q].stage # "none" => request[q].made
          /\ job'[q].stage = "trying" =>
              /\ job'[q].pos \in 0..Steps
              /\ job'[q].clone = Partly(request[q].state, q, job'[q].pos)
    BY <1>2, <1>3 DEF WorkerInv, GuestInv
  <2> QED
    BY <1>1, <1>3, <2>1, <2>2 DEF GuestInv
<1> QED
  BY <1>1, <1>4, <1>5, <1>6 DEF WorkerInv, AbstractStep

\* The run is answered or its result lost: its job is over.
LEMMA AnswerStep ==
    ASSUME WorkerInv, NEW r \in Runs, InWorker, job[r].stage # "none",
           NEW kind, NEW s, Answer(r, kind, s),
           kind = "ok" => s = Effect(request[r].state, r)
    PROVE  WorkerInv' /\ AbstractStep
<1> DEFINE j == [job[r] EXCEPT !.stage = "answered", !.timer = Off]
           m == Reply(r, kind, s)
<1>1. job' = [job EXCEPT ![r] = j] /\ replies' = replies \cup {m}
  BY DEF Answer, WorkerInv, GuestInv
<1>2. DOMAIN j = JobFields /\ j.worker = job[r].worker /\ j.stage = "answered"
  BY DEF WorkerInv, GuestInv, JobFields
<1>3. m.run = r /\ m.kind = kind /\ m.state = s
  BY DEF Reply
<1> HIDE DEF j, m
<1> QED
  BY <1>1, <1>2, <1>3, JobStep

\* Each attempt starts from the request's state.
LEMMA AttemptStep ==
    ASSUME WorkerInv, NEW r \in Runs, InWorker, job[r].stage # "none",
           NEW n, Attempt(r, n), UNCHANGED replies
    PROVE  WorkerInv' /\ AbstractStep
<1> DEFINE j == [job[r] EXCEPT !.stage = "trying", !.attempt = n, !.pos = 0,
                               !.clone = request[r].state, !.timer = On(Timeout)]
<1>1. job' = [job EXCEPT ![r] = j]
  BY DEF Attempt, WorkerInv, GuestInv
<1>2. /\ DOMAIN j = JobFields /\ j.worker = job[r].worker
      /\ j.pos = 0 /\ j.clone = request[r].state
  BY DEF WorkerInv, GuestInv, JobFields
<1>3. request[r].state \in States
  BY DEF WorkerInv, HostInv, GuestInv
<1> HIDE DEF j
<1>4. j.pos \in 0..Steps /\ j.clone = Partly(request[r].state, r, j.pos)
  BY <1>2, <1>3, PartlyBounds, StepsAssumption
<1> QED
  BY <1>1, <1>2, <1>4, JobStep

LEMMA AttemptFailsStep ==
    ASSUME WorkerInv, NEW r \in Runs, AttemptFails(r), job[r].stage # "none"
    PROVE  WorkerInv' /\ AbstractStep
<1>1. CASE job[r].attempt <= RetryCount
  BY <1>1, AttemptStep DEF AttemptFails
<1>2. CASE ~(job[r].attempt <= RetryCount)
  BY <1>2, AnswerStep DEF AttemptFails
<1> QED
  BY <1>1, <1>2

LEMMA WorkerStep ==
    ASSUME WorkerInv, NEW r \in Runs, Worker(r)
    PROVE  WorkerInv' /\ AbstractStep
<1> DEFINE Goal == WorkerInv' /\ AbstractStep
<1>job. DOMAIN job = Runs /\ DOMAIN job[r] = JobFields
  BY DEF WorkerInv, GuestInv
<1>1. CASE Receive(r)
  <2>1. job[r].stage # "none" /\ InWorker
    BY <1>1 DEF Receive, Runnable
  <2>2. CASE Answer(r, "failed", request[r].state)
    BY <2>1, <2>2, AnswerStep
  <2>3. CASE /\ job' = [job EXCEPT ![r].stage = "cold", ![r].timer = On(ColdStart)]
             /\ UNCHANGED replies
    <3> DEFINE j == [job[r] EXCEPT !.stage = "cold", !.timer = On(ColdStart)]
    <3>1. job' = [job EXCEPT ![r] = j]
      BY <1>job, <2>3
    <3>2. DOMAIN j = JobFields /\ j.worker = job[r].worker /\ j.stage = "cold"
      BY <1>job DEF JobFields
    <3> HIDE DEF j
    <3> QED
      BY <2>1, <2>3, <3>1, <3>2, JobStep
  <2> QED
    BY <1>1, <2>2, <2>3 DEF Receive
<1>2. CASE Warm(r)
  BY <1>2, AttemptStep DEF Warm, Runnable
<1>3. CASE GuestMutates(r)
  <2> DEFINE j == [job[r] EXCEPT !.pos = @ + 1, !.clone = Append(@, <<r, job[r].pos + 1>>)]
  <2>1. /\ job[r].stage = "trying" /\ job[r].pos < Steps /\ InWorker /\ UNCHANGED replies
        /\ job' = [job EXCEPT ![r] = j]
    BY <1>3, <1>job DEF GuestMutates, Runnable
  <2>2. /\ DOMAIN j = JobFields /\ j.worker = job[r].worker /\ j.stage = "trying"
        /\ j.pos = job[r].pos + 1 /\ j.clone = Append(job[r].clone, <<r, job[r].pos + 1>>)
    BY <1>job, <2>1 DEF JobFields
  <2>3. /\ job[r].pos \in 0..Steps /\ request[r].state \in States
        /\ job[r].clone = Partly(request[r].state, r, job[r].pos)
    BY <2>1 DEF WorkerInv, HostInv, GuestInv
  <2> HIDE DEF j
  <2>4. j.pos \in 0..Steps
    BY <2>1, <2>2, <2>3, StepsAssumption
  <2>5. j.clone = Partly(request[r].state, r, j.pos)
    BY <2>1, <2>2, <2>3, PartlyGrows
  <2> QED
    BY <2>1, <2>2, <2>4, <2>5, JobStep
<1>4. CASE GuestReturns(r)
  <2>1. job[r].stage = "trying" /\ job[r].pos = Steps /\ InWorker
        /\ Answer(r, "ok", job[r].clone)
    BY <1>4 DEF GuestReturns, Runnable
  <2>2. /\ request[r].state \in States
        /\ job[r].clone = Partly(request[r].state, r, job[r].pos)
    BY <2>1 DEF WorkerInv, HostInv, GuestInv
  <2>3. job[r].clone = Effect(request[r].state, r)
    BY <2>1, <2>2, PartlyBounds
  <2> QED
    BY <2>1, <2>3, AnswerStep
<1>5. CASE ResultUnposted(r)
  <2> DEFINE j == [job[r] EXCEPT !.stage = "unposted", !.timer = Off]
  <2>1. /\ job[r].stage = "trying" /\ InWorker /\ UNCHANGED replies
        /\ job' = [job EXCEPT ![r] = j]
    BY <1>5, <1>job DEF ResultUnposted, Runnable
  <2>2. DOMAIN j = JobFields /\ j.worker = job[r].worker /\ j.stage = "unposted"
    BY <1>job DEF JobFields
  <2> HIDE DEF j
  <2> QED
    BY <2>1, <2>2, JobStep
<1>6. CASE GuestThrows(r) \/ AttemptTimesOut(r)
  BY <1>6, AttemptFailsStep DEF GuestThrows, AttemptTimesOut, Runnable
<1>7. CASE GuestWedges(r)
  <2>1. UNCHANGED <<request, outcome, pending, timer, transport, spawned, closed, job, replies>>
    BY <1>7 DEF GuestWedges, InWorker, hostVars
  <2> QED
    BY <2>1 DEF WorkerInv, HostInv, BooksInv, GuestInv, Unsettled, Abstract!Running, AbstractStep
<1> QED
  BY <1>1, <1>2, <1>3, <1>4, <1>5, <1>6, <1>7 DEF Worker

\* Time moves timers, and nothing else.
LEMMA TickStep ==
    ASSUME WorkerInv, Tick
    PROVE  WorkerInv' /\ AbstractStep
<1>1. /\ UNCHANGED <<request, outcome, pending, transport, spawned, closed, replies>>
      /\ timer' = [r \in Runs |-> Sooner(timer[r])]
      /\ job' = [r \in Runs |-> [job[r] EXCEPT !.timer = Sooner(@)]]
  BY DEF Tick
<1>2. \A r \in Runs : DOMAIN timer'[r] = {"on", "left"} /\ timer'[r].on = timer[r].on
  BY <1>1 DEF Sooner, WorkerInv, HostInv
<1>3. \A r \in Runs :
        /\ DOMAIN job'[r] = JobFields /\ job'[r].stage = job[r].stage
        /\ job'[r].worker = job[r].worker /\ job'[r].pos = job[r].pos
        /\ job'[r].clone = job[r].clone
  BY <1>1 DEF WorkerInv, GuestInv, JobFields
<1>4. HostInv'
  BY <1>1, <1>2 DEF WorkerInv, HostInv
<1>5. BooksInv'
  BY <1>1, <1>2, <1>3 DEF WorkerInv, BooksInv, Unsettled, Abstract!Running
<1>6. GuestInv'
  BY <1>1, <1>3 DEF WorkerInv, GuestInv
<1> QED
  BY <1>1, <1>4, <1>5, <1>6 DEF WorkerInv, AbstractStep

LEMMA WorkerNext == WorkerInv /\ [Next]_vars => WorkerInv' /\ AbstractStep
<1> SUFFICES ASSUME WorkerInv, [Next]_vars PROVE WorkerInv' /\ AbstractStep
  OBVIOUS
<1>1. CASE UNCHANGED vars
  BY <1>1
  DEF vars, hostVars, workerVars, WorkerInv, HostInv, BooksInv, GuestInv, Unsettled,
      Abstract!Running, AbstractStep
<1>2. ASSUME NEW r \in Runs, Execute(r) PROVE WorkerInv' /\ AbstractStep
  BY <1>2, ExecuteStep
<1>3. ASSUME NEW r \in Runs, HardTimeout(r) PROVE WorkerInv' /\ AbstractStep
  BY <1>3, HardTimeoutStep
<1>4. ASSUME NEW r \in Runs, Worker(r) PROVE WorkerInv' /\ AbstractStep
  BY <1>4, WorkerStep
<1>5. ASSUME NEW m \in replies, Deliver(m) PROVE WorkerInv' /\ AbstractStep
  BY <1>5, DeliverStep
<1> QED
  BY <1>1, <1>2, <1>3, <1>4, <1>5, DisposeStep, TickStep DEF Next

\* Host, books and worker agree at every step: the inductive invariant.
THEOREM WorkerInvariant == Spec => []WorkerInv
  BY WorkerInit, WorkerNext, PTL DEF Spec
-----------------------------------------------------------------------------
\* The host's books agree, for any number of runs and any timeouts: a run that has
\* not settled has its hard limit running and, until dispose(), its entry in
\* pending and the live worker.
THEOREM BooksAlwaysAgree == Spec => []BooksAgree
<1>1. WorkerInv => BooksAgree
  BY DEF WorkerInv, BooksInv, BooksAgree
<1> QED
  BY <1>1, WorkerInvariant, PTL

\* The safety part of Implements: each step of host and worker is one of the
\* abstract executor or changes neither requests nor outcomes, so that a success is
\* the whole effect of the guest on the requested state and is settled once.
ImplementsSteps == Abstract!ExecInit /\ [][Abstract!ExecNext]_<<request, outcome>>
\* WorkerExecutor.execute, over any worker, is the abstract executor, but for settling.
THEOREM WorkerImplements == Spec => ImplementsSteps
<1>1. Init => Abstract!ExecInit
  BY DEF Init
<1>2. WorkerInv /\ [Next]_vars => [Abstract!ExecNext]_<<request, outcome>>
  BY WorkerNext DEF AbstractStep
<1> QED
  BY <1>1, <1>2, WorkerInvariant, PTL DEF Spec, ImplementsSteps
-----------------------------------------------------------------------------
(* Types.                                                                   *)

\* The runs asked for; no more transports were made than there are of them.
Made == {r \in Runs : request[r].made}

\* Where a job is, its worker was made, and before its first attempt it had none.
JobOK(r) ==
    /\ job[r].worker <= spawned
    /\ job[r].stage # "none" => job[r].worker > 0
    /\ job[r].stage \in {"queued", "cold"} => job[r].attempt = 0

WorkerTypeInv ==
    /\ TypeOK
    /\ spawned <= Cardinality(Made)
    /\ \A r \in Runs : JobOK(r)

LEMMA TimerTypes ==
    /\ HardLimit \in Nat \ {0} /\ Off \in Timers
    /\ On(HardLimit) \in Timers /\ On(ColdStart) \in Timers /\ On(Timeout) \in Timers
  BY TimersAssumption DEF HardLimit, Timers, On, Off

LEMMA RunsCounted ==
    /\ Cardinality(Runs) \in Nat
    /\ IsFiniteSet(Made) /\ Cardinality(Made) \in Nat /\ Cardinality(Made) <= Cardinality(Runs)
  BY RunsAssumption, FS_CardinalityType, FS_Subset DEF Made

LEMMA ValueTypes ==
    /\ Abstract!Failure \in Abstract!Outcomes /\ Abstract!Rejection \in Abstract!Outcomes
    /\ Abstract!NoOutcome \in Abstract!Outcomes /\ Abstract!NoRequest \in Abstract!Requests
    /\ \A s \in States : /\ Abstract!Success(s) \in Abstract!Outcomes
                         /\ Abstract!Request(s) \in Abstract!Requests
  BY InitialIsState
  DEF Abstract!Failure, Abstract!Rejection, Abstract!NoOutcome, Abstract!NoRequest,
      Abstract!Success, Abstract!Request, Abstract!Outcomes, Abstract!Requests,
      Abstract!States, States, Abstract!Marks, Marks, Abstract!EmptyState, EmptyState

LEMMA NoJobType ==
    NoJob \in Jobs /\ NoJob.worker = 0 /\ NoJob.stage = "none" /\ NoJob.attempt = 0
  BY RunsCounted, TimerTypes, RetryCountAssumption, StepsAssumption, InitialIsState
  DEF NoJob, Jobs, Stages

LEMMA WorkerTypeInit == Init => WorkerTypeInv
<1> SUFFICES ASSUME Init PROVE WorkerTypeInv
  OBVIOUS
<1>1. /\ request = [r \in Runs |-> Abstract!NoRequest]
      /\ outcome = [r \in Runs |-> Abstract!NoOutcome]
      /\ pending = {} /\ timer = [r \in Runs |-> Off] /\ transport = 0 /\ spawned = 0
      /\ closed = FALSE /\ job = [r \in Runs |-> NoJob] /\ wedged = {} /\ replies = {}
      /\ late = FALSE
  BY DEF Init, Abstract!ExecInit
<1>2. TypeOK
  <2>1. request \in [Runs -> Abstract!Requests] /\ outcome \in [Runs -> Abstract!Outcomes]
    BY <1>1, ValueTypes
  <2>2. timer \in [Runs -> Timers] /\ job \in [Runs -> Jobs]
    BY <1>1, TimerTypes, NoJobType
  <2>3. 0 \in 0..Cardinality(Runs)
    BY RunsCounted
  <2>4. spawned \in 0..Cardinality(Runs) /\ transport \in {0, spawned}
    BY <1>1, <2>3
  <2> QED
    BY <1>1, <2>1, <2>2, <2>4 DEF TypeOK
<1>3. ASSUME NEW r \in Runs PROVE JobOK(r)
  <2>1. job[r].worker = 0 /\ job[r].stage = "none" /\ spawned = 0
    BY <1>1, NoJobType
  <2> QED
    BY <2>1 DEF JobOK
<1> QED
  BY <1>1, <1>2, <1>3, RunsCounted DEF WorkerTypeInv

\* execute() asks for a new run, and makes a transport at most.
LEMMA RequestTypes ==
    ASSUME WorkerTypeInv, NEW r \in Runs, NEW s \in States, Request(r, s),
           EnsureTransport \/ UNCHANGED <<transport, spawned>>
    PROVE  /\ request' \in [Runs -> Abstract!Requests]
           /\ spawned' \in 0..Cardinality(Runs) /\ spawned' >= spawned
           /\ transport' \in {0, spawned'} /\ spawned' <= Cardinality(Made')
           /\ EnsureTransport => Transport \in 1..spawned'
           /\ wedged' \subseteq 1..spawned' /\ UNCHANGED <<closed, wedged, replies, late>>
<1>1. /\ request' = [request EXCEPT ![r] = Abstract!Request(s)] /\ ~request[r].made
      /\ UNCHANGED <<closed, wedged, replies, late>>
  BY DEF Request
<1>2. request \in [Runs -> Abstract!Requests] /\ Abstract!Request(s).made
  BY DEF WorkerTypeInv, TypeOK, Abstract!Request
<1>3. request' \in [Runs -> Abstract!Requests]
  BY <1>1, <1>2, ValueTypes
<1>4. Made' = Made \cup {r} /\ r \notin Made
  BY <1>1, <1>2 DEF Made
<1>5. /\ Cardinality(Made') = Cardinality(Made) + 1 /\ Cardinality(Made') <= Cardinality(Runs)
      /\ Cardinality(Made) \in Nat /\ Cardinality(Runs) \in Nat
  BY <1>4, RunsCounted, FS_AddElement, FS_Subset, RunsAssumption DEF Made
<1>6. /\ spawned \in Nat /\ spawned <= Cardinality(Made) /\ transport \in {0, spawned}
      /\ wedged \subseteq 1..spawned
  BY RunsCounted DEF WorkerTypeInv, TypeOK
<1>7. CASE EnsureTransport
  BY <1>1, <1>3, <1>5, <1>6, <1>7 DEF EnsureTransport, Transport
<1>8. CASE UNCHANGED <<transport, spawned>>
  BY <1>1, <1>3, <1>5, <1>6, <1>8 DEF EnsureTransport, Transport
<1> QED
  BY <1>7, <1>8

LEMMA ExecuteTypes ==
    ASSUME WorkerTypeInv, NEW r \in Runs, NEW s \in States,
           Post(r, s) \/ Unpostable(r, s) \/ SpawnThrows(r, s)
    PROVE  WorkerTypeInv'
<1> USE RunsCounted
<1>0. Request(r, s) /\ (EnsureTransport \/ UNCHANGED <<transport, spawned>>)
  BY DEF Post, Unpostable, SpawnThrows
<1>a. /\ request' \in [Runs -> Abstract!Requests]
      /\ spawned' \in 0..Cardinality(Runs) /\ spawned' >= spawned
      /\ transport' \in {0, spawned'} /\ spawned' <= Cardinality(Made')
      /\ EnsureTransport => Transport \in 1..spawned'
      /\ wedged' \subseteq 1..spawned' /\ UNCHANGED <<closed, wedged, replies, late>>
  BY <1>0, RequestTypes
<1>b. /\ outcome \in [Runs -> Abstract!Outcomes] /\ pending \subseteq Runs
      /\ timer \in [Runs -> Timers] /\ job \in [Runs -> Jobs] /\ closed \in BOOLEAN
      /\ replies \subseteq Replies /\ late \in BOOLEAN /\ spawned \in Nat
      /\ \A q \in Runs : JobOK(q) /\ job[q].worker \in Nat
  BY DEF WorkerTypeInv, TypeOK, Jobs
<1>1. CASE Post(r, s)
  <2> DEFINE j == [NoJob EXCEPT !.stage = "queued", !.worker = Transport]
  <2>1. /\ EnsureTransport /\ UNCHANGED outcome /\ pending' = pending \cup {r}
        /\ timer' = [timer EXCEPT ![r] = On(HardLimit)] /\ job' = [job EXCEPT ![r] = j]
    BY <1>1 DEF Post
  <2>2. Transport \in 0..Cardinality(Runs)
    BY <1>a, <2>1
  <2>3. j \in Jobs /\ j.worker = Transport /\ j.attempt = 0
    <3> DEFINE n == Cardinality(Runs)
    <3> HIDE DEF n
    <3>1. NoJob \in [stage : Stages, worker : 0..n, attempt : 0..(RetryCount + 1),
                     pos : 0..Steps, clone : States, timer : Timers]
      BY NoJobType DEF Jobs, n
    <3>2. Transport \in 0..n /\ "queued" \in Stages
      BY <2>2 DEF n, Stages
    <3>3. /\ j \in [stage : Stages, worker : 0..n, attempt : 0..(RetryCount + 1),
                    pos : 0..Steps, clone : States, timer : Timers]
          /\ j.worker = Transport /\ j.attempt = NoJob.attempt
      BY <3>1, <3>2
    <3> QED
      BY <3>3, NoJobType DEF Jobs, n
  <2> HIDE DEF j
  <2>4. timer' \in [Runs -> Timers] /\ job' \in [Runs -> Jobs]
    BY <1>b, <2>1, <2>3, TimerTypes
  <2>5. TypeOK'
    BY <1>a, <1>b, <2>1, <2>4 DEF TypeOK
  <2>6. ASSUME NEW q \in Runs PROVE JobOK(q)'
    <3>1. CASE q = r
      BY <1>a, <1>b, <2>1, <2>3, <3>1 DEF JobOK
    <3>2. CASE q # r
      BY <1>a, <1>b, <2>1, <3>2 DEF JobOK
    <3> QED
      BY <3>1, <3>2
  <2> QED
    BY <1>a, <2>5, <2>6 DEF WorkerTypeInv
<1>2. CASE Unpostable(r, s) \/ SpawnThrows(r, s)
  <2>1. /\ UNCHANGED <<pending, timer, job>>
        /\ \E o \in {Abstract!Failure, Abstract!Rejection} :
              outcome' = [outcome EXCEPT ![r] = o]
    BY <1>2 DEF Unpostable, SpawnThrows
  <2>2. outcome' \in [Runs -> Abstract!Outcomes]
    BY <1>b, <2>1, ValueTypes
  <2>3. TypeOK'
    BY <1>a, <1>b, <2>1, <2>2 DEF TypeOK
  <2>4. \A q \in Runs : JobOK(q)'
    BY <1>a, <1>b, <2>1 DEF JobOK
  <2> QED
    BY <1>a, <2>3, <2>4 DEF WorkerTypeInv
<1> QED
  BY <1>1, <1>2

\* What does not touch request and spawned keeps the rest of the invariant.
LEMMA SpawnedKeeps ==
    ASSUME WorkerTypeInv, UNCHANGED <<request, spawned>>, TypeOK',
           \A r \in Runs : JobOK(r)'
    PROVE  WorkerTypeInv'
  BY DEF WorkerTypeInv, Made

LEMMA DeliverTypes ==
    ASSUME WorkerTypeInv, NEW m \in replies, Deliver(m)
    PROVE  WorkerTypeInv'
<1>1. /\ UNCHANGED <<request, transport, spawned, closed, job, wedged, late>>
      /\ replies' \subseteq replies
  BY DEF Deliver, workerVars
<1>2. m.run \in Runs /\ m.state \in States
  BY DEF WorkerTypeInv, TypeOK, Replies
<1>3. /\ pending' \subseteq pending /\ timer' \in [Runs -> Timers]
      /\ outcome' \in [Runs -> Abstract!Outcomes]
  <2>1. timer \in [Runs -> Timers] /\ outcome \in [Runs -> Abstract!Outcomes]
    BY DEF WorkerTypeInv, TypeOK
  <2>2. CASE m.run \notin pending
    BY <2>1, <2>2 DEF Deliver
  <2>3. CASE m.run \in pending
    <3>1. PICK o \in {Abstract!Success(m.state), Abstract!Failure} :
            outcome' = [outcome EXCEPT ![m.run] = o]
      BY <2>3 DEF Deliver
    <3>2. o \in Abstract!Outcomes
      BY <1>2, ValueTypes
    <3>3. timer' = [timer EXCEPT ![m.run] = Off] /\ pending' \subseteq pending
      BY <2>3 DEF Deliver
    <3> QED
      BY <2>1, <3>1, <3>2, <3>3, TimerTypes
  <2> QED
    BY <2>2, <2>3
<1>4. TypeOK'
  BY <1>1, <1>3 DEF WorkerTypeInv, TypeOK
<1>5. \A r \in Runs : JobOK(r)'
  BY <1>1 DEF WorkerTypeInv, JobOK
<1> QED
  BY <1>1, <1>4, <1>5, SpawnedKeeps

LEMMA TerminateTypes ==
    ASSUME WorkerTypeInv, Terminate(transport), UNCHANGED <<request, spawned, late>>,
           pending' = {}, closed' \in BOOLEAN,
           timer' \in [Runs -> Timers], outcome' \in [Runs -> Abstract!Outcomes]
    PROVE  WorkerTypeInv'
<1>1. /\ transport' = 0 /\ wedged' \subseteq wedged /\ replies' \subseteq replies
      /\ job' = [r \in Runs |-> IF job[r].worker = transport THEN NoJob ELSE job[r]]
  BY DEF Terminate
<1>2. job' \in [Runs -> Jobs]
  BY <1>1, NoJobType DEF WorkerTypeInv, TypeOK
<1>3. TypeOK'
  BY <1>1, <1>2 DEF WorkerTypeInv, TypeOK
<1>4. \A r \in Runs : JobOK(r)'
  <2>1. spawned \in Nat
    BY RunsCounted DEF WorkerTypeInv, TypeOK
  <2> QED
    BY <1>1, <2>1, NoJobType DEF WorkerTypeInv, JobOK
<1> QED
  BY <1>3, <1>4, SpawnedKeeps

LEMMA HardTimeoutTypes ==
    ASSUME WorkerTypeInv, NEW r \in Runs, HardTimeout(r)
    PROVE  WorkerTypeInv'
<1> DEFINE failed == pending \cup {r}
<1>1. /\ Terminate(transport) /\ pending' = {} /\ UNCHANGED <<request, spawned, closed, late>>
      /\ outcome' = [q \in Runs |-> IF q \in failed THEN Abstract!Failure ELSE outcome[q]]
      /\ timer' = [q \in Runs |-> IF q \in failed THEN Off ELSE timer[q]]
  BY DEF HardTimeout
<1> HIDE DEF failed
<1>2. timer' \in [Runs -> Timers] /\ outcome' \in [Runs -> Abstract!Outcomes]
  BY <1>1, TimerTypes, ValueTypes DEF WorkerTypeInv, TypeOK
<1>3. closed' \in BOOLEAN
  BY <1>1 DEF WorkerTypeInv, TypeOK
<1> QED
  BY <1>1, <1>2, <1>3, TerminateTypes

LEMMA DisposeTypes == WorkerTypeInv /\ Dispose => WorkerTypeInv'
<1> SUFFICES ASSUME WorkerTypeInv, Dispose PROVE WorkerTypeInv'
  OBVIOUS
<1>1. /\ Terminate(transport) /\ UNCHANGED <<request, spawned, late>> /\ pending' = {}
      /\ closed' \in BOOLEAN /\ UNCHANGED <<timer, outcome>>
  BY DEF Dispose
<1> QED
  BY <1>1, TerminateTypes DEF WorkerTypeInv, TypeOK

\* A step of a worker is of one job, whose worker stays.
LEMMA JobTypes ==
    ASSUME WorkerTypeInv, NEW r \in Runs, InWorker, NEW j \in Jobs, job' = [job EXCEPT ![r] = j],
           j.worker = job[r].worker, job[r].stage # "none",
           j.stage \in {"queued", "cold"} => j.attempt = 0,
           replies' \subseteq Replies, UNCHANGED wedged
    PROVE  WorkerTypeInv'
<1>1. UNCHANGED <<request, outcome, pending, timer, transport, spawned, closed, late>>
  BY DEF InWorker, hostVars
<1>2. job \in [Runs -> Jobs]
  BY DEF WorkerTypeInv, TypeOK
<1>3. job' \in [Runs -> Jobs] /\ job'[r] = j /\ \A q \in Runs : q # r => job'[q] = job[q]
  BY <1>2
<1>4. TypeOK'
  BY <1>1, <1>3 DEF WorkerTypeInv, TypeOK
<1>5. ASSUME NEW q \in Runs PROVE JobOK(q)'
  <2>1. CASE q = r
    BY <1>1, <1>3, <2>1 DEF WorkerTypeInv, JobOK
  <2>2. CASE q # r
    BY <1>1, <1>3, <2>2 DEF WorkerTypeInv, JobOK
  <2> QED
    BY <2>1, <2>2
<1> QED
  BY <1>1, <1>4, <1>5, SpawnedKeeps

\* What a job becomes by Answer and by Attempt.
Answered(r) == [job[r] EXCEPT !.stage = "answered", !.timer = Off]
Tried(r, n) == [job[r] EXCEPT !.stage = "trying", !.attempt = n, !.pos = 0,
                              !.clone = request[r].state, !.timer = On(Timeout)]

LEMMA AnsweredJob ==
    ASSUME TypeOK, NEW r \in Runs
    PROVE  /\ Answered(r) \in Jobs /\ Answered(r).worker = job[r].worker
           /\ Answered(r).stage = "answered" /\ Answered(r).attempt = job[r].attempt
           /\ \A kind, s : Answer(r, kind, s) =>
                /\ job' = [job EXCEPT ![r] = Answered(r)]
                /\ replies' = replies \cup {Reply(r, kind, s)}
  BY TimerTypes DEF TypeOK, Jobs, Stages, Answered, Answer

LEMMA TriedJob ==
    ASSUME TypeOK, NEW r \in Runs, NEW n \in 0..(RetryCount + 1)
    PROVE  /\ Tried(r, n) \in Jobs /\ Tried(r, n).worker = job[r].worker
           /\ Tried(r, n).stage = "trying" /\ Tried(r, n).attempt = n
           /\ Tried(r, n).timer = On(Timeout)
           /\ Attempt(r, n) => job' = [job EXCEPT ![r] = Tried(r, n)]
<1>1. request[r].state \in States
  BY DEF TypeOK, Abstract!Requests, Abstract!States, States, Abstract!Marks, Marks
<1>2. job \in [Runs -> Jobs] /\ On(Timeout) \in Timers /\ 0 \in 0..Steps
  BY TimerTypes, StepsAssumption DEF TypeOK
<1>3. Attempt(r, n) => job' = [job EXCEPT ![r] = Tried(r, n)]
  BY <1>2 DEF Tried, Attempt
<1>4. job[r] \in Jobs
  BY <1>2
<1> QED
  BY <1>1, <1>2, <1>3, <1>4 DEF Jobs, Stages, Tried

LEMMA AnswerTypes ==
    ASSUME WorkerTypeInv, NEW r \in Runs, InWorker, job[r].stage # "none", UNCHANGED wedged,
           NEW kind \in {"ok", "failed"}, NEW s \in States, Answer(r, kind, s)
    PROVE  WorkerTypeInv'
<1>1. TypeOK
  BY DEF WorkerTypeInv
<1>2. replies \cup {Reply(r, kind, s)} \subseteq Replies
  BY <1>1 DEF TypeOK, Replies, Reply
<1>3. replies' \subseteq Replies
  BY <1>1, <1>2, AnsweredJob
<1> QED
  BY <1>1, <1>3, AnsweredJob, JobTypes

LEMMA AttemptTypes ==
    ASSUME WorkerTypeInv, NEW r \in Runs, InWorker, job[r].stage # "none",
           NEW n \in 0..(RetryCount + 1), Attempt(r, n), UNCHANGED <<replies, wedged>>
    PROVE  WorkerTypeInv'
<1>1. TypeOK
  BY DEF WorkerTypeInv
<1>2. replies' \subseteq Replies
  BY <1>1 DEF TypeOK
<1> QED
  BY <1>1, <1>2, TriedJob, JobTypes

LEMMA AttemptFailsTypes ==
    ASSUME WorkerTypeInv, NEW r \in Runs, AttemptFails(r), job[r].stage # "none"
    PROVE  WorkerTypeInv'
<1>1. /\ job[r].attempt \in 0..(RetryCount + 1) /\ request[r].state \in States
      /\ InWorker /\ UNCHANGED wedged
  BY DEF WorkerTypeInv, TypeOK, Jobs, Abstract!Requests, Abstract!States, States,
         Abstract!Marks, Marks, AttemptFails
<1>2. CASE job[r].attempt <= RetryCount
  <2>1. job[r].attempt + 1 \in 0..(RetryCount + 1)
    BY <1>1, <1>2, RetryCountAssumption
  <2>2. Attempt(r, job[r].attempt + 1) /\ UNCHANGED replies
    BY <1>2 DEF AttemptFails
  <2> QED
    BY <1>1, <2>1, <2>2, AttemptTypes
<1>3. CASE ~(job[r].attempt <= RetryCount)
  <2>1. Answer(r, "failed", request[r].state)
    BY <1>3 DEF AttemptFails
  <2> QED
    BY <1>1, <2>1, AnswerTypes
<1> QED
  BY <1>2, <1>3

\* What else a job becomes.
Cold(r) == [job[r] EXCEPT !.stage = "cold", !.timer = On(ColdStart)]
Mutated(r) == [job[r] EXCEPT !.pos = job[r].pos + 1,
                             !.clone = Append(job[r].clone, <<r, job[r].pos + 1>>)]
Unposted(r) == [job[r] EXCEPT !.stage = "unposted", !.timer = Off]

LEMMA OtherJobs ==
    ASSUME TypeOK, NEW r \in Runs
    PROVE  /\ Cold(r) \in Jobs /\ Cold(r).worker = job[r].worker /\ Cold(r).stage = "cold"
           /\ Cold(r).attempt = job[r].attempt /\ Cold(r).timer = On(ColdStart)
           /\ Unposted(r) \in Jobs /\ Unposted(r).worker = job[r].worker
           /\ Unposted(r).stage = "unposted"
           /\ job[r].pos < Steps =>
                /\ Mutated(r) \in Jobs /\ Mutated(r).worker = job[r].worker
                /\ Mutated(r).stage = job[r].stage /\ Mutated(r).timer = job[r].timer
                /\ Mutated(r).attempt = job[r].attempt
<1>1. job[r] \in Jobs /\ job[r].pos \in 0..Steps /\ job[r].clone \in Seq(Marks)
  BY DEF TypeOK, Jobs, States
<1>2. ASSUME job[r].pos < Steps
      PROVE  job[r].pos + 1 \in 0..Steps /\ Append(job[r].clone, <<r, job[r].pos + 1>>) \in States
  BY <1>1, <1>2, StepsAssumption, AppendProperties DEF Marks, States
<1> QED
  BY <1>1, <1>2, TimerTypes DEF Jobs, Stages, Cold, Unposted, Mutated

LEMMA WorkerStepTypes ==
    ASSUME WorkerTypeInv, NEW r \in Runs, Worker(r)
    PROVE  WorkerTypeInv'
<1>t. TypeOK /\ JobOK(r) /\ replies \subseteq Replies /\ job \in [Runs -> Jobs]
  BY DEF WorkerTypeInv, TypeOK
<1>s. request[r].state \in States /\ job[r].clone \in States
  BY <1>t DEF TypeOK, Jobs, Abstract!Requests, Abstract!States, States, Abstract!Marks, Marks
<1>1. CASE Receive(r)
  <2>1. job[r].stage = "queued" /\ InWorker /\ UNCHANGED wedged
    BY <1>1 DEF Receive, Runnable
  <2>2. CASE Answer(r, "failed", request[r].state)
    BY <1>s, <2>1, <2>2, AnswerTypes
  <2>3. CASE /\ job' = [job EXCEPT ![r].stage = "cold", ![r].timer = On(ColdStart)]
             /\ UNCHANGED replies
    <3>1. job' = [job EXCEPT ![r] = Cold(r)]
      BY <1>t, <2>3 DEF Cold
    <3>2. job[r].attempt = 0
      BY <1>t, <2>1 DEF JobOK
    <3> QED
      BY <1>t, <2>1, <2>3, <3>1, <3>2, OtherJobs, JobTypes
  <2> QED
    BY <1>1, <2>2, <2>3 DEF Receive
<1>2. CASE Warm(r)
  <2>1. 1 \in 0..(RetryCount + 1)
    BY RetryCountAssumption
  <2> QED
    BY <1>2, <2>1, AttemptTypes DEF Warm, Runnable
<1>3. CASE GuestMutates(r)
  <2>1. /\ job[r].stage = "trying" /\ job[r].pos < Steps /\ InWorker /\ UNCHANGED <<replies, wedged>>
        /\ job' = [job EXCEPT ![r] = Mutated(r)]
    BY <1>3, <1>t DEF GuestMutates, Runnable, Mutated
  <2> QED
    BY <1>t, <2>1, OtherJobs, JobTypes
<1>4. CASE GuestReturns(r)
  BY <1>4, <1>s, AnswerTypes DEF GuestReturns, Runnable
<1>5. CASE ResultUnposted(r)
  <2>1. /\ job[r].stage = "trying" /\ InWorker /\ UNCHANGED <<replies, wedged>>
        /\ job' = [job EXCEPT ![r] = Unposted(r)]
    BY <1>5, <1>t DEF ResultUnposted, Runnable, Unposted
  <2> QED
    BY <1>t, <2>1, OtherJobs, JobTypes
<1>6. CASE GuestThrows(r) \/ AttemptTimesOut(r)
  BY <1>6, AttemptFailsTypes DEF GuestThrows, AttemptTimesOut, Runnable
<1>7. CASE GuestWedges(r)
  <2>1. /\ UNCHANGED <<request, outcome, pending, timer, transport, spawned, closed, job,
                       replies, late>>
        /\ job[r].stage # "none" /\ wedged' = wedged \cup {job[r].worker}
    BY <1>7 DEF GuestWedges, Runnable, InWorker, hostVars
  <2>2. job[r].worker \in Nat /\ spawned \in Nat
    BY <1>t, RunsCounted DEF TypeOK, Jobs
  <2>0. wedged \subseteq 1..spawned
    BY <1>t DEF TypeOK
  <2>6. job[r].worker \in 1..spawned
    BY <1>t, <2>1, <2>2 DEF JobOK
  <2>3. wedged' \subseteq 1..spawned
    BY <2>0, <2>1, <2>6
  <2>4. TypeOK'
    BY <1>t, <2>1, <2>3 DEF TypeOK
  <2>5. \A q \in Runs : JobOK(q)'
    BY <2>1 DEF WorkerTypeInv, JobOK
  <2> QED
    BY <2>1, <2>4, <2>5, SpawnedKeeps
<1> QED
  BY <1>1, <1>2, <1>3, <1>4, <1>5, <1>6, <1>7 DEF Worker

\* A timer that is sooner is on as before, one tick less, and never less than due.
LEMMA SoonerOK ==
    ASSUME NEW t \in Timers
    PROVE  /\ Sooner(t) \in Timers /\ Sooner(t).on = t.on
           /\ t.left > 0 => Sooner(t).left = t.left - 1
           /\ Sooner(t).left <= t.left
  BY TimersAssumption DEF Timers, Sooner, HardLimit

LEMMA TickTypes == WorkerTypeInv /\ Tick => WorkerTypeInv'
<1> SUFFICES ASSUME WorkerTypeInv, Tick PROVE WorkerTypeInv'
  OBVIOUS
<1>1. /\ UNCHANGED <<request, outcome, pending, transport, spawned, closed, wedged, replies>>
      /\ timer' = [r \in Runs |-> Sooner(timer[r])]
      /\ job' = [r \in Runs |-> [job[r] EXCEPT !.timer = Sooner(job[r].timer)]]
      /\ late' \in BOOLEAN
  BY DEF Tick, WorkerTypeInv, TypeOK
<1>2. ASSUME NEW r \in Runs
      PROVE  /\ Sooner(timer[r]) \in Timers
             /\ [job[r] EXCEPT !.timer = Sooner(job[r].timer)] \in Jobs
             /\ job'[r].stage = job[r].stage /\ job'[r].worker = job[r].worker
             /\ job'[r].attempt = job[r].attempt
  <2>1. job[r] \in Jobs /\ timer[r] \in Timers /\ job[r].timer \in Timers
    BY DEF WorkerTypeInv, TypeOK, Jobs
  <2>2. Sooner(timer[r]) \in Timers /\ Sooner(job[r].timer) \in Timers
    BY <2>1, SoonerOK
  <2> QED
    BY <1>1, <2>1, <2>2 DEF Jobs
<1>3. timer' \in [Runs -> Timers] /\ job' \in [Runs -> Jobs]
  BY <1>1, <1>2
<1>4. TypeOK'
  BY <1>1, <1>3 DEF WorkerTypeInv, TypeOK
<1>5. \A r \in Runs : JobOK(r)'
  BY <1>1, <1>2 DEF WorkerTypeInv, JobOK
<1> QED
  BY <1>1, <1>4, <1>5, SpawnedKeeps

LEMMA WorkerTypeNext == WorkerTypeInv /\ [Next]_vars => WorkerTypeInv'
<1> SUFFICES ASSUME WorkerTypeInv, [Next]_vars PROVE WorkerTypeInv'
  OBVIOUS
<1>1. CASE UNCHANGED vars
  BY <1>1 DEF vars, hostVars, workerVars, WorkerTypeInv, TypeOK, Made, JobOK
<1>2. ASSUME NEW r \in Runs, Execute(r) PROVE WorkerTypeInv'
  BY <1>2, ExecuteTypes, InitialIsState DEF Execute
<1>3. ASSUME NEW r \in Runs, HardTimeout(r) PROVE WorkerTypeInv'
  BY <1>3, HardTimeoutTypes
<1>4. ASSUME NEW r \in Runs, Worker(r) PROVE WorkerTypeInv'
  BY <1>4, WorkerStepTypes
<1>5. ASSUME NEW m \in replies, Deliver(m) PROVE WorkerTypeInv'
  BY <1>5, DeliverTypes
<1> QED
  BY <1>1, <1>2, <1>3, <1>4, <1>5, DisposeTypes, TickTypes DEF Next

\* Type correctness of host and worker, and no more workers than runs asked for.
THEOREM WorkerTypes == Spec => []TypeOK
<1>1. WorkerTypeInv => TypeOK
  BY DEF WorkerTypeInv
<1> QED
  BY <1>1, WorkerTypeInit, WorkerTypeNext, PTL DEF Spec
-----------------------------------------------------------------------------
(* Time.                                                                    *)

\* The hard limit of r is running, and nothing has been late.
Watched(r) == ~late /\ ~closed /\ timer[r].on

\* The grace covers the cold start and every retry; and what the attempts of a run
\* before its n-th have taken of it at most.
RetriesFit == ColdStart + RetryCount * Timeout < Grace
Spent(n) == (n - 1) * Timeout

\* It runs ahead of nothing that r still needs time for: in each stage of its first
\* attempt, and of the others where they fit, there is enough left for the timers of
\* the worker, and an answer is on its way before it is due.
Excused(r) == \/ job[r].worker \in wedged \/ job[r].stage = "unposted"
              \/ job[r].attempt >= 2 /\ ~RetriesFit
InTime(r) ==
    \/ Excused(r)
    \/ job[r].stage = "queued" /\ timer[r].left = HardLimit
    \/ /\ job[r].stage = "cold" /\ job[r].timer.on
       /\ timer[r].left >= job[r].timer.left + (HardLimit - ColdStart)
    \/ /\ job[r].stage = "trying" /\ job[r].attempt >= 1 /\ job[r].timer.on
       /\ timer[r].left + Spent(job[r].attempt) >= job[r].timer.left + (Grace - ColdStart)
    \/ /\ job[r].stage = "answered" /\ timer[r].left > 0
       /\ \E m \in replies : m.run = r

TimeInv == ColdStart < Grace => \A r \in Runs : Watched(r) => InTime(r)
TimedInv == WorkerInv /\ WorkerTypeInv /\ TimeInv

\* A run that a step leaves alone stays in time.
LEMMA LeftAlone ==
    ASSUME NEW q, Watched(q) => InTime(q), Watched(q)',
           job'[q] = job[q], timer'[q] = timer[q], wedged \subseteq wedged',
           UNCHANGED late, closed => closed',
           \A m \in replies : m.run = q => m \in replies'
    PROVE  InTime(q)'
<1>1. InTime(q)
  BY DEF Watched
<1> QED
  BY <1>1 DEF InTime, Excused

LEMMA ExecuteInTime ==
    ASSUME TimedInv, NEW r \in Runs, Execute(r)
    PROVE  TimeInv'
<1>1. PICK s \in {InitialState} : Post(r, s) \/ Unpostable(r, s) \/ SpawnThrows(r, s)
  BY DEF Execute
<1>2. UNCHANGED <<closed, wedged, replies, late>>
  BY <1>1 DEF Post, Unpostable, SpawnThrows, Request
<1>3. CASE Unpostable(r, s) \/ SpawnThrows(r, s)
  <2>1. UNCHANGED <<timer, job>>
    BY <1>3 DEF Unpostable, SpawnThrows
  <2> QED
    BY <1>2, <2>1, LeftAlone DEF TimedInv, TimeInv
<1>4. CASE Post(r, s)
  <2>1. /\ timer' = [timer EXCEPT ![r] = On(HardLimit)]
        /\ job' = [job EXCEPT ![r] = [NoJob EXCEPT !.stage = "queued", !.worker = Transport]]
    BY <1>4 DEF Post
  <2>2. DOMAIN timer = Runs /\ DOMAIN job = Runs
    BY DEF TimedInv, WorkerInv, HostInv, GuestInv
  <2>3. timer'[r].left = HardLimit /\ job'[r].stage = "queued"
    BY <2>1, <2>2 DEF On, NoJob
  <2>4. \A q \in Runs : q # r => timer'[q] = timer[q] /\ job'[q] = job[q]
    BY <2>1, <2>2
  <2>5. InTime(r)'
    BY <2>3 DEF InTime, HardLimit
  <2> QED
    BY <1>2, <2>4, <2>5, LeftAlone DEF TimedInv, TimeInv
<1> QED
  BY <1>1, <1>3, <1>4

\* Until dispose(), a run whose hard limit is running is pending.
LEMMA WatchedIsPending ==
    ASSUME WorkerInv, NEW r \in Runs, ~closed, timer[r].on
    PROVE  r \in pending
  BY DEF WorkerInv, BooksInv

LEMMA DeliverInTime ==
    ASSUME TimedInv, NEW m \in replies, Deliver(m)
    PROVE  TimeInv'
<1>1. UNCHANGED <<closed, job, wedged, late>> /\ replies' = replies \ {m}
  BY DEF Deliver, workerVars
<1>2. ASSUME NEW q \in Runs, Watched(q)' PROVE timer'[q] = timer[q] /\ q # m.run
  <2>1. DOMAIN timer = Runs
    BY DEF TimedInv, WorkerInv, HostInv
  <2>2. CASE m.run \in pending
    <3>1. timer' = [timer EXCEPT ![m.run] = Off]
      BY <2>2 DEF Deliver
    <3> QED
      BY <1>2, <2>1, <3>1 DEF Watched, Off
  <2>3. CASE m.run \notin pending
    <3>1. UNCHANGED timer
      BY <2>3 DEF Deliver
    <3> QED
      BY <1>1, <1>2, <2>3, <3>1, WatchedIsPending DEF Watched, TimedInv
  <2> QED
    BY <2>2, <2>3
<1> QED
  BY <1>1, <1>2, LeftAlone DEF TimedInv, TimeInv

\* A reset leaves no hard limit running.
LEMMA ResetInTime ==
    ASSUME TimedInv, NEW r \in Runs, HardTimeout(r) \/ Dispose
    PROVE  TimeInv'
<1>1. CASE Dispose
  BY <1>1 DEF Dispose, TimeInv, Watched
<1>2. CASE HardTimeout(r)
  <2>1. /\ timer' = [q \in Runs |-> IF q \in pending \cup {r} THEN Off ELSE timer[q]]
        /\ UNCHANGED closed
    BY <1>2 DEF HardTimeout
  <2>2. ASSUME NEW q \in Runs, Watched(q)' PROVE FALSE
    <3>1. timer[q].on /\ ~closed /\ q \notin pending
      BY <2>1, <2>2 DEF Watched, Off
    <3> QED
      BY <3>1, WatchedIsPending DEF TimedInv
  <2> QED
    BY <2>2 DEF TimeInv
<1> QED
  BY <1>1, <1>2

\* A step of the worker of r is in time if r stays so.
LEMMA JobInTime ==
    ASSUME TimedInv, NEW r \in Runs, InWorker, NEW j, job' = [job EXCEPT ![r] = j],
           replies \subseteq replies', UNCHANGED wedged,
           ColdStart < Grace /\ Watched(r) /\ InTime(r) /\ job'[r] = j /\ timer'[r] = timer[r]
               => InTime(r)'
    PROVE  TimeInv'
<1>1. UNCHANGED <<timer, closed, late>>
  BY DEF InWorker, hostVars
<1>2. job'[r] = j /\ \A q \in Runs : q # r => job'[q] = job[q]
  BY DEF TimedInv, WorkerInv, GuestInv
<1>3. \A q \in Runs : Watched(q)' => Watched(q)
  BY <1>1 DEF Watched
<1>4. ColdStart < Grace /\ Watched(r)' => InTime(r)'
  BY <1>1, <1>2, <1>3 DEF TimedInv, TimeInv
<1> QED
  BY <1>1, <1>2, <1>4, LeftAlone DEF TimedInv, TimeInv

LEMMA Numbers ==
    ASSUME TypeOK, NEW r \in Runs
    PROVE  /\ timer[r].left \in Nat /\ job[r].timer.left \in Nat /\ job[r].attempt \in Nat
           /\ timer[r].on \in BOOLEAN /\ job[r].timer.on \in BOOLEAN
           /\ job[r].stage \in Stages
           /\ Timeout \in Nat \ {0} /\ Grace \in Nat \ {0} /\ ColdStart \in Nat
           /\ HardLimit = Timeout + Grace
<1>1. timer[r] \in Timers /\ job[r] \in Jobs
  BY DEF TypeOK
<1>2. /\ timer[r].left \in 0..(HardLimit + ColdStart) /\ timer[r].on \in BOOLEAN
      /\ job[r].timer \in Timers /\ job[r].stage \in Stages
      /\ job[r].attempt \in 0..(RetryCount + 1)
  BY <1>1 DEF Timers, Jobs
<1> QED
  BY <1>2, TimersAssumption DEF Timers, HardLimit

\* What the attempts take, by number; where they fit, never all of the grace.
LEMMA SpentTime ==
    ASSUME NEW n \in Nat, n \in 1..(RetryCount + 1)
    PROVE  /\ Spent(n) \in Nat /\ Spent(1) = 0 /\ Spent(n + 1) = Spent(n) + Timeout
           /\ RetriesFit => Spent(n) < Grace - ColdStart
           /\ n = 1 /\ ColdStart < Grace => Spent(n) < Grace - ColdStart
<1>1. /\ Timeout \in Nat /\ Grace \in Nat /\ ColdStart \in Nat /\ RetryCount \in Nat
      /\ n - 1 \in Nat /\ RetryCount - (n - 1) \in Nat
  BY TimersAssumption, RetryCountAssumption
<1>2. /\ (n - 1) * Timeout \in Nat /\ (RetryCount - (n - 1)) * Timeout \in Nat
      /\ RetryCount * Timeout \in Nat
  BY <1>1
<1>3. RetryCount * Timeout = (n - 1) * Timeout + (RetryCount - (n - 1)) * Timeout
  BY <1>1
<1>4. ((n + 1) - 1) * Timeout = (n - 1) * Timeout + Timeout /\ (1 - 1) * Timeout = 0
  BY <1>1
<1>5. RetriesFit => (n - 1) * Timeout < Grace - ColdStart
  <2> DEFINE a == (n - 1) * Timeout
             b == (RetryCount - (n - 1)) * Timeout
             c == RetryCount * Timeout
  <2>1. a \in Nat /\ b \in Nat /\ c \in Nat /\ c = a + b
    BY <1>2, <1>3
  <2>2. RetriesFit => ColdStart + c < Grace
    BY DEF RetriesFit
  <2> HIDE DEF a, b, c
  <2>3. RetriesFit => a < Grace - ColdStart
    BY <1>1, <2>1, <2>2
  <2> QED
    BY <2>3 DEF a
<1>6. n = 1 /\ ColdStart < Grace => Spent(n) < Grace - ColdStart
  BY <1>1, <1>4 DEF Spent
<1> QED
  BY <1>2, <1>4, <1>5, <1>6 DEF Spent

\* While r is in time, its hard limit has time left.
LEMMA InTimeIsNotDue ==
    ASSUME TypeOK, NEW r \in Runs, ColdStart < Grace, InTime(r), ~Excused(r),
           job[r].stage # "answered"
    PROVE  timer[r].left > 0
<1>1. /\ timer[r].left \in Nat /\ job[r].timer.left \in Nat /\ job[r].attempt \in Nat
      /\ Timeout \in Nat \ {0} /\ Grace \in Nat \ {0} /\ ColdStart \in Nat
      /\ HardLimit = Timeout + Grace
  BY Numbers
<1>2. CASE job[r].stage \in {"queued", "cold"}
  BY <1>1, <1>2 DEF InTime
<1>3. CASE job[r].stage \notin {"queued", "cold"}
  <2>1. /\ job[r].attempt >= 1
        /\ timer[r].left + Spent(job[r].attempt) >= job[r].timer.left + (Grace - ColdStart)
    BY <1>3 DEF InTime
  <2>2. job[r].attempt = 1 \/ RetriesFit
    BY <1>1, <2>1 DEF Excused
  <2>3. job[r].attempt \in 1..(RetryCount + 1)
    BY <1>1, <2>1 DEF TypeOK, Jobs
  <2>4. Spent(job[r].attempt) \in Nat /\ Spent(job[r].attempt) < Grace - ColdStart
    BY <1>1, <2>2, <2>3, SpentTime
  <2> QED
    BY <1>1, <2>1, <2>4
<1> QED
  BY <1>2, <1>3

LEMMA AnswerInTime ==
    ASSUME TimedInv, NEW r \in Runs, InWorker, UNCHANGED wedged,
           Runnable(r, "queued") \/ Runnable(r, "trying"),
           NEW kind, NEW s, Answer(r, kind, s)
    PROVE  TimeInv'
<1>1. TypeOK
  BY DEF TimedInv, WorkerTypeInv
<1>2. /\ job' = [job EXCEPT ![r] = Answered(r)] /\ replies' = replies \cup {Reply(r, kind, s)}
      /\ Answered(r).worker = job[r].worker /\ Answered(r).stage = "answered"
      /\ Answered(r).attempt = job[r].attempt
  BY <1>1, AnsweredJob
<1>3. ASSUME ColdStart < Grace, InTime(r), job'[r] = Answered(r), timer'[r] = timer[r]
      PROVE  InTime(r)'
  <2>1. Reply(r, kind, s) \in replies' /\ Reply(r, kind, s).run = r
    BY <1>2 DEF Reply
  <2>2. Excused(r) \/ timer[r].left > 0
    <3>1. job[r].stage # "answered"
      BY DEF Runnable
    <3> QED
      BY <1>1, <1>3, <3>1, InTimeIsNotDue
  <2>3. ~(job[r].stage = "unposted") /\ job[r].worker \notin wedged
    BY DEF Runnable
  <2>4. Excused(r) => Excused(r)'
    BY <1>2, <1>3, <2>3 DEF Excused
  <2> QED
    BY <1>2, <1>3, <2>1, <2>2, <2>4 DEF InTime
<1> QED
  BY <1>2, <1>3, JobInTime

LEMMA AttemptFailsInTime ==
    ASSUME TimedInv, NEW r \in Runs, AttemptFails(r), Runnable(r, "trying")
    PROVE  TimeInv'
<1>1. TypeOK /\ InWorker /\ UNCHANGED wedged
  BY DEF TimedInv, WorkerTypeInv, AttemptFails
<1>2. CASE job[r].attempt <= RetryCount
  <2>1. job[r].attempt \in Nat /\ job[r].attempt + 1 \in 0..(RetryCount + 1)
    BY <1>1, <1>2, Numbers, RetryCountAssumption
  <2>2. Attempt(r, job[r].attempt + 1) /\ UNCHANGED replies
    BY <1>2 DEF AttemptFails
  <2>3. /\ job' = [job EXCEPT ![r] = Tried(r, job[r].attempt + 1)]
        /\ Tried(r, job[r].attempt + 1).attempt = job[r].attempt + 1
        /\ Tried(r, job[r].attempt + 1).worker = job[r].worker
        /\ Tried(r, job[r].attempt + 1).stage = "trying"
        /\ Tried(r, job[r].attempt + 1).timer = On(Timeout)
    BY <1>1, <2>1, <2>2, TriedJob
  <2>4. ASSUME InTime(r), job'[r] = Tried(r, job[r].attempt + 1), timer'[r] = timer[r]
        PROVE  InTime(r)'
    <3> DEFINE n == job[r].attempt
    <3>1. /\ job'[r].attempt = n + 1 /\ job'[r].stage = "trying"
          /\ job'[r].timer.on /\ job'[r].timer.left = Timeout
      BY <2>3, <2>4 DEF On
    <3>2. CASE Excused(r)
      <4>1. n >= 2 /\ ~RetriesFit
        BY <3>2 DEF Excused, Runnable
      <4> QED
        BY <2>1, <3>1, <4>1 DEF InTime, Excused
    <3>3. CASE ~Excused(r)
      <4>1. n >= 1 /\ timer[r].left + Spent(n) >= job[r].timer.left + (Grace - ColdStart)
        BY <2>4, <3>3 DEF InTime, Runnable
      <4>2. n \in 1..(RetryCount + 1)
        BY <1>2, <2>1, <4>1, RetryCountAssumption
      <4>3. Spent(n) \in Nat /\ Spent(n + 1) = Spent(n) + Timeout
        BY <2>1, <4>2, SpentTime
      <4>4. timer'[r].left + Spent(n + 1) >= Timeout + (Grace - ColdStart)
        <5> HIDE DEF n
        <5> QED BY <1>1, <2>4, <4>1, <4>3, Numbers
      <4>5. n + 1 >= 1
        BY <2>1
      <4> HIDE DEF n
      <4> QED
        BY <3>1, <4>4, <4>5 DEF InTime
    <3> QED
      BY <3>2, <3>3
  <2> QED
    BY <1>1, <2>2, <2>3, <2>4, JobInTime
<1>3. CASE ~(job[r].attempt <= RetryCount)
  <2>1. Answer(r, "failed", request[r].state)
    BY <1>3 DEF AttemptFails
  <2> QED
    BY <1>1, <2>1, AnswerInTime
<1> QED
  BY <1>2, <1>3

LEMMA WorkerInTime ==
    ASSUME TimedInv, NEW r \in Runs, Worker(r)
    PROVE  TimeInv'
<1>t. TypeOK /\ JobOK(r) /\ job \in [Runs -> Jobs]
  BY DEF TimedInv, WorkerTypeInv, TypeOK
<1>1. CASE Receive(r)
  <2>1. Runnable(r, "queued") /\ InWorker /\ UNCHANGED wedged
    BY <1>1 DEF Receive
  <2>2. CASE Answer(r, "failed", request[r].state)
    BY <2>1, <2>2, AnswerInTime
  <2>3. CASE /\ job' = [job EXCEPT ![r].stage = "cold", ![r].timer = On(ColdStart)]
             /\ UNCHANGED replies
    <3>1. job' = [job EXCEPT ![r] = Cold(r)]
      BY <1>t, <2>3 DEF Cold
    <3>2. ASSUME InTime(r), job'[r] = Cold(r), timer'[r] = timer[r] PROVE InTime(r)'
      <4>1. timer[r].left = HardLimit
        BY <1>t, <2>1, <3>2, Numbers DEF InTime, Excused, Runnable, JobOK
      <4>2. Cold(r).stage = "cold" /\ Cold(r).timer.on /\ Cold(r).timer.left = ColdStart
        BY <1>t, OtherJobs DEF On
      <4>3. HardLimit >= ColdStart + (HardLimit - ColdStart)
        BY <1>t, Numbers
      <4> QED
        BY <3>2, <4>1, <4>2, <4>3 DEF InTime, HardLimit
    <3> QED
      BY <2>1, <2>3, <3>1, <3>2, JobInTime
  <2> QED
    BY <1>1, <2>2, <2>3 DEF Receive
<1>2. CASE Warm(r)
  <2>1. /\ Runnable(r, "cold") /\ Due(job[r].timer) /\ Attempt(r, 1) /\ InWorker
        /\ UNCHANGED <<replies, wedged>> /\ 1 \in 0..(RetryCount + 1)
    BY <1>2, RetryCountAssumption DEF Warm
  <2>2. /\ job' = [job EXCEPT ![r] = Tried(r, 1)] /\ Tried(r, 1).attempt = 1
        /\ Tried(r, 1).stage = "trying" /\ Tried(r, 1).timer = On(Timeout)
    BY <1>t, <2>1, TriedJob
  <2>3. ASSUME InTime(r), job'[r] = Tried(r, 1), timer'[r] = timer[r] PROVE InTime(r)'
    <3>1. timer[r].left >= HardLimit - ColdStart
      BY <1>t, <2>1, <2>3, Numbers DEF InTime, Excused, Runnable, JobOK, Due
    <3>2. timer[r].left + Spent(1) >= Timeout + (Grace - ColdStart)
      <4>1. Spent(1) = 0
        BY RetryCountAssumption, SpentTime
      <4> QED
        BY <1>t, <3>1, <4>1, Numbers
    <3> QED
      BY <2>2, <2>3, <3>2 DEF InTime, On
  <2> QED
    BY <2>1, <2>2, <2>3, JobInTime
<1>3. CASE GuestMutates(r)
  <2>1. /\ Runnable(r, "trying") /\ job[r].pos < Steps /\ InWorker /\ UNCHANGED <<replies, wedged>>
        /\ job' = [job EXCEPT ![r] = Mutated(r)]
    BY <1>3, <1>t DEF GuestMutates, Mutated
  <2>2. /\ Mutated(r).worker = job[r].worker /\ Mutated(r).stage = job[r].stage
        /\ Mutated(r).timer = job[r].timer /\ Mutated(r).attempt = job[r].attempt
    BY <1>t, <2>1, OtherJobs
  <2>3. ASSUME InTime(r), job'[r] = Mutated(r), timer'[r] = timer[r] PROVE InTime(r)'
    BY <2>1, <2>2, <2>3 DEF InTime, Excused
  <2> QED
    BY <2>1, <2>3, JobInTime
<1>4. CASE GuestReturns(r)
  BY <1>4, AnswerInTime DEF GuestReturns
<1>5. CASE ResultUnposted(r)
  <2>1. /\ InWorker /\ UNCHANGED <<replies, wedged>> /\ job' = [job EXCEPT ![r] = Unposted(r)]
    BY <1>5, <1>t DEF ResultUnposted, Unposted
  <2>2. job'[r] = Unposted(r) => InTime(r)'
    BY <1>t, OtherJobs DEF InTime, Excused
  <2> QED
    BY <2>1, <2>2, JobInTime
<1>6. CASE GuestThrows(r) \/ AttemptTimesOut(r)
  BY <1>6, AttemptFailsInTime DEF GuestThrows, AttemptTimesOut
<1>7. CASE GuestWedges(r)
  <2>1. UNCHANGED <<timer, closed, late, job, replies>> /\ wedged \subseteq wedged'
    BY <1>7 DEF GuestWedges, InWorker, hostVars
  <2> QED
    BY <2>1, LeftAlone DEF TimedInv, TimeInv
<1> QED
  BY <1>1, <1>2, <1>3, <1>4, <1>5, <1>6, <1>7 DEF Worker

\* When no one is late, every timer that runs has a tick left to lose.
LEMMA TickInTime ==
    ASSUME TimedInv, Tick
    PROVE  TimeInv'
<1>1. /\ UNCHANGED <<closed, wedged, replies>> /\ late' = (late \/ Ready)
      /\ timer' = [r \in Runs |-> Sooner(timer[r])]
      /\ job' = [r \in Runs |-> [job[r] EXCEPT !.timer = Sooner(job[r].timer)]]
  BY DEF Tick
<1>t. TypeOK
  BY DEF TimedInv, WorkerTypeInv
<1>2. SUFFICES ASSUME NEW r \in Runs, Watched(r)', ColdStart < Grace PROVE InTime(r)'
  BY DEF TimeInv
<1>3. job[r] \in Jobs /\ timer[r] \in Timers /\ job[r].timer \in Timers
  BY <1>t DEF TypeOK, Jobs
<1>4. /\ job'[r].stage = job[r].stage /\ job'[r].worker = job[r].worker
      /\ job'[r].attempt = job[r].attempt /\ job'[r].timer = Sooner(job[r].timer)
      /\ timer'[r] = Sooner(timer[r])
  BY <1>1, <1>3 DEF Jobs
<1>5. ~late /\ ~Ready /\ Watched(r)
  BY <1>1, <1>2, <1>3, <1>4, SoonerOK DEF Watched
<1>6. InTime(r)
  BY <1>2, <1>5 DEF TimedInv, TimeInv
<1>7. CASE Excused(r)
  BY <1>1, <1>4, <1>7 DEF InTime, Excused
<1>8. CASE ~Excused(r)
  <2>1. job[r].stage # "queued" /\ job[r].stage # "answered"
    BY <1>5, <1>6, <1>8 DEF InTime, Excused, Ready, Runnable
  <2>2. job[r].timer.on /\ job[r].timer.left # 0
    BY <1>5, <1>6, <1>8, <2>1 DEF InTime, Excused, Ready, Due
  <2>3. job[r].timer.left > 0 /\ timer[r].left > 0
    BY <1>2, <1>6, <1>8, <1>t, <2>1, <2>2, Numbers, InTimeIsNotDue
  <2>4. /\ job'[r].timer.left = job[r].timer.left - 1 /\ job'[r].timer.on
        /\ timer'[r].left = timer[r].left - 1
    BY <1>3, <1>4, <2>2, <2>3, SoonerOK
  <2>5. CASE job[r].stage = "cold"
    <3>1. timer[r].left >= job[r].timer.left + (HardLimit - ColdStart)
      BY <1>6, <1>8, <2>5 DEF InTime
    <3>2. timer'[r].left >= job'[r].timer.left + (HardLimit - ColdStart)
      BY <1>t, <2>4, <3>1, Numbers
    <3> QED
      BY <1>4, <2>4, <2>5, <3>2 DEF InTime, HardLimit
  <2>6. CASE job[r].stage = "trying"
    <3> DEFINE n == job[r].attempt
    <3>1. n >= 1 /\ timer[r].left + Spent(n) >= job[r].timer.left + (Grace - ColdStart)
      BY <1>6, <1>8, <2>6 DEF InTime
    <3>2. n \in 1..(RetryCount + 1)
      BY <1>3, <3>1, RetryCountAssumption DEF Jobs
    <3>3. Spent(n) \in Nat
      BY <3>2, RetryCountAssumption, SpentTime
    <3>4. timer'[r].left + Spent(n) >= job'[r].timer.left + (Grace - ColdStart)
      <4> HIDE DEF n
      <4> QED BY <1>t, <2>4, <3>1, <3>3, Numbers
    <3> QED
      BY <1>4, <2>4, <2>6, <3>1, <3>4 DEF InTime
  <2> QED
    BY <1>6, <1>8, <2>1, <2>5, <2>6 DEF InTime
<1> QED
  BY <1>7, <1>8

LEMMA TimedInit == Init => TimedInv
<1> SUFFICES ASSUME Init PROVE TimedInv
  OBVIOUS
<1>1. \A r \in Runs : ~timer[r].on
  BY DEF Init, Off
<1>2. TimeInv
  BY <1>1 DEF TimeInv, Watched
<1> QED
  BY <1>2, WorkerInit, WorkerTypeInit DEF TimedInv

LEMMA TimedNext == TimedInv /\ [Next]_vars => TimedInv'
<1> SUFFICES ASSUME TimedInv, [Next]_vars PROVE TimedInv'
  OBVIOUS
<1>1. WorkerInv' /\ WorkerTypeInv'
  BY WorkerNext, WorkerTypeNext DEF TimedInv
<1>2. ASSUME UNCHANGED vars PROVE TimeInv'
  <2>1. UNCHANGED <<timer, closed, job, wedged, replies, late>>
    BY <1>2 DEF vars, hostVars, workerVars
  <2> QED
    BY <2>1, LeftAlone DEF TimedInv, TimeInv, Watched
<1>3. ASSUME Next PROVE TimeInv'
  <2>1. ASSUME NEW r \in Runs, Execute(r) \/ HardTimeout(r) \/ Worker(r) PROVE TimeInv'
    BY <2>1, ExecuteInTime, ResetInTime, WorkerInTime
  <2>2. ASSUME NEW m \in replies, Deliver(m) PROVE TimeInv'
    BY <2>2, DeliverInTime
  <2>3. ASSUME Dispose PROVE TimeInv'
    BY <2>3 DEF Dispose, TimeInv, Watched
  <2> QED
    BY <1>3, <2>1, <2>2, <2>3, TickInTime DEF Next
<1> QED
  BY <1>1, <1>2, <1>3 DEF TimedInv

\* The hard limit stays behind the timers of the worker: the inductive invariant.
THEOREM TimedInvariant == Spec => []TimedInv
  BY TimedInit, TimedNext, PTL DEF Spec

\* Whatever the timeout, the number of retries and the runs that share the worker:
\* if the cold start is shorter than what the hard limit of execute() adds, no
\* first attempt is killed but for a wedged thread or a result that is not posted.
THEOREM FirstAttemptsKeepTheirTime == Spec => []FirstAttemptKeepsItsTime
<1>1. TimedInv => FirstAttemptKeepsItsTime
  <2> SUFFICES ASSUME TimedInv, ColdStart < Grace,
                      NEW r \in Runs, job[r].attempt <= 1,
                      Due(timer[r]), ~late, ~closed
               PROVE  job[r].worker \in wedged \/ job[r].stage = "unposted"
    BY DEF FirstAttemptKeepsItsTime, KilledForCause
  <2>1. TypeOK /\ timer[r].left = 0 /\ InTime(r)
    BY DEF TimedInv, WorkerTypeInv, TimeInv, Watched, Due
  <2>2. job[r].attempt \in Nat
    BY <2>1, Numbers
  <2> QED
    BY <2>1, <2>2, InTimeIsNotDue DEF InTime, Excused
<1> QED
  BY <1>1, TimedInvariant, PTL

\* And where the grace covers the retries too, no attempt is: the hard limit is right
\* for policies without retries or with a grace of as many timeouts as it allows.
\* (The hardLimit of execute(), which adds a constant second; worker_retry shows a
\* policy whose retries do not fit.)
THEOREM RetriesThatFitKeepTheirTime == RetriesFit => (Spec => []RetriesKeepTheirTime)
<1> SUFFICES ASSUME RetriesFit PROVE Spec => []RetriesKeepTheirTime
  OBVIOUS
<1>1. TimedInv => RetriesKeepTheirTime
  <2> SUFFICES ASSUME TimedInv, NEW r \in Runs, Due(timer[r]), ~late, ~closed
               PROVE  job[r].worker \in wedged \/ job[r].stage = "unposted"
    BY DEF RetriesKeepTheirTime, KilledForCause
  <2>1. ColdStart < Grace
    <3>1. RetryCount * Timeout \in Nat
      BY RetryCountAssumption, TimersAssumption
    <3> QED
      BY <3>1, TimersAssumption DEF RetriesFit
  <2>2. TypeOK /\ timer[r].left = 0 /\ InTime(r)
    BY <2>1 DEF TimedInv, WorkerTypeInv, TimeInv, Watched, Due
  <2> QED
    BY <2>1, <2>2, InTimeIsNotDue DEF InTime, Excused
<1> QED
  BY <1>1, TimedInvariant, PTL
=============================================================================
