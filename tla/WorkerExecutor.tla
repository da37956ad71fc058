--------------------------- MODULE WorkerExecutor ---------------------------
(***************************************************************************)
(* WorkerExecutor of src/src/sandbox/executor.ts, the Web Worker behind its *)
(* WorkerTransport, and runGuestRequest inside the worker.  Host and worker *)
(* are two event loops that exchange messages; a guest that never yields    *)
(* wedges its worker, which only terminate() can stop.                      *)
(*                                                                          *)
(* Time is counted in ticks.  A timer whose ticks are used up is due, and   *)
(* fires whenever its event loop comes to it.                               *)
(***************************************************************************)
EXTENDS GuestState, FiniteSets

CONSTANTS
    RetryCount,     \* policy.retryCount
    Timeout,        \* policy.timeoutMs, in ticks
    Grace,          \* what hardLimit adds to it
    ColdStart       \* policy.coldStartMs, in ticks

ASSUME RunsAssumption == IsFiniteSet(Runs)
ASSUME RetryCountAssumption == RetryCount \in Nat
ASSUME TimersAssumption ==
    Timeout \in Nat \ {0} /\ Grace \in Nat \ {0} /\ ColdStart \in Nat

\* Mutant: no grace beyond the timeout.
HardLimitNoGrace == Timeout

HardLimit == Timeout + Grace

VARIABLES
    request,    \* request[r]: the request as execute() got it
    outcome,    \* outcome[r]: what execute() settled to
    pending,    \* keys of the pending map
    timer,      \* timer[r]: the hard-limit timer of r
    transport,  \* the live transport, or 0; transports are numbered
    spawned,    \* how many transports were made
    closed,     \* dispose() was called
    job,        \* job[r]: r inside its worker
    wedged,     \* workers whose thread never yields again
    replies,    \* messages on their way to the host
    late        \* time passed although some event loop had work to do

hostVars == <<request, outcome, pending, timer, transport, spawned, closed>>
workerVars == <<job, wedged>>
vars == <<hostVars, workerVars, replies, late>>

Abstract == INSTANCE Executor WITH MayThrow <- TRUE

Off == [on |-> FALSE, left |-> 0]
On(ticks) == [on |-> TRUE, left |-> ticks]
Due(t) == t.on /\ t.left = 0
Timers == [on : BOOLEAN, left : 0..(HardLimit + ColdStart)]

\* A run in its worker: queued behind onmessage, waiting for the cold start, in
\* an attempt, answered, or with a result that cannot be posted.
Stages == {"none", "queued", "cold", "trying", "answered", "unposted"}
Live == {"queued", "cold", "trying"}
Jobs == [stage : Stages, worker : 0..Cardinality(Runs), attempt : 0..(RetryCount + 1),
         pos : 0..Steps, clone : States, timer : Timers]
NoJob == [stage |-> "none", worker |-> 0, attempt |-> 0, pos |-> 0,
          clone |-> EmptyState, timer |-> Off]
Reply(r, kind, s) == [run |-> r, kind |-> kind, state |-> s]
Replies == [run : Runs, kind : {"ok", "failed"}, state : States]

TypeOK ==
    /\ request \in [Runs -> Abstract!Requests]
    /\ outcome \in [Runs -> Abstract!Outcomes]
    /\ pending \subseteq Runs
    /\ timer \in [Runs -> Timers]
    /\ spawned \in 0..Cardinality(Runs)
    /\ transport \in {0, spawned}
    /\ closed \in BOOLEAN
    /\ job \in [Runs -> Jobs]
    /\ wedged \subseteq 1..spawned
    /\ replies \subseteq Replies
    /\ late \in BOOLEAN

Init ==
    /\ Abstract!ExecInit
    /\ pending = {}
    /\ timer = [r \in Runs |-> Off]
    /\ transport = 0 /\ spawned = 0
    /\ closed = FALSE
    /\ job = [r \in Runs |-> NoJob]
    /\ wedged = {}
    /\ replies = {}
    /\ late = FALSE

Unsettled(r) == Abstract!Running(r)
-----------------------------------------------------------------------------
(* execute().  A disposed sandbox calls it no more (Sandbox.assertUsable).   *)

Request(r, s) ==
    /\ ~closed
    /\ ~request[r].made
    /\ request' = [request EXCEPT ![r] = Abstract!Request(s)]
    /\ UNCHANGED <<closed, wedged, replies, late>>

\* ensureTransport().
Transport == IF transport = 0 THEN spawned + 1 ELSE transport
EnsureTransport ==
    /\ transport' = Transport
    /\ spawned' = IF transport = 0 THEN spawned + 1 ELSE spawned

Post(r, s) ==
    /\ Request(r, s)
    /\ EnsureTransport
    /\ pending' = pending \cup {r}
    /\ timer' = [timer EXCEPT ![r] = On(HardLimit)]
    /\ job' = [job EXCEPT ![r] = [NoJob EXCEPT !.stage = "queued", !.worker = Transport]]
    /\ UNCHANGED outcome

\* post() throws on what cannot be cloned (args): the run fails, and neither
\* its timer nor its entry in pending is left behind.
Unpostable(r, s) ==
    /\ Request(r, s)
    /\ EnsureTransport
    /\ outcome' = [outcome EXCEPT ![r] = Abstract!Failure]
    /\ UNCHANGED <<pending, timer, job>>

\* The worker factory throws inside the Promise executor.
SpawnThrows(r, s) ==
    /\ Request(r, s)
    /\ transport = 0
    /\ outcome' = [outcome EXCEPT ![r] = Abstract!Rejection]
    /\ UNCHANGED <<pending, timer, transport, spawned, job>>
-----------------------------------------------------------------------------
(* The host's callbacks.                                                    *)

\* terminate(): the thread stops, and what it still had to say is dropped.
Terminate(w) ==
    /\ transport' = 0
    /\ job' = [r \in Runs |-> IF job[r].worker = w THEN NoJob ELSE job[r]]
    /\ wedged' = wedged \ {w}
    /\ replies' = {m \in replies : job[m.run].worker # w}

\* The transport's onMessage handler.
Deliver(m) ==
    /\ replies' = replies \ {m}
    /\ IF m.run \in pending
       THEN /\ pending' = pending \ {m.run}
            /\ timer' = [timer EXCEPT ![m.run] = Off]
            /\ outcome' = [outcome EXCEPT ![m.run] =
                              IF m.kind = "ok" THEN Abstract!Success(m.state)
                                               ELSE Abstract!Failure]
       ELSE UNCHANGED <<pending, timer, outcome>>
    /\ UNCHANGED <<request, transport, spawned, closed, workerVars, late>>

\* Mutant: hardReset() clears pending without failing the runs in it.
HardTimeoutForgetful(r) ==
    /\ Due(timer[r])
    /\ Terminate(transport)
    /\ outcome' = [outcome EXCEPT ![r] = Abstract!Failure]
    /\ timer' = [timer EXCEPT ![r] = Off]
    /\ pending' = {}
    /\ UNCHANGED <<request, spawned, closed, late>>

\* The hard limit of r: hardReset() terminates the worker and fails every run
\* that is pending on it, r included.
HardTimeout(r) ==
    /\ Due(timer[r])
    /\ Terminate(transport)
    /\ LET failed == pending \cup {r}
       IN  /\ outcome' = [q \in Runs |-> IF q \in failed THEN Abstract!Failure
                                                         ELSE outcome[q]]
           /\ timer' = [q \in Runs |-> IF q \in failed THEN Off ELSE timer[q]]
    /\ pending' = {}
    /\ UNCHANGED <<request, spawned, closed, late>>

\* dispose(): pending runs are forgotten, and left to their hard limits.
Dispose ==
    /\ closed' = TRUE
    /\ Terminate(transport)
    /\ pending' = {}
    /\ UNCHANGED <<request, outcome, timer, spawned, late>>
-----------------------------------------------------------------------------
(* runGuestRequest() in the worker of r.                                    *)

Runnable(r, stage) == job[r].stage = stage /\ job[r].worker \notin wedged
InWorker == UNCHANGED <<hostVars, late>>

\* Mutant: attempts share one clone.
AttemptSharingClone(r, n) ==
    job' = [job EXCEPT ![r].stage = "trying", ![r].attempt = n, ![r].pos = 0,
                       ![r].clone = IF n = 1 THEN request[r].state ELSE @,
                       ![r].timer = On(Timeout)]

\* Each attempt gets a clone of the request's state, and a timer.
Attempt(r, n) ==
    job' = [job EXCEPT ![r].stage = "trying", ![r].attempt = n, ![r].pos = 0,
                       ![r].clone = request[r].state, ![r].timer = On(Timeout)]

Answer(r, kind, s) ==
    /\ job' = [job EXCEPT ![r].stage = "answered", ![r].timer = Off]
    /\ replies' = replies \cup {Reply(r, kind, s)}

\* The message is taken: refused by the checks that are repeated here, or left
\* to wait for the cold start (not at all when ColdStart is 0).
Receive(r) ==
    /\ Runnable(r, "queued")
    /\ \/ Answer(r, "failed", request[r].state)
       \/ /\ job' = [job EXCEPT ![r].stage = "cold", ![r].timer = On(ColdStart)]
          /\ UNCHANGED replies
    /\ UNCHANGED wedged /\ InWorker

Warm(r) ==
    /\ Runnable(r, "cold") /\ Due(job[r].timer)
    /\ Attempt(r, 1)
    /\ UNCHANGED <<replies, wedged>> /\ InWorker

GuestMutates(r) ==
    /\ Runnable(r, "trying") /\ job[r].pos < Steps
    /\ job' = [job EXCEPT ![r].pos = @ + 1,
                          ![r].clone = Append(@, <<r, job[r].pos + 1>>)]
    /\ UNCHANGED <<replies, wedged>> /\ InWorker

GuestReturns(r) ==
    /\ Runnable(r, "trying") /\ job[r].pos = Steps
    /\ Answer(r, "ok", job[r].clone)
    /\ UNCHANGED wedged /\ InWorker

\* The value or the state cannot be posted: postMessage throws after the run is
\* over, and no answer is ever sent (worker-entry.ts).
ResultUnposted(r) ==
    /\ Runnable(r, "trying") /\ job[r].pos = Steps
    /\ job' = [job EXCEPT ![r].stage = "unposted", ![r].timer = Off]
    /\ UNCHANGED <<replies, wedged>> /\ InWorker

\* Mutant: one retry too many.
AttemptFailsOnceMore(r) ==
    /\ IF job[r].attempt <= RetryCount + 1
       THEN Attempt(r, job[r].attempt + 1) /\ UNCHANGED replies
       ELSE Answer(r, "failed", request[r].state)
    /\ UNCHANGED wedged /\ InWorker

\* The attempt threw, or its timer fired: the next one, or the failure.
AttemptFails(r) ==
    /\ IF job[r].attempt <= RetryCount
       THEN Attempt(r, job[r].attempt + 1) /\ UNCHANGED replies
       ELSE Answer(r, "failed", request[r].state)
    /\ UNCHANGED wedged /\ InWorker

GuestThrows(r) == Runnable(r, "trying") /\ AttemptFails(r)
AttemptTimesOut(r) == Runnable(r, "trying") /\ Due(job[r].timer) /\ AttemptFails(r)

\* Guest code that never yields, be it that of an attempt given up long ago: no
\* callback of this worker runs any more.
GuestWedges(r) ==
    /\ Runnable(r, "trying") \/ Runnable(r, "answered")
    /\ job[r].attempt > 0
    /\ wedged' = wedged \cup {job[r].worker}
    /\ UNCHANGED <<job, replies>> /\ InWorker
-----------------------------------------------------------------------------
(* Time.                                                                    *)

Sooner(t) == [t EXCEPT !.left = IF @ > 0 THEN @ - 1 ELSE 0]
SomeTimer == \E r \in Runs : timer[r].left > 0 \/ job[r].timer.left > 0

\* Work that needs no more time: to let time pass first is to be late.
Ready ==
    \/ replies # {}
    \/ \E r \in Runs :
          \/ Due(timer[r])
          \/ Runnable(r, "queued")
          \/ Due(job[r].timer) /\ job[r].worker \notin wedged

Tick ==
    /\ SomeTimer
    /\ timer' = [r \in Runs |-> Sooner(timer[r])]
    /\ job' = [r \in Runs |-> [job[r] EXCEPT !.timer = Sooner(@)]]
    /\ late' = (late \/ Ready)
    /\ UNCHANGED <<request, outcome, pending, transport, spawned, closed, wedged, replies>>
-----------------------------------------------------------------------------
Execute(r) ==
    \E s \in {InitialState} : Post(r, s) \/ Unpostable(r, s) \/ SpawnThrows(r, s)

Worker(r) ==
    \/ Receive(r) \/ Warm(r) \/ GuestMutates(r) \/ GuestReturns(r)
    \/ ResultUnposted(r) \/ GuestThrows(r) \/ AttemptTimesOut(r) \/ GuestWedges(r)

Next ==
    \/ \E r \in Runs : Execute(r) \/ HardTimeout(r) \/ Worker(r)
    \/ \E m \in replies : Deliver(m)
    \/ Dispose
    \/ Tick

\* Time passes and the host's timers fire.  The worker owes nothing, and no
\* message needs to arrive.
Spec ==
    /\ Init
    /\ [][Next]_vars
    /\ WF_vars(Tick)
    /\ \A r \in Runs : WF_vars(HardTimeout(r))
-----------------------------------------------------------------------------
\* Off the main thread a run is all or nothing and always settles, though threads
\* wedge, answers get lost and workers are terminated under other runs: the
\* executor does what Sandbox.run relies on.  (WorkerExecutor, WorkerTransport
\* and runGuestRequest together.)
Implements == Abstract!ExecSpec

\* The host's books agree: the runs that have not settled are those whose hard
\* limit is running and, until dispose(), those in pending, and every one of
\* them is with the live worker, so that no reset forgets a run.  (execute(),
\* the message handler, hardReset() and dispose().)
BooksAgree ==
    \A r \in Runs :
        /\ timer[r].on <=> Unsettled(r)
        /\ r \in pending <=> Unsettled(r) /\ ~closed
        /\ r \in pending => job[r].worker = transport

\* Only a wedged thread or a result that cannot be posted lets the hard limit of
\* r expire; what is merely slow is timed out in the worker first.
KilledForCause(r) ==
    Due(timer[r]) /\ ~late /\ ~closed =>
        job[r].worker \in wedged \/ job[r].stage = "unposted"

\* The first attempt of a run has all of its timeout before the worker is killed
\* under it, provided the cold start is shorter than the grace.  (The hardLimit
\* of execute() against the timers of runGuestRequest.)
FirstAttemptKeepsItsTime ==
    ColdStart < Grace =>
        \A r \in Runs : job[r].attempt <= 1 => KilledForCause(r)

\* "Automatic retries after a failed or timed-out invocation" (types/policy.ts)
\* and the hard limit is there for "a wedged thread" (executor.ts): a run that is
\* being retried is not killed either.
RetriesKeepTheirTime == \A r \in Runs : KilledForCause(r)
=============================================================================
