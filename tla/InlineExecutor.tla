--------------------------- MODULE InlineExecutor ---------------------------
(***************************************************************************)
(* InlineExecutor of src/src/sandbox/executor.ts with the GuestInvoker it   *)
(* drives: guests run in the host's event loop, a timeout only abandons     *)
(* them, and every attempt of a run gets the same ctx, so the same state    *)
(* object.  An abandoned guest goes on mutating that object.                *)
(*                                                                          *)
(* Runs share nothing but the event loop, so the runs of this module may be *)
(* on one executor or on several, with policies of their own.               *)
(***************************************************************************)
EXTENDS GuestState, FiniteSets

CONSTANT RetryCount     \* RetryCount[r]: policy.retryCount of r's executor

ASSUME RetryCountAssumption == RetryCount \in [Runs -> Nat]

VARIABLES
    request,    \* request[r]: the request as execute() got it
    phase,      \* phase[r]: how far execute() is
    object,     \* object[r]: the state object ctx and outcome share
    attempts    \* attempts[r]: the attempts the invoker made, in order

vars == <<request, phase, object, attempts>>

SingleShot == {r \in Runs : RetryCount[r] = 0}

\* The executor of the runs that are not retried.  execute() never rejects: it
\* turns every error into ok: false.  The outcome carries the state object, not
\* a copy of it.
Abstract == INSTANCE Executor WITH
    MayThrow <- FALSE,
    Runs <- SingleShot,
    request <- [r \in SingleShot |-> request[r]],
    outcome <- [r \in SingleShot |->
                  CASE phase[r] = "ok"     -> [kind |-> "ok", state |-> object[r]]
                    [] phase[r] = "failed" -> [kind |-> "failed", state |-> <<>>]
                    [] OTHER               -> [kind |-> "none", state |-> <<>>]]

Phases == {"idle", "warming", "trying", "ok", "failed"}

\* One attempt: where its guest code is, and the promise of runWithTimeout.
Attempts == [pos : 0..Steps, guest : {"running", "ended"},
             promise : {"pending", "resolved", "rejected"}]
NewAttempt == [pos |-> 0, guest |-> "running", promise |-> "pending"]

TypeOK ==
    /\ request \in [Runs -> [made : BOOLEAN, state : States]]
    /\ phase \in [Runs -> Phases]
    /\ object \in [Runs -> States]
    /\ attempts \in [Runs -> Seq(Attempts)]

Init ==
    /\ request = [r \in Runs |-> Abstract!NoRequest]
    /\ phase = [r \in Runs |-> "idle"]
    /\ object = [r \in Runs |-> EmptyState]
    /\ attempts = [r \in Runs |-> <<>>]

SetPhase(r, p) == phase' = [phase EXCEPT ![r] = p]
-----------------------------------------------------------------------------
(* execute() and invoke().                                                  *)

\* execute() is called with the clone the sandbox made, and awaits warm-up.
Execute(r, s) ==
    /\ phase[r] = "idle"
    /\ SetPhase(r, "warming")
    /\ request' = [request EXCEPT ![r] = Abstract!Request(s)]
    /\ object' = [object EXCEPT ![r] = s]
    /\ UNCHANGED attempts

\* Warm-up is over and the declared memory is within the budget.
Begin(r) ==
    /\ phase[r] = "warming"
    /\ SetPhase(r, "trying")
    /\ attempts' = [attempts EXCEPT ![r] = <<NewAttempt>>]
    /\ UNCHANGED <<request, object>>

\* The declared memory is above the budget.
OverBudget(r) ==
    /\ phase[r] = "warming"
    /\ SetPhase(r, "failed")
    /\ UNCHANGED <<request, object, attempts>>

\* The promise of an attempt settles once: later settlements are ignored.
SettlePromise(a, how) == IF a.promise = "pending" THEN [a EXCEPT !.promise = how] ELSE a

Last(r) == attempts[r][Len(attempts[r])]

\* The loop in invoke() resumes: the value is returned, or the error is caught
\* and the next attempt begins, or the last error is thrown.
Return(r) ==
    /\ phase[r] = "trying"
    /\ Last(r).promise = "resolved"
    /\ SetPhase(r, "ok")
    /\ UNCHANGED <<request, object, attempts>>

Retry(r) ==
    /\ phase[r] = "trying"
    /\ Last(r).promise = "rejected"
    /\ Len(attempts[r]) <= RetryCount[r]
    /\ attempts' = [attempts EXCEPT ![r] = Append(@, NewAttempt)]
    /\ UNCHANGED <<request, phase, object>>

GiveUp(r) ==
    /\ phase[r] = "trying"
    /\ Last(r).promise = "rejected"
    /\ Len(attempts[r]) > RetryCount[r]
    /\ SetPhase(r, "failed")
    /\ UNCHANGED <<request, object, attempts>>

\* The timer of the pending attempt fires: its guest is abandoned, not stopped.
TimerFires(r) ==
    /\ phase[r] = "trying"
    /\ Last(r).promise = "pending"
    /\ attempts' = [attempts EXCEPT ![r][Len(attempts[r])] = SettlePromise(@, "rejected")]
    /\ UNCHANGED <<request, phase, object>>
-----------------------------------------------------------------------------
(* The guest of attempt a, abandoned or not.                                *)

Guest(r, a) == attempts[r][a].guest = "running"

\* Mutant: a guest that ended mutates once more, as if it were called again.
GuestMutatesAgain(r, a) ==
    /\ attempts' = [attempts EXCEPT ![r][a].pos = @ + 1]
    /\ object' = [object EXCEPT ![r] = Append(@, <<r, attempts[r][a].pos + 1>>)]
    /\ UNCHANGED <<request, phase>>

GuestMutates(r, a) ==
    /\ Guest(r, a)
    /\ attempts[r][a].pos < Steps
    /\ attempts' = [attempts EXCEPT ![r][a].pos = @ + 1]
    /\ object' = [object EXCEPT ![r] = Append(@, <<r, attempts[r][a].pos + 1>>)]
    /\ UNCHANGED <<request, phase>>

GuestEnds(r, a, how) ==
    /\ Guest(r, a)
    /\ attempts' = [attempts EXCEPT
                      ![r][a] = [SettlePromise(@, how) EXCEPT !.guest = "ended"]]
    /\ UNCHANGED <<request, phase, object>>

\* Mutant: the promise the handler returns is not awaited.
GuestReturnsUnawaited(r, a) == GuestEnds(r, a, "resolved")

GuestReturns(r, a) == attempts[r][a].pos = Steps /\ GuestEnds(r, a, "resolved")
\* Mutant: the error is swallowed.
GuestThrowsUnheard(r, a) == GuestEnds(r, a, "resolved")

GuestThrows(r, a) == GuestEnds(r, a, "rejected")
-----------------------------------------------------------------------------
Invoker(r) == Begin(r) \/ OverBudget(r) \/ Return(r) \/ Retry(r) \/ GiveUp(r)

Next ==
    \E r \in Runs :
        \/ \E s \in {InitialState} : Execute(r, s)
        \/ Invoker(r)
        \/ TimerFires(r)
        \/ \E a \in 1..Len(attempts[r]) :
              GuestMutates(r, a) \/ GuestReturns(r, a) \/ GuestThrows(r, a)

\* Timers fire and awaits resume; guests owe nothing.  This holds as long as
\* guests yield: one that blocks the event loop blocks the timer with it.
Spec ==
    /\ Init
    /\ [][Next]_vars
    /\ \A r \in Runs : WF_vars(Invoker(r)) /\ WF_vars(TimerFires(r))
-----------------------------------------------------------------------------
\* Without retries an inline run is all or nothing and always settles: the
\* executor does what Sandbox.run relies on, abandoned guests included.
\* (InlineExecutor.execute, GuestInvoker.invoke and runWithTimeout.)
Implements == Abstract!ExecSpec

Times(mark, s) == Cardinality({i \in DOMAIN s : s[i] = mark})

\* With retries, all a success promises is that every mutation of the code was
\* made, and at most once per attempt.
AtLeastOnce ==
    \A r \in Runs : phase[r] = "ok" =>
        \A k \in 1..Steps : Times(<<r, k>>, object[r]) \in 1..Len(attempts[r])

\* "Mutations are committed only if your code completes without throwing"
\* (code-agent.ts, GUEST_SYSTEM_PROMPT): the state of a success is that of one
\* complete execution of the guest code.
OutcomeIsOneExecution ==
    \A r \in Runs : phase[r] = "ok" => object[r] = Effect(request[r].state, r)
=============================================================================
