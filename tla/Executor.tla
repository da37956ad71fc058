------------------------------ MODULE Executor ------------------------------
(***************************************************************************)
(* What Sandbox.run relies on when it awaits executor.execute(request): the *)
(* SandboxExecutor interface of src/src/sandbox/executor.ts as an abstract  *)
(* specification.  Sandbox is composed with it; InlineExecutor and          *)
(* WorkerExecutor are shown to implement it.                                *)
(***************************************************************************)
EXTENDS GuestState

CONSTANT MayThrow   \* whether the promise of execute() itself may reject

ASSUME MayThrowAssumption == MayThrow \in BOOLEAN

VARIABLES
    request,    \* request[r]: the ExecRequest of r, once made
    outcome     \* outcome[r]: what the promise of execute() settled to

execVars == <<request, outcome>>

NoRequest == [made |-> FALSE, state |-> EmptyState]
Request(s) == [made |-> TRUE, state |-> s]

\* An ExecOutcome.  The state of a failed one is not used by the sandbox, and
\* the implementations disagree about it, so it is left out here.
NoOutcome == [kind |-> "none", state |-> EmptyState]
Success(s) == [kind |-> "ok", state |-> s]
Failure == [kind |-> "failed", state |-> EmptyState]
Rejection == [kind |-> "rejected", state |-> EmptyState]

Requests == [made : BOOLEAN, state : States]
Outcomes == [kind : {"none", "ok", "failed", "rejected"}, state : States]

ExecTypeOK ==
    /\ request \in [Runs -> Requests]
    /\ outcome \in [Runs -> Outcomes]

ExecInit ==
    /\ request = [r \in Runs |-> NoRequest]
    /\ outcome = [r \in Runs |-> NoOutcome]

Running(r) == request[r].made /\ outcome[r].kind = "none"

Submit(r, s) ==
    /\ ~request[r].made
    /\ request' = [request EXCEPT ![r] = Request(s)]
    /\ UNCHANGED outcome

Settle(r, o) ==
    /\ Running(r)
    /\ outcome' = [outcome EXCEPT ![r] = o]
    /\ UNCHANGED request

\* The guest completed: the outcome carries its whole effect on the requested
\* state and nothing else.
Succeed(r) == Settle(r, Success(Effect(request[r].state, r)))

\* The guest threw, timed out, was refused or was terminated.
Fail(r) == Settle(r, Failure)

\* execute() threw.
Reject(r) == MayThrow /\ Settle(r, Rejection)

Complete(r) == Succeed(r) \/ Fail(r) \/ Reject(r)

\* The runtime goes down under several runs.
FailTogether(S) ==
    /\ \A r \in S : Running(r)
    /\ outcome' = [r \in Runs |-> IF r \in S THEN Failure ELSE outcome[r]]
    /\ UNCHANGED request

\* execute() settles at once, the guest never having run.
Refuse(r, s) ==
    /\ ~request[r].made
    /\ request' = [request EXCEPT ![r] = Request(s)]
    /\ \E o \in {Failure} \cup IF MayThrow THEN {Rejection} ELSE {} :
          outcome' = [outcome EXCEPT ![r] = o]

\* The sandbox may hand over any state.
SubmitSome(r) ==
    LET s == request'[r].state
    IN  s \in States /\ (Submit(r, s) \/ Refuse(r, s))

ExecNext ==
    \/ \E r \in Runs : SubmitSome(r) \/ Complete(r)
    \/ \E S \in SUBSET Runs : FailTogether(S)

\* Every invocation settles, whatever the guest does.
ExecSpec ==
    /\ ExecInit
    /\ [][ExecNext]_execVars
    /\ \A r \in Runs : WF_execVars(Complete(r))
=============================================================================
