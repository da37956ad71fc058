------------------------------- MODULE Fabric -------------------------------
(***************************************************************************)
(* SandboxFabric of src/src/net/fabric.ts: sandboxes join and leave, the    *)
(* policy program is replaced, and requests are in flight meanwhile.  A     *)
(* request is cut at its one await, of the destination's run(), which       *)
(* settles as Sandbox says: ok, failed or rejected.                         *)
(***************************************************************************)
EXTENDS EbpfMap

CONSTANTS
    Boxes,          \* the sandboxes that may join
    NoBox,          \* none of them
    Calls,          \* the requests that may be made
    ClientHops,     \* the hops clients make requests over
    Policies,       \* the policy programs that may be installed
    MaxAddress      \* bound on the addresses given out

Ingress == 0
Addresses == 1..MaxAddress
Sources == {Ingress} \cup Addresses
Hops == Sources \X Addresses

\* A policy program is the set of hops it drops, those included on which it
\* faults; no program drops none.
NoPolicy == {}

ASSUME NoBoxAssumption == NoBox \notin Boxes
ASSUME CallsAssumption == IsFiniteSet(Calls)
ASSUME ClientHopsAssumption == ClientHops \subseteq Hops
ASSUME PoliciesAssumption == Policies \subseteq SUBSET Hops
ASSUME MaxAddressAssumption == MaxAddress \in Nat

VARIABLES
    endpoints,          \* the sandbox at each address in use
    nextAddress,
    policy,
    deliveredByDst,
    droppedBySrc,
    call,               \* call[q]: the request q
    firstAt             \* firstAt[a]: the sandbox that joined at a, first

fabricVars == <<endpoints, nextAddress, policy, deliveredByDst, droppedBySrc,
                call, firstAt>>

\* status is that of the NetResponse; box the sandbox a request was given to.
Statuses == {"200", "500", "404", "403", "503"}
Unanswered == {"unmade", "running", "rejected"}
CallRecords == [status : Statuses \cup Unanswered, from : Sources,
                to : Sources, box : Boxes \cup {NoBox}]
Made(s, f, t, b) == [status |-> s, from |-> f, to |-> t, box |-> b]
NoCall == Made("unmade", Ingress, Ingress, NoBox)

FabricTypeOK ==
    /\ endpoints \in UNION {[S -> Boxes] : S \in SUBSET Addresses}
    /\ nextAddress \in 1..(MaxAddress + 1)
    /\ policy \in SUBSET Hops
    /\ deliveredByDst \in EbpfMaps(Addresses)
    /\ droppedBySrc \in EbpfMaps(Sources)
    /\ call \in [Calls -> CallRecords]
    /\ firstAt \in UNION {[S -> Boxes] : S \in SUBSET Addresses}

FabricInit ==
    /\ endpoints = [a \in {} |-> NoBox]
    /\ nextAddress = Ingress + 1
    /\ policy \in Policies \cup {NoPolicy}
    /\ deliveredByDst = EmptyMap
    /\ droppedBySrc = EmptyMap
    /\ call = [q \in Calls |-> NoCall]
    /\ firstAt = [a \in {} |-> NoBox]
-----------------------------------------------------------------------------
(* Membership and policy.                                                   *)

With(f, x, y) == [z \in DOMAIN f \cup {x} |-> IF z = x THEN y ELSE f[z]]

\* Mutant: an address that was left is given out again.
JoinReusing(b) ==
    \E a \in Addresses :
        /\ a \notin DOMAIN endpoints
        /\ \A lower \in Addresses : lower < a => lower \in DOMAIN endpoints
        /\ endpoints' = With(endpoints, a, b)
        /\ nextAddress' = IF a >= nextAddress THEN a + 1 ELSE nextAddress
        /\ firstAt' = IF a \in DOMAIN firstAt THEN firstAt ELSE With(firstAt, a, b)
        /\ UNCHANGED <<policy, deliveredByDst, droppedBySrc, call>>

\* One sandbox may join more than once.
Join(b) ==
    /\ nextAddress <= MaxAddress
    /\ endpoints' = With(endpoints, nextAddress, b)
    /\ nextAddress' = nextAddress + 1
    /\ firstAt' = With(firstAt, nextAddress, b)
    /\ UNCHANGED <<policy, deliveredByDst, droppedBySrc, call>>

Leave(a) ==
    /\ a \in DOMAIN endpoints
    /\ endpoints' = [x \in DOMAIN endpoints \ {a} |-> endpoints[x]]
    /\ UNCHANGED <<nextAddress, policy, deliveredByDst, droppedBySrc, call, firstAt>>

SetPolicy(p) ==
    /\ policy' = p
    /\ UNCHANGED <<endpoints, nextAddress, deliveredByDst, droppedBySrc, call, firstAt>>
-----------------------------------------------------------------------------
(* request(): from the call to the await of run().                          *)

Settled(q, c) == call' = [call EXCEPT ![q] = c]

\* Mutant: drops are counted at the destination.
DroppedAtDst(q, from, to, status) ==
    /\ droppedBySrc' = Add(droppedBySrc, to, 1)
    /\ Settled(q, Made(status, from, to, NoBox))
    /\ UNCHANGED deliveredByDst

Dropped(q, from, to, status) ==
    /\ droppedBySrc' = Add(droppedBySrc, from, 1)
    /\ Settled(q, Made(status, from, to, NoBox))
    /\ UNCHANGED deliveredByDst

NotFound(q, from, to) ==
    /\ to \notin DOMAIN endpoints
    /\ Dropped(q, from, to, "404")

Denied(q, from, to) ==
    /\ to \in DOMAIN endpoints
    /\ <<from, to>> \in policy
    /\ Dropped(q, from, to, "403")

Deliver(q, from, to) ==
    /\ to \in DOMAIN endpoints
    /\ <<from, to>> \notin policy
    /\ Settled(q, Made("running", from, to, endpoints[to]))
    /\ UNCHANGED <<deliveredByDst, droppedBySrc>>

Request(q, from, to) ==
    /\ call[q].status = "unmade"
    /\ NotFound(q, from, to) \/ Denied(q, from, to) \/ Deliver(q, from, to)
    /\ UNCHANGED <<endpoints, nextAddress, policy, firstAt>>
-----------------------------------------------------------------------------
(* request(): once run() settled.                                           *)

Complete(q, status) ==
    /\ call[q].status = "running"
    /\ Settled(q, [call[q] EXCEPT !.status = status])
    /\ deliveredByDst' = Add(deliveredByDst, call[q].to, 1)
    /\ UNCHANGED <<endpoints, nextAddress, policy, droppedBySrc, firstAt>>

\* run() rejected, and with it request(): no counter moves.
Break(q) ==
    /\ call[q].status = "running"
    /\ Settled(q, [call[q] EXCEPT !.status = "rejected"])
    /\ UNCHANGED <<endpoints, nextAddress, policy, deliveredByDst, droppedBySrc, firstAt>>

FabricNext ==
    \/ \E b \in Boxes : Join(b)
    \/ \E a \in Addresses : Leave(a)
    \/ \E p \in Policies \cup {NoPolicy} : SetPolicy(p)
    \/ \E q \in Calls, hop \in ClientHops : Request(q, hop[1], hop[2])
    \/ \E q \in Calls : \/ \E status \in {"200", "500"} : Complete(q, status)
                        \/ Break(q)
-----------------------------------------------------------------------------
\* The counters are exact: what m says of an address is the number of the
\* answered requests counted there, and one it does not hold was never counted, or
\* found the map full.
Exact(m, countedAt(_), Keys) ==
    \A a \in Keys :
        LET n == Cardinality(countedAt(a))
        IN  IF a \in DOMAIN m THEN m[a] = n % Word
            ELSE n = 0 \/ Cardinality(DOMAIN m) = MaxEntries

DeliveredTo(a) == {q \in Calls : call[q].status \in {"200", "500"} /\ call[q].to = a}
DroppedFrom(a) == {q \in Calls : call[q].status \in {"404", "403"} /\ call[q].from = a}

\* Each answered request is counted once, in one counter, whatever membership and
\* policy do while it is in flight; a request that rejected is in neither.
\* (request() and its three exits, over EbpfMap.add().)
CountersExact ==
    /\ Exact(deliveredByDst, DeliveredTo, Addresses)
    /\ Exact(droppedBySrc, DroppedFrom, Sources)

\* An address means one sandbox for good: a request, from a client or a balancer
\* that holds an old address, reaches the sandbox that joined there or none.
\* (join() and leave(): nextAddress only grows.)
AddressKeepsItsBox ==
    /\ \A a \in DOMAIN endpoints : endpoints[a] = firstAt[a]
    /\ \A q \in Calls : call[q].box # NoBox => call[q].box = firstAt[call[q].to]
=============================================================================
