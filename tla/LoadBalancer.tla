---------------------------- MODULE LoadBalancer ----------------------------
(***************************************************************************)
(* LoadBalancer of src/src/net/load-balancer.ts over the fabric, with the   *)
(* two programs of src/src/net/hooks.ts.  handle() reaches its first await  *)
(* inside the fabric's request(), so picking a backend and handing over the *)
(* request are one step.                                                    *)
(***************************************************************************)
EXTENDS Fabric, SequencesExt

CONSTANTS
    Programs,   \* balancing programs that may be installed
    Hashes      \* request hashes

\* roundRobinBalancer(), hashBalancer(), and one that faults or returns the
\* sentinel.
AllPrograms == {"roundRobin", "hash", "refuse"}
ASSUME ProgramsAssumption == Programs \subseteq AllPrograms
ASSUME HashesAssumption == Hashes \subseteq Nat

VARIABLES
    backends,   \* the pool, in order of addBackend()
    program,
    maps,       \* fd 0 of the program: the round-robin counter at key 0
    routed,     \* whether serveStatic() was called for the path in use
    turns       \* what round robin picked since the pool last changed

lbVars == <<backends, program, maps, routed, turns>>
vars == <<fabricVars, lbVars>>

TypeOK ==
    /\ FabricTypeOK
    /\ backends \in Seq(Addresses)
    /\ program \in AllPrograms
    /\ maps \in EbpfMaps({0})
    /\ routed \in BOOLEAN
    /\ turns \in Seq(Addresses)

Init ==
    /\ FabricInit
    /\ backends = <<>>
    /\ program = "roundRobin"
    /\ maps = EmptyMap
    /\ routed = FALSE
    /\ turns = <<>>

Fabrics == FabricNext /\ UNCHANGED lbVars
-----------------------------------------------------------------------------
(* The pool and the program.                                                *)

AddBackend(a) ==
    /\ a \notin Range(backends)
    /\ backends' = Append(backends, a)
    /\ turns' = <<>>
    /\ UNCHANGED <<fabricVars, program, maps, routed>>

RemoveBackend(a) ==
    \E index \in DOMAIN backends :
        /\ backends[index] = a
        /\ backends' = RemoveAt(backends, index)
        /\ turns' = <<>>
        /\ UNCHANGED <<fabricVars, program, maps, routed>>

\* Mutant: the new program gets new maps.
SetProgramFresh(p) ==
    /\ program' = p
    /\ maps' = EmptyMap
    /\ UNCHANGED <<fabricVars, backends, routed, turns>>

\* The maps outlive the program.
SetProgram(p) ==
    /\ program' = p
    /\ UNCHANGED <<fabricVars, backends, maps, routed, turns>>

ServeStatic ==
    /\ routed' = TRUE
    /\ UNCHANGED <<fabricVars, backends, program, maps, turns>>
-----------------------------------------------------------------------------
(* handle().                                                                *)

\* Answered at the edge: a static route, an empty pool, or a program that
\* refuses.
AnswerAtEdge(q, status) ==
    /\ call[q].status = "unmade"
    /\ Settled(q, Made(status, Ingress, Ingress, NoBox))
    /\ UNCHANGED <<endpoints, nextAddress, policy, deliveredByDst, droppedBySrc,
                   firstAt, lbVars>>

Static(q) == routed /\ AnswerAtEdge(q, "200")
Unavailable(q) ==
    /\ ~routed
    /\ backends = <<>> \/ program = "refuse"
    /\ AnswerAtEdge(q, "503")

\* selectBackend(): the value of the program, modulo the pool.
Pick(value) == backends[(value % Len(backends)) + 1]

\* The program reads its counter and, unless its map has no room, steps it.
RoundRobin(q) ==
    /\ ~routed /\ backends # <<>> /\ program = "roundRobin"
    /\ LET turn == Lookup(maps, 0)
       IN  /\ maps' = Put(maps, 0, turn + 1)
           /\ turns' = Append(turns, Pick(turn))
           /\ Request(q, Ingress, Pick(turn))
    /\ UNCHANGED <<backends, program, routed>>

ByHash(q, hash) ==
    /\ ~routed /\ backends # <<>> /\ program = "hash"
    /\ Request(q, Ingress, Pick(hash))
    /\ UNCHANGED lbVars

Handle(q) ==
    Static(q) \/ Unavailable(q) \/ RoundRobin(q) \/ \E hash \in Hashes : ByHash(q, hash)

Next ==
    \/ Fabrics
    \/ \E a \in Addresses : AddBackend(a) \/ RemoveBackend(a)
    \/ \E p \in Programs : SetProgram(p)
    \/ ServeStatic
    \/ \E q \in Calls : Handle(q)

Spec == Init /\ [][Next]_vars
-----------------------------------------------------------------------------
\* Round robin takes turns: while the pool stays, it picks the same backend
\* again after each pick of all the others, also when backends left the fabric,
\* requests are dropped or another program was installed in between.
\* (roundRobinBalancer() and selectBackend(), with the counter in maps.)
TakesTurns ==
    \A i, j \in 1..Len(turns) :
        turns[i] = turns[j] <=> i % Len(backends) = j % Len(backends)
=============================================================================
