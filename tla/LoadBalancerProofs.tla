-------------------------- MODULE LoadBalancerProofs --------------------------
(***************************************************************************)
(* Theorems about the fabric and the balancer over it, for every value of   *)
(* their constants.                                                         *)
(***************************************************************************)
EXTENDS LoadBalancer, FiniteSetTheorems, SequenceTheorems, TLAPS

CallFields == {"status", "from", "to", "box"}

\* Addresses in use were given out, and the next one was not.
AddressInv ==
    /\ nextAddress \in Nat
    /\ DOMAIN endpoints \subseteq DOMAIN firstAt
    /\ \A a \in DOMAIN firstAt : a \in Nat /\ a < nextAddress
    /\ \A a \in DOMAIN endpoints : endpoints[a] = firstAt[a]

\* A request was given to the sandbox that joined at its address.
CallsInv ==
    /\ DOMAIN call = Calls
    /\ \A q \in Calls :
        /\ DOMAIN call[q] = CallFields
        /\ call[q].box # NoBox =>
            call[q].to \in DOMAIN firstAt /\ call[q].box = firstAt[call[q].to]

KeepsInv == AddressInv /\ CallsInv

LEMMA KeepsInit == Init => KeepsInv
  BY DEF Init, FabricInit, KeepsInv, AddressInv, CallsInv, CallFields, NoCall, Made, Ingress

\* Joining gives an address that no request knows yet.
LEMMA KeepsJoin ==
    ASSUME KeepsInv, NEW b \in Boxes, Join(b)
    PROVE  KeepsInv'
<1>1. nextAddress \in Nat /\ nextAddress \notin DOMAIN firstAt
  BY DEF KeepsInv, AddressInv
<1>2. /\ DOMAIN firstAt' = DOMAIN firstAt \cup {nextAddress}
      /\ firstAt'[nextAddress] = b
      /\ \A a \in DOMAIN firstAt : firstAt'[a] = firstAt[a]
  BY <1>1 DEF Join, With
<1>3. /\ DOMAIN endpoints' = DOMAIN endpoints \cup {nextAddress}
      /\ endpoints'[nextAddress] = b
      /\ \A a \in DOMAIN endpoints : a # nextAddress => endpoints'[a] = endpoints[a]
  BY DEF Join, With
<1>4. AddressInv'
  BY <1>1, <1>2, <1>3 DEF KeepsInv, AddressInv, Join
<1>5. CallsInv'
  BY <1>2 DEF KeepsInv, CallsInv, Join
<1> QED
  BY <1>4, <1>5 DEF KeepsInv

\* A request is given to the sandbox at its address, or to none.
LEMMA KeepsRequest ==
    ASSUME KeepsInv, NEW q \in Calls, NEW from, NEW to, Request(q, from, to)
    PROVE  KeepsInv'
<1>1. UNCHANGED <<endpoints, nextAddress, firstAt>>
  BY DEF Request
<1>2. PICK status, box :
        /\ call' = [call EXCEPT ![q] = Made(status, from, to, box)]
        /\ box # NoBox => to \in DOMAIN endpoints /\ box = endpoints[to]
  BY DEF Request, NotFound, Denied, Dropped, Deliver, Settled
<1>3. CallsInv'
  BY <1>1, <1>2 DEF KeepsInv, AddressInv, CallsInv, Made, CallFields
<1> QED
  BY <1>1, <1>3 DEF KeepsInv, AddressInv

\* An answer changes neither the address nor the sandbox of a request.
LEMMA KeepsAnswer ==
    ASSUME KeepsInv, NEW q \in Calls, NEW status,
           Settled(q, [call[q] EXCEPT !.status = status]),
           UNCHANGED <<endpoints, nextAddress, firstAt>>
    PROVE  KeepsInv'
  BY DEF KeepsInv, AddressInv, CallsInv, CallFields, Settled

LEMMA KeepsStep == KeepsInv /\ [Next]_vars => KeepsInv'
<1> SUFFICES ASSUME KeepsInv, [Next]_vars PROVE KeepsInv'
  OBVIOUS
<1>same. ASSUME UNCHANGED <<endpoints, nextAddress, call, firstAt>> PROVE KeepsInv'
  BY <1>same DEF KeepsInv, AddressInv, CallsInv
<1>1. CASE UNCHANGED vars
  BY <1>1, <1>same DEF vars, fabricVars
<1>2. ASSUME NEW b \in Boxes, Join(b) PROVE KeepsInv'
  BY <1>2, KeepsJoin
<1>3. ASSUME NEW a \in Addresses, Leave(a) PROVE KeepsInv'
  BY <1>3 DEF Leave, KeepsInv, AddressInv, CallsInv
<1>4. ASSUME NEW p, SetPolicy(p) PROVE KeepsInv'
  BY <1>4, <1>same DEF SetPolicy
<1>5. ASSUME NEW q \in Calls, NEW from, NEW to, Request(q, from, to) PROVE KeepsInv'
  BY <1>5, KeepsRequest
<1>6. ASSUME NEW q \in Calls, NEW status, Complete(q, status) PROVE KeepsInv'
  BY <1>6, KeepsAnswer DEF Complete
<1>7. ASSUME NEW q \in Calls, Break(q) PROVE KeepsInv'
  BY <1>7, KeepsAnswer DEF Break
<1>8. CASE Fabrics
  BY <1>8, <1>2, <1>3, <1>4, <1>5, <1>6, <1>7 DEF Fabrics, FabricNext
<1>9. ASSUME NEW a \in Addresses, AddBackend(a) \/ RemoveBackend(a) PROVE KeepsInv'
  BY <1>9, <1>same DEF AddBackend, RemoveBackend, fabricVars
<1>10. ASSUME NEW p \in Programs, SetProgram(p) PROVE KeepsInv'
  BY <1>10, <1>same DEF SetProgram, fabricVars
<1>11. CASE ServeStatic
  BY <1>11, <1>same DEF ServeStatic, fabricVars
<1>12. ASSUME NEW q \in Calls, NEW status, AnswerAtEdge(q, status) PROVE KeepsInv'
  BY <1>12 DEF AnswerAtEdge, Settled, Made, KeepsInv, AddressInv, CallsInv, CallFields
<1>13. ASSUME NEW q \in Calls, Handle(q) PROVE KeepsInv'
  BY <1>13, <1>5, <1>12 DEF Handle, Static, Unavailable, RoundRobin, ByHash
<1> QED
  BY <1>1, <1>8, <1>9, <1>10, <1>11, <1>13 DEF Next

\* An address means one sandbox for good, for any number of sandboxes, requests
\* and policies: whoever holds an old address reaches that sandbox or none.
THEOREM AddressesAreForGood == Spec => []AddressKeepsItsBox
<1>1. KeepsInv => AddressKeepsItsBox
  BY DEF KeepsInv, AddressInv, CallsInv, AddressKeepsItsBox
<1> QED
  BY <1>1, KeepsInit, KeepsStep, PTL DEF Spec
-----------------------------------------------------------------------------
(* The counters.                                                            *)

\* A number that fits a word is its own remainder, whatever words came before.
LEMMA Remainder ==
    ASSUME NEW a \in Nat, NEW b \in Nat, b < Word
    PROVE  (Word * a + b) % Word = b
  BY WordAssumption

LEMMA Division ==
    ASSUME NEW n \in Nat
    PROVE  \E d \in Nat, r \in Nat : r < Word /\ n = Word * d + r
<1> DEFINE r == n % Word
           d == n \div Word
<1>1. d \in Nat /\ r \in Nat /\ r < Word /\ n = Word * d + r
  BY WordAssumption
<1> HIDE DEF r, d
<1> QED
  BY <1>1

\* A counter that wraps counts modulo the size of a word.
LEMMA WrapsOnce ==
    ASSUME NEW n \in Nat
    PROVE  ((n % Word) + 1) % Word = (n + 1) % Word
<1>1. PICK d \in Nat, r \in Nat : r < Word /\ n = Word * d + r
  BY Division
<1>2. Word \in Nat /\ Word > 0
  BY WordAssumption
<1>3. n % Word = r
  BY <1>1, Remainder
<1>4. CASE r + 1 < Word
  <2> DEFINE x == Word * d
  <2>1. x \in Nat /\ n = x + r
    BY <1>1, <1>2
  <2>2. n + 1 = x + (r + 1)
    <3> HIDE DEF x
    <3> QED BY <2>1
  <2>3. (x + (r + 1)) % Word = r + 1
    BY <1>4, Remainder
  <2>4. (r + 1) % Word = r + 1
    BY <1>2, <1>4
  <2> HIDE DEF x
  <2> QED
    BY <1>3, <2>2, <2>3, <2>4
<1>5. CASE r + 1 = Word
  <2>1. n + 1 = Word * (d + 1) + 0
    BY <1>1, <1>2, <1>5
  <2>2. (Word * (d + 1) + 0) % Word = 0
    BY <1>2, Remainder
  <2>3. (r + 1) % Word = 0
    BY <1>2, <1>5
  <2> DEFINE y == Word * (d + 1) + 0
  <2>4. n + 1 = y /\ y % Word = 0
    BY <2>1, <2>2
  <2> HIDE DEF y
  <2> QED
    BY <1>3, <2>3, <2>4
<1> QED
  BY <1>1, <1>2, <1>4, <1>5

CountsWrapped(m, n, Keys) ==
    \A a \in Keys : IF a \in DOMAIN m THEN m[a] = n[a] % Word
                    ELSE n[a] = 0 \/ Cardinality(DOMAIN m) = MaxEntries
MapOK(m) == IsFiniteSet(DOMAIN m) /\ Cardinality(DOMAIN m) <= MaxEntries

\* One more at k, and the map says so, unless it was full.
LEMMA AddCounts ==
    ASSUME NEW Keys, NEW n \in [Keys -> Nat], NEW n2 \in [Keys -> Nat], NEW m, NEW k,
           MapOK(m), CountsWrapped(m, n, Keys),
           \A a \in Keys : n2[a] = IF a = k THEN n[a] + 1 ELSE n[a]
    PROVE  MapOK(Add(m, k, 1)) /\ CountsWrapped(Add(m, k, 1), n2, Keys)
<1> SUFFICES ASSUME NEW m2, m2 = Add(m, k, 1)
             PROVE  MapOK(m2) /\ CountsWrapped(m2, n2, Keys)
  OBVIOUS
<1>0. Cardinality(DOMAIN m) \in Nat /\ MaxEntries \in Nat
  BY FS_CardinalityType, MaxEntriesAssumption DEF MapOK
<1>1. CASE ~HasRoom(m, k)
  <2>1. m2 = m
    BY <1>1 DEF Add, Put
  <2>2. k \notin DOMAIN m /\ Cardinality(DOMAIN m) = MaxEntries
    BY <1>0, <1>1 DEF HasRoom, MapOK
  <2> QED
    BY <2>1, <2>2 DEF CountsWrapped
<1>2. CASE HasRoom(m, k) /\ k \in DOMAIN m
  <2>1. m2 = [x \in DOMAIN m |-> IF x = k THEN (m[k] + 1) % Word ELSE m[x]]
    BY <1>2 DEF Add, Put, Lookup
  <2>2. DOMAIN m2 = DOMAIN m
    BY <2>1
  <2>3. ASSUME NEW a \in Keys, a \in DOMAIN m2 PROVE m2[a] = n2[a] % Word
    <3>1. m[a] = n[a] % Word
      BY <2>2, <2>3 DEF CountsWrapped
    <3>2. CASE a = k
      <4>1. m2[a] = ((n[a] % Word) + 1) % Word
        BY <2>1, <2>2, <2>3, <3>1, <3>2
      <4> QED
        BY <4>1, <3>2, WrapsOnce
    <3>3. CASE a # k
      BY <2>1, <2>2, <2>3, <3>1, <3>3
    <3> QED
      BY <3>2, <3>3
  <2>4. \A a \in Keys \ DOMAIN m2 : n2[a] = n[a]
    BY <1>2, <2>2
  <2> QED
    BY <2>2, <2>3, <2>4 DEF CountsWrapped, MapOK
<1>3. CASE HasRoom(m, k) /\ k \notin DOMAIN m
  <2>1. m2 = [x \in DOMAIN m \cup {k} |-> IF x = k THEN (0 + 1) % Word ELSE m[x]]
    BY <1>3 DEF Add, Put, Lookup
  <2>2. DOMAIN m2 = DOMAIN m \cup {k}
    BY <2>1
  <2>3. Cardinality(DOMAIN m) < MaxEntries
    BY <1>3 DEF HasRoom
  <2>4. MapOK(m2)
    <3>1. IsFiniteSet(DOMAIN m \cup {k})
          /\ Cardinality(DOMAIN m \cup {k}) = Cardinality(DOMAIN m) + 1
      BY <1>3, FS_AddElement DEF MapOK
    <3> QED
      BY <1>0, <2>2, <2>3, <3>1 DEF MapOK
  <2>5. ASSUME NEW a \in Keys, a \notin DOMAIN m PROVE n[a] = 0
    BY <1>0, <2>3, <2>5 DEF CountsWrapped
  <2>6. ASSUME NEW a \in Keys, a \in DOMAIN m2 PROVE m2[a] = n2[a] % Word
    <3>1. CASE a = k
      <4>1. n2[a] = 1 /\ m2[a] = (0 + 1) % Word
        BY <1>3, <2>1, <2>5, <3>1
      <4> QED
        BY <4>1
    <3>2. CASE a # k
      BY <2>1, <2>2, <2>6, <3>2 DEF CountsWrapped
    <3> QED
      BY <3>1, <3>2
  <2>7. \A a \in Keys \ DOMAIN m2 : n2[a] = 0
    BY <2>2, <2>5
  <2> QED
    BY <2>4, <2>6, <2>7 DEF CountsWrapped
<1> QED
  BY <1>1, <1>2, <1>3

Deliveries == [a \in Addresses |-> Cardinality(DeliveredTo(a))]
Drops == [a \in Sources |-> Cardinality(DroppedFrom(a))]

CountersInv ==
    /\ DOMAIN call = Calls /\ \A q \in Calls : DOMAIN call[q] = CallFields
    /\ MapOK(deliveredByDst) /\ CountsWrapped(deliveredByDst, Deliveries, Addresses)
    /\ MapOK(droppedBySrc) /\ CountsWrapped(droppedBySrc, Drops, Sources)

LEMMA TalliesAreNumbers ==
    /\ \A a : IsFiniteSet(DeliveredTo(a)) /\ IsFiniteSet(DroppedFrom(a))
    /\ Deliveries \in [Addresses -> Nat] /\ Drops \in [Sources -> Nat]
<1>1. \A a : IsFiniteSet(DeliveredTo(a)) /\ IsFiniteSet(DroppedFrom(a))
  <2>1. \A a : DeliveredTo(a) \subseteq Calls /\ DroppedFrom(a) \subseteq Calls
    BY DEF DeliveredTo, DroppedFrom
  <2> QED
    BY <2>1, CallsAssumption, FS_Subset
<1> QED
  BY <1>1, FS_CardinalityType DEF Deliveries, Drops

\* One request's record changes; what changes in the tallies is that request.
LEMMA TalliesMove ==
    ASSUME CountersInv, NEW q \in Calls, NEW c, Settled(q, c),
           call[q].status \notin Statuses
    PROVE  /\ \A a : DeliveredTo(a)' = IF c.status \in {"200", "500"} /\ c.to = a
                                       THEN DeliveredTo(a) \cup {q} ELSE DeliveredTo(a)
           /\ \A a : DroppedFrom(a)' = IF c.status \in {"404", "403"} /\ c.from = a
                                       THEN DroppedFrom(a) \cup {q} ELSE DroppedFrom(a)
           /\ \A a : q \notin DeliveredTo(a) /\ q \notin DroppedFrom(a)
  BY DEF CountersInv, Settled, DeliveredTo, DroppedFrom, Statuses

\* A request that is answered and delivered is counted at its destination.
LEMMA DeliveredCounts ==
    ASSUME CountersInv, NEW q \in Calls, NEW c, Settled(q, c), DOMAIN c = CallFields,
           call[q].status \notin Statuses, c.status \in {"200", "500"},
           deliveredByDst' = Add(deliveredByDst, c.to, 1), UNCHANGED droppedBySrc
    PROVE  CountersInv'
<1>1. /\ \A a : DeliveredTo(a)' = IF c.to = a THEN DeliveredTo(a) \cup {q} ELSE DeliveredTo(a)
      /\ \A a : DroppedFrom(a)' = DroppedFrom(a)
      /\ \A a : q \notin DeliveredTo(a)
  BY TalliesMove
<1>2. Drops' = Drops
  BY <1>1 DEF Drops
<1>3. \A a \in Addresses :
        Cardinality(DeliveredTo(a)') = IF a = c.to THEN Cardinality(DeliveredTo(a)) + 1
                                                 ELSE Cardinality(DeliveredTo(a))
  BY <1>1, TalliesAreNumbers, FS_AddElement
<1>4. \A a \in Addresses :
        Deliveries'[a] = IF a = c.to THEN Deliveries[a] + 1 ELSE Deliveries[a]
  BY <1>3 DEF Deliveries
<1>5. Deliveries' \in [Addresses -> Nat]
  BY <1>4, TalliesAreNumbers DEF Deliveries
<1>6. MapOK(deliveredByDst)' /\ CountsWrapped(deliveredByDst, Deliveries, Addresses)'
  <2>1. /\ MapOK(Add(deliveredByDst, c.to, 1))
        /\ CountsWrapped(Add(deliveredByDst, c.to, 1), Deliveries', Addresses)
    BY <1>4, <1>5, TalliesAreNumbers, AddCounts DEF CountersInv
  <2> QED
    BY <2>1 DEF MapOK, CountsWrapped
<1>7. DOMAIN call' = Calls /\ \A p \in Calls : DOMAIN call'[p] = CallFields
  BY DEF Settled, CountersInv
<1> QED
  BY <1>2, <1>6, <1>7 DEF CountersInv, MapOK, CountsWrapped

\* A request that is dropped is counted at its source.
LEMMA DroppedCounts ==
    ASSUME CountersInv, NEW q \in Calls, NEW c, Settled(q, c), DOMAIN c = CallFields,
           call[q].status \notin Statuses, c.status \in {"404", "403"},
           droppedBySrc' = Add(droppedBySrc, c.from, 1), UNCHANGED deliveredByDst
    PROVE  CountersInv'
<1>1. /\ \A a : DroppedFrom(a)' = IF c.from = a THEN DroppedFrom(a) \cup {q} ELSE DroppedFrom(a)
      /\ \A a : DeliveredTo(a)' = DeliveredTo(a)
      /\ \A a : q \notin DroppedFrom(a)
  BY TalliesMove
<1>2. Deliveries' = Deliveries
  BY <1>1 DEF Deliveries
<1>3. \A a \in Sources :
        Cardinality(DroppedFrom(a)') = IF a = c.from THEN Cardinality(DroppedFrom(a)) + 1
                                                   ELSE Cardinality(DroppedFrom(a))
  BY <1>1, TalliesAreNumbers, FS_AddElement
<1>4. \A a \in Sources : Drops'[a] = IF a = c.from THEN Drops[a] + 1 ELSE Drops[a]
  BY <1>3 DEF Drops
<1>5. Drops' \in [Sources -> Nat]
  BY <1>4, TalliesAreNumbers DEF Drops
<1>6. MapOK(droppedBySrc)' /\ CountsWrapped(droppedBySrc, Drops, Sources)'
  <2>1. /\ MapOK(Add(droppedBySrc, c.from, 1))
        /\ CountsWrapped(Add(droppedBySrc, c.from, 1), Drops', Sources)
    BY <1>4, <1>5, TalliesAreNumbers, AddCounts DEF CountersInv
  <2> QED
    BY <2>1 DEF MapOK, CountsWrapped
<1>7. DOMAIN call' = Calls /\ \A p \in Calls : DOMAIN call'[p] = CallFields
  BY DEF Settled, CountersInv
<1> QED
  BY <1>2, <1>6, <1>7 DEF CountersInv, MapOK, CountsWrapped

\* A request that goes in flight, is rejected, or is answered at the edge, counts
\* nowhere.
LEMMA UncountedCounts ==
    ASSUME CountersInv, NEW q \in Calls, NEW c, Settled(q, c), DOMAIN c = CallFields,
           call[q].status \notin Statuses, c.status \notin {"404", "403"},
           c.status \in {"200", "500"} => c.to \notin Addresses,
           UNCHANGED <<deliveredByDst, droppedBySrc>>
    PROVE  CountersInv'
<1>1. Deliveries' = Deliveries /\ Drops' = Drops
  BY TalliesMove DEF Deliveries, Drops
<1>2. DOMAIN call' = Calls /\ \A p \in Calls : DOMAIN call'[p] = CallFields
  BY DEF Settled, CountersInv
<1> QED
  BY <1>1, <1>2 DEF CountersInv, MapOK, CountsWrapped

LEMMA CountersInit == Init => CountersInv
<1> SUFFICES ASSUME Init PROVE CountersInv
  OBVIOUS
<1>1. DOMAIN call = Calls /\ \A q \in Calls : DOMAIN call[q] = CallFields
  BY DEF Init, FabricInit, NoCall, Made, CallFields
<1>2. \A a : DeliveredTo(a) = {} /\ DroppedFrom(a) = {}
  BY DEF Init, FabricInit, NoCall, Made, DeliveredTo, DroppedFrom
<1>3. /\ \A a \in Addresses : Deliveries[a] = 0
      /\ \A a \in Sources : Drops[a] = 0
  BY <1>2, FS_EmptySet DEF Deliveries, Drops
<1>4. DOMAIN EmptyMap = {} /\ MapOK(EmptyMap)
  BY FS_EmptySet, MaxEntriesAssumption DEF EmptyMap, MapOK
<1>5. deliveredByDst = EmptyMap /\ droppedBySrc = EmptyMap
  BY DEF Init, FabricInit
<1> QED
  BY <1>1, <1>3, <1>4, <1>5 DEF CountersInv, CountsWrapped

LEMMA CountersRequest ==
    ASSUME CountersInv, NEW q \in Calls, NEW from, NEW to, Request(q, from, to)
    PROVE  CountersInv'
<1> USE DEF Request
<1>1. call[q].status \notin Statuses
  BY DEF Statuses
<1>2. ASSUME NEW status \in {"404", "403"}, Dropped(q, from, to, status)
      PROVE  CountersInv'
  <2> DEFINE c == Made(status, from, to, NoBox)
  <2>1. DOMAIN c = CallFields /\ c.status = status /\ c.from = from
    BY DEF Made, CallFields
  <2>2. /\ Settled(q, c) /\ droppedBySrc' = Add(droppedBySrc, from, 1)
        /\ UNCHANGED deliveredByDst
    BY <1>2 DEF Dropped
  <2> HIDE DEF c
  <2> QED
    BY <1>1, <1>2, <2>1, <2>2, DroppedCounts
<1>3. CASE Deliver(q, from, to)
  <2> DEFINE c == Made("running", from, to, endpoints[to])
  <2>1. DOMAIN c = CallFields /\ c.status = "running"
    BY DEF Made, CallFields
  <2>2. Settled(q, c) /\ UNCHANGED <<deliveredByDst, droppedBySrc>>
    BY <1>3 DEF Deliver
  <2> HIDE DEF c
  <2> QED
    BY <1>1, <2>1, <2>2, UncountedCounts
<1> QED
  BY <1>2, <1>3 DEF NotFound, Denied

LEMMA CountersStep == CountersInv /\ [Next]_vars => CountersInv'
<1> SUFFICES ASSUME CountersInv, [Next]_vars PROVE CountersInv'
  OBVIOUS
<1>same. ASSUME UNCHANGED <<call, deliveredByDst, droppedBySrc>> PROVE CountersInv'
  BY <1>same
  DEF CountersInv, MapOK, CountsWrapped, Deliveries, Drops, DeliveredTo, DroppedFrom
<1>1. CASE UNCHANGED vars
  BY <1>1, <1>same DEF vars, fabricVars
<1>2. ASSUME NEW b \in Boxes, Join(b) PROVE CountersInv'
  BY <1>2, <1>same DEF Join
<1>3. ASSUME NEW a \in Addresses, Leave(a) PROVE CountersInv'
  BY <1>3, <1>same DEF Leave
<1>4. ASSUME NEW p, SetPolicy(p) PROVE CountersInv'
  BY <1>4, <1>same DEF SetPolicy
<1>5. ASSUME NEW q \in Calls, NEW from, NEW to, Request(q, from, to) PROVE CountersInv'
  BY <1>5, CountersRequest
<1>6. ASSUME NEW q \in Calls, NEW status \in {"200", "500"}, Complete(q, status)
      PROVE  CountersInv'
  <2>1. PICK c : /\ Settled(q, c) /\ DOMAIN c = CallFields
                 /\ c.status = status /\ c.to = call[q].to
    BY <1>6 DEF Complete, CountersInv, CallFields
  <2> QED
    BY <1>6, <2>1, DeliveredCounts DEF Complete, Statuses
<1>7. ASSUME NEW q \in Calls, Break(q) PROVE CountersInv'
  <2>1. PICK c : Settled(q, c) /\ DOMAIN c = CallFields /\ c.status = "rejected"
    BY <1>7 DEF Break, CountersInv, CallFields
  <2> QED
    BY <1>7, <2>1, UncountedCounts DEF Break, Statuses
<1>8. CASE Fabrics
  BY <1>8, <1>2, <1>3, <1>4, <1>5, <1>6, <1>7 DEF Fabrics, FabricNext
<1>9. ASSUME NEW a \in Addresses, AddBackend(a) \/ RemoveBackend(a) PROVE CountersInv'
  BY <1>9, <1>same DEF AddBackend, RemoveBackend, fabricVars
<1>10. ASSUME NEW p \in Programs, SetProgram(p) PROVE CountersInv'
  BY <1>10, <1>same DEF SetProgram, fabricVars
<1>11. CASE ServeStatic
  BY <1>11, <1>same DEF ServeStatic, fabricVars
<1>12. ASSUME NEW q \in Calls, NEW status \in {"200", "503"}, AnswerAtEdge(q, status)
       PROVE  CountersInv'
  <2>1. PICK c : /\ Settled(q, c) /\ DOMAIN c = CallFields
                 /\ c.status = status /\ c.to = Ingress
    BY <1>12 DEF AnswerAtEdge, Made, CallFields
  <2>2. Ingress \notin Addresses
    BY DEF Ingress, Addresses
  <2> QED
    BY <1>12, <2>1, <2>2, UncountedCounts DEF AnswerAtEdge, Statuses
<1>13. ASSUME NEW q \in Calls, Handle(q) PROVE CountersInv'
  BY <1>13, <1>5, <1>12 DEF Handle, Static, Unavailable, RoundRobin, ByHash
<1> QED
  BY <1>1, <1>8, <1>9, <1>10, <1>11, <1>13 DEF Next

\* Each answered request is counted once and in one counter, modulo the size of a
\* word and for as long as the map has room, for any number of requests in flight
\* while membership, policy, pool and program change.
THEOREM CountersAreExact == Spec => []CountersExact
<1>1. CountersInv => CountersExact
  BY DEF CountersInv, CountsWrapped, CountersExact, Exact, Deliveries, Drops
<1> QED
  BY <1>1, CountersInit, CountersStep, PTL DEF Spec
-----------------------------------------------------------------------------
(* Types.                                                                   *)

\* A request that is running has an address of the fabric.
TypeInv ==
    /\ TypeOK
    /\ \A q \in Calls : call[q].status = "running" => call[q].to \in Addresses

LEMMA MapTypes ==
    ASSUME NEW Keys
    PROVE  /\ EmptyMap \in EbpfMaps(Keys)
           /\ \A m \in EbpfMaps(Keys) :
                /\ DOMAIN m \subseteq Keys
                /\ \A k : Lookup(m, k) \in 0..(Word - 1)
                /\ \A k \in Keys : \A v \in Nat : Put(m, k, v) \in EbpfMaps(Keys)
                /\ \A k \in Keys : Add(m, k, 1) \in EbpfMaps(Keys)
<1>0. Word \in Nat /\ Word > 0 /\ \A v \in Nat : v % Word \in 0..(Word - 1)
  BY WordAssumption
<1>1. EmptyMap \in EbpfMaps(Keys)
  BY DEF EmptyMap, EbpfMaps
<1>2. ASSUME NEW m \in EbpfMaps(Keys)
      PROVE  /\ DOMAIN m \subseteq Keys /\ \A k \in DOMAIN m : m[k] \in 0..(Word - 1)
             /\ \A k : Lookup(m, k) \in 0..(Word - 1)
  BY <1>0 DEF EbpfMaps, Lookup
<1>3. ASSUME NEW m \in EbpfMaps(Keys), NEW k \in Keys, NEW v \in Nat
      PROVE  Put(m, k, v) \in EbpfMaps(Keys)
  <2> DEFINE held == DOMAIN m \cup {k}
             m2 == [x \in held |-> IF x = k THEN v % Word ELSE m[x]]
  <2>1. held \in SUBSET Keys /\ m2 \in [held -> 0..(Word - 1)]
    BY <1>0, <1>2
  <2>2. m2 \in EbpfMaps(Keys)
    BY <2>1 DEF EbpfMaps
  <2> QED
    BY <2>2 DEF Put
<1>4. ASSUME NEW m \in EbpfMaps(Keys), NEW k \in Keys PROVE Add(m, k, 1) \in EbpfMaps(Keys)
  <2>1. Lookup(m, k) + 1 \in Nat
    BY <1>0, <1>2
  <2> QED
    BY <1>3, <2>1 DEF Add
<1> QED
  BY <1>1, <1>2, <1>3, <1>4

\* Functions from some addresses to sandboxes, and what With() makes of one.
Holders == UNION {[S -> Boxes] : S \in SUBSET Addresses}

LEMMA HolderTypes ==
    /\ [a \in {} |-> NoBox] \in Holders
    /\ \A f \in Holders :
        /\ DOMAIN f \subseteq Addresses /\ \A a \in DOMAIN f : f[a] \in Boxes
        /\ \A a \in Addresses, b \in Boxes : With(f, a, b) \in Holders
        /\ \A a : [x \in DOMAIN f \ {a} |-> f[x]] \in Holders
<1>1. [a \in {} |-> NoBox] \in [{} -> Boxes]
  OBVIOUS
<1>2. ASSUME NEW f \in Holders
      PROVE  DOMAIN f \subseteq Addresses /\ \A a \in DOMAIN f : f[a] \in Boxes
  BY DEF Holders
<1>3. ASSUME NEW f \in Holders, NEW a \in Addresses, NEW b \in Boxes
      PROVE  With(f, a, b) \in Holders
  <2> DEFINE S == DOMAIN f \cup {a}
  <2>1. S \in SUBSET Addresses /\ With(f, a, b) \in [S -> Boxes]
    BY <1>2 DEF With
  <2> QED
    BY <2>1 DEF Holders
<1>4. ASSUME NEW f \in Holders, NEW a
      PROVE  [x \in DOMAIN f \ {a} |-> f[x]] \in Holders
  <2> DEFINE S == DOMAIN f \ {a}
  <2>1. S \in SUBSET Addresses /\ [x \in S |-> f[x]] \in [S -> Boxes]
    BY <1>2
  <2> QED
    BY <2>1 DEF Holders
<1> QED
  BY <1>1, <1>2, <1>3, <1>4 DEF Holders

LEMMA Tuples ==
    /\ Ingress \in Sources /\ Addresses \subseteq Sources /\ Ingress \notin Addresses
    /\ \A h \in Hops : h[1] \in Sources /\ h[2] \in Addresses
    /\ NoCall \in CallRecords /\ NoCall.status = "unmade"
  BY DEF Ingress, Sources, Addresses, Hops, NoCall, Made, CallRecords, Statuses, Unanswered

LEMMA TypesInit == Init => TypeInv
<1> SUFFICES ASSUME Init PROVE TypeInv
  OBVIOUS
<1>1. /\ endpoints \in Holders /\ firstAt \in Holders
      /\ deliveredByDst \in EbpfMaps(Addresses) /\ droppedBySrc \in EbpfMaps(Sources)
      /\ maps \in EbpfMaps({0})
  BY HolderTypes, MapTypes DEF Init, FabricInit
<1>2. nextAddress \in 1..(MaxAddress + 1) /\ policy \in SUBSET Hops
  BY MaxAddressAssumption, PoliciesAssumption DEF Init, FabricInit, Ingress, NoPolicy
<1>3. call \in [Calls -> CallRecords] /\ \A q \in Calls : call[q].status = "unmade"
  BY Tuples DEF Init, FabricInit
<1>4. /\ backends \in Seq(Addresses) /\ turns \in Seq(Addresses)
      /\ program \in AllPrograms /\ routed \in BOOLEAN
  BY EmptySeq DEF Init, AllPrograms
<1> QED
  BY <1>1, <1>2, <1>3, <1>4 DEF TypeInv, TypeOK, FabricTypeOK, Holders

\* One request's record is another; the fabric's memberships stay.
LEMMA SettledTypes ==
    ASSUME TypeInv, NEW q \in Calls, NEW c \in CallRecords, Settled(q, c),
           c.status = "running" => c.to \in Addresses
    PROVE  /\ call' \in [Calls -> CallRecords]
           /\ \A p \in Calls : call'[p].status = "running" => call'[p].to \in Addresses
<1>1. call \in [Calls -> CallRecords] /\ call' = [call EXCEPT ![q] = c]
  BY DEF TypeInv, TypeOK, FabricTypeOK, Settled
<1>2. /\ call' \in [Calls -> CallRecords] /\ call'[q] = c
      /\ \A p \in Calls : p # q => call'[p] = call[p]
  BY <1>1
<1> QED
  BY <1>2 DEF TypeInv

FabricTypeInv ==
    /\ FabricTypeOK
    /\ \A q \in Calls : call[q].status = "running" => call[q].to \in Addresses

LEMMA RequestTypes ==
    ASSUME TypeInv, NEW q \in Calls, NEW from \in Sources, NEW to \in Addresses,
           Request(q, from, to)
    PROVE  FabricTypeInv'
<1>1. UNCHANGED <<endpoints, nextAddress, policy, firstAt>>
  BY DEF Request
<1>2. /\ FabricTypeOK /\ endpoints \in Holders
      /\ deliveredByDst \in EbpfMaps(Addresses) /\ droppedBySrc \in EbpfMaps(Sources)
  BY DEF TypeInv, TypeOK, FabricTypeOK, Holders
<1>3. \A status \in Statuses \cup Unanswered, box \in Boxes \cup {NoBox} :
        Made(status, from, to, box) \in CallRecords
  BY Tuples DEF Made, CallRecords
<1>4. CASE Deliver(q, from, to)
  <2> DEFINE c == Made("running", from, to, endpoints[to])
  <2>1. c \in CallRecords /\ c.to = to /\ Settled(q, c)
    BY <1>2, <1>3, <1>4, HolderTypes DEF Deliver, Unanswered, Made
  <2> HIDE DEF c
  <2>2. /\ call' \in [Calls -> CallRecords]
        /\ \A p \in Calls : call'[p].status = "running" => call'[p].to \in Addresses
    BY <2>1, SettledTypes
  <2>3. UNCHANGED <<deliveredByDst, droppedBySrc>>
    BY <1>4 DEF Deliver
  <2> QED
    BY <1>1, <1>2, <2>2, <2>3 DEF FabricTypeInv, FabricTypeOK
<1>5. ASSUME NEW status \in {"404", "403"}, Dropped(q, from, to, status)
      PROVE  FabricTypeInv'
  <2> DEFINE c == Made(status, from, to, NoBox)
  <2>1. c \in CallRecords /\ c.to = to /\ Settled(q, c)
    BY <1>3, <1>5 DEF Dropped, Statuses, Made
  <2> HIDE DEF c
  <2>2. /\ call' \in [Calls -> CallRecords]
        /\ \A p \in Calls : call'[p].status = "running" => call'[p].to \in Addresses
    BY <2>1, SettledTypes
  <2>3. droppedBySrc' \in EbpfMaps(Sources) /\ UNCHANGED deliveredByDst
    BY <1>2, <1>5, MapTypes DEF Dropped
  <2> QED
    BY <1>1, <1>2, <2>2, <2>3 DEF FabricTypeInv, FabricTypeOK
<1> QED
  BY <1>4, <1>5 DEF Request, NotFound, Denied

LEMMA FabricTypesStep ==
    ASSUME TypeInv, FabricNext
    PROVE  FabricTypeInv'
<1>0. /\ FabricTypeOK /\ endpoints \in Holders /\ firstAt \in Holders
      /\ nextAddress \in 1..(MaxAddress + 1)
      /\ deliveredByDst \in EbpfMaps(Addresses) /\ call \in [Calls -> CallRecords]
  BY DEF TypeInv, TypeOK, FabricTypeOK, Holders
<1>1. ASSUME NEW b \in Boxes, Join(b) PROVE FabricTypeInv'
  <2>1. nextAddress \in Addresses /\ nextAddress + 1 \in 1..(MaxAddress + 1)
    BY <1>0, <1>1, MaxAddressAssumption DEF Join, Addresses
  <2>2. endpoints' \in Holders /\ firstAt' \in Holders
    BY <1>0, <1>1, <2>1, HolderTypes DEF Join
  <2> QED
    BY <1>0, <1>1, <2>1, <2>2 DEF Join, TypeInv, FabricTypeInv, FabricTypeOK, Holders
<1>2. ASSUME NEW a \in Addresses, Leave(a) PROVE FabricTypeInv'
  <2>1. endpoints' \in Holders
    BY <1>0, <1>2, HolderTypes DEF Leave
  <2> QED
    BY <1>0, <1>2, <2>1 DEF Leave, TypeInv, FabricTypeInv, FabricTypeOK, Holders
<1>3. ASSUME NEW p \in Policies \cup {NoPolicy}, SetPolicy(p) PROVE FabricTypeInv'
  BY <1>0, <1>3, PoliciesAssumption
  DEF SetPolicy, NoPolicy, TypeInv, FabricTypeInv, FabricTypeOK
<1>4. ASSUME NEW q \in Calls, NEW hop \in ClientHops, Request(q, hop[1], hop[2])
      PROVE  FabricTypeInv'
  BY <1>4, Tuples, ClientHopsAssumption, RequestTypes
<1>5. ASSUME NEW q \in Calls, NEW status \in {"200", "500"}, Complete(q, status)
      PROVE  FabricTypeInv'
  <2> DEFINE c == [call[q] EXCEPT !.status = status]
  <2>1. call[q] \in CallRecords /\ call[q].to \in Addresses
    BY <1>0, <1>5 DEF Complete, TypeInv
  <2>2. c \in CallRecords /\ c.to \in Addresses
    BY <2>1 DEF CallRecords, Statuses
  <2>3. Settled(q, c)
    BY <1>5 DEF Complete
  <2> HIDE DEF c
  <2>4. /\ call' \in [Calls -> CallRecords]
        /\ \A p \in Calls : call'[p].status = "running" => call'[p].to \in Addresses
    BY <2>2, <2>3, SettledTypes
  <2>5. deliveredByDst' \in EbpfMaps(Addresses)
    BY <1>0, <1>5, <2>1, MapTypes DEF Complete
  <2> QED
    BY <1>0, <1>5, <2>4, <2>5 DEF Complete, FabricTypeInv, FabricTypeOK
<1>6. ASSUME NEW q \in Calls, Break(q) PROVE FabricTypeInv'
  <2> DEFINE c == [call[q] EXCEPT !.status = "rejected"]
  <2>1. c \in CallRecords /\ c.status = "rejected" /\ Settled(q, c)
    BY <1>0, <1>6 DEF Break, CallRecords, Unanswered
  <2> HIDE DEF c
  <2>2. /\ call' \in [Calls -> CallRecords]
        /\ \A p \in Calls : call'[p].status = "running" => call'[p].to \in Addresses
    BY <2>1, SettledTypes
  <2> QED
    BY <1>0, <1>6, <2>2 DEF Break, FabricTypeInv, FabricTypeOK
<1> QED
  BY <1>1, <1>2, <1>3, <1>4, <1>5, <1>6 DEF FabricNext

\* splice() at an index moves up what follows it.
LEMMA RemovedAt ==
    ASSUME NEW S, NEW s \in Seq(S), NEW index \in DOMAIN s
    PROVE  /\ RemoveAt(s, index) \in Seq(S)
           /\ Len(RemoveAt(s, index)) = Len(s) - 1
           /\ \A k \in 1..(Len(s) - 1) :
                RemoveAt(s, index)[k] = s[IF k < index THEN k ELSE k + 1]
<1> DEFINE front == SubSeq(s, 1, index - 1)
           back == SubSeq(s, index + 1, Len(s))
<1>1. index \in 1..Len(s) /\ Len(s) \in Nat /\ \A i \in 1..Len(s) : s[i] \in S
  BY LenProperties, ElementOfSeq
<1>2. /\ front \in Seq(S) /\ Len(front) = index - 1
      /\ \A i \in 1..(index - 1) : front[i] = s[i]
  <2>1. /\ front \in Seq(S) /\ Len(front) = IF 1 <= index - 1 THEN index - 1 - 1 + 1 ELSE 0
        /\ \A i \in 1..(index - 1 - 1 + 1) : front[i] = s[1 + i - 1]
    BY <1>1, SubSeqProperties
  <2> QED
    BY <1>1, <2>1
<1>3. /\ back \in Seq(S) /\ Len(back) = Len(s) - index
      /\ \A i \in 1..(Len(s) - index) : back[i] = s[index + i]
  <2>1. /\ back \in Seq(S)
        /\ Len(back) = IF index + 1 <= Len(s) THEN Len(s) - (index + 1) + 1 ELSE 0
        /\ \A i \in 1..(Len(s) - (index + 1) + 1) : back[i] = s[index + 1 + i - 1]
    BY <1>1, SubSeqProperties
  <2> QED
    BY <1>1, <2>1
<1>4. RemoveAt(s, index) = front \o back
  BY DEF RemoveAt
<1> HIDE DEF front, back
<1>5. /\ front \o back \in Seq(S) /\ Len(front \o back) = Len(front) + Len(back)
      /\ \A i \in 1..(Len(front) + Len(back)) :
            (front \o back)[i] = IF i <= Len(front) THEN front[i] ELSE back[i - Len(front)]
  BY <1>2, <1>3, ConcatProperties
<1>6. /\ RemoveAt(s, index) \in Seq(S)
      /\ Len(RemoveAt(s, index)) = Len(s) - 1
  BY <1>1, <1>2, <1>3, <1>4, <1>5
<1>7. ASSUME NEW k \in 1..(Len(s) - 1)
      PROVE  RemoveAt(s, index)[k] = s[IF k < index THEN k ELSE k + 1]
  <2>1. k \in 1..(Len(front) + Len(back))
    BY <1>1, <1>2, <1>3
  <2>2. CASE k < index
    <3>1. k <= Len(front) /\ k \in 1..(index - 1)
      BY <1>1, <1>2, <2>2
    <3> QED
      BY <1>2, <1>4, <1>5, <2>1, <2>2, <3>1
  <2>3. CASE ~(k < index)
    <3>1. /\ ~(k <= Len(front)) /\ k - Len(front) \in 1..(Len(s) - index)
          /\ index + (k - Len(front)) = k + 1
      BY <1>1, <1>2, <2>3
    <3>2. RemoveAt(s, index)[k] = back[k - Len(front)]
      BY <1>4, <1>5, <2>1, <3>1
    <3> QED
      BY <1>3, <2>3, <3>1, <3>2
  <2> QED
    BY <2>2, <2>3
<1> QED
  BY <1>6, <1>7

\* What selectBackend() picks is of the pool.
LEMMA PickIsOfPool ==
    ASSUME backends \in Seq(Addresses), backends # <<>>, NEW value \in Nat
    PROVE  Pick(value) \in Addresses /\ (value % Len(backends)) + 1 \in DOMAIN backends
<1>1. Len(backends) \in Nat /\ Len(backends) > 0
  BY LenProperties, EmptySeq
<1>2. (value % Len(backends)) + 1 \in 1..Len(backends)
  BY <1>1
<1> QED
  BY <1>2, LenProperties, ElementOfSeq DEF Pick

LEMMA HandleTypes ==
    ASSUME TypeInv, NEW q \in Calls, Handle(q)
    PROVE  TypeInv'
<1>0. /\ backends \in Seq(Addresses) /\ program \in AllPrograms /\ maps \in EbpfMaps({0})
      /\ routed \in BOOLEAN /\ turns \in Seq(Addresses) /\ FabricTypeOK
  BY DEF TypeInv, TypeOK
<1>1. ASSUME NEW status \in {"200", "503"}, AnswerAtEdge(q, status) PROVE TypeInv'
  <2> DEFINE c == Made(status, Ingress, Ingress, NoBox)
  <2>1. c \in CallRecords /\ c.status # "running" /\ Settled(q, c)
    BY <1>1, Tuples DEF AnswerAtEdge, Made, CallRecords, Statuses
  <2> HIDE DEF c
  <2>2. /\ call' \in [Calls -> CallRecords]
        /\ \A p \in Calls : call'[p].status = "running" => call'[p].to \in Addresses
    BY <2>1, SettledTypes
  <2> QED
    BY <1>0, <1>1, <2>2 DEF AnswerAtEdge, lbVars, TypeInv, TypeOK, FabricTypeOK
<1>2. CASE RoundRobin(q)
  <2> DEFINE turn == Lookup(maps, 0)
  <2>1. turn \in Nat /\ turn + 1 \in Nat /\ 0 \in {0}
    BY <1>0, MapTypes
  <2>2. Pick(turn) \in Addresses
    BY <1>0, <1>2, <2>1, PickIsOfPool DEF RoundRobin
  <2>3. Request(q, Ingress, Pick(turn)) /\ maps' = Put(maps, 0, turn + 1)
        /\ turns' = Append(turns, Pick(turn)) /\ UNCHANGED <<backends, program, routed>>
    BY <1>2 DEF RoundRobin
  <2>4. FabricTypeInv'
    BY <2>2, <2>3, Tuples, RequestTypes
  <2>5. maps' \in EbpfMaps({0})
    BY <1>0, <2>1, <2>3, MapTypes
  <2>6. turns' \in Seq(Addresses)
    BY <1>0, <2>2, <2>3, AppendProperties
  <2> QED
    BY <1>0, <2>3, <2>4, <2>5, <2>6 DEF TypeInv, TypeOK, FabricTypeInv
<1>3. ASSUME NEW hash \in Hashes, ByHash(q, hash) PROVE TypeInv'
  <2>1. hash \in Nat
    BY HashesAssumption
  <2>2. Pick(hash) \in Addresses
    BY <1>0, <1>3, <2>1, PickIsOfPool DEF ByHash
  <2>3. FabricTypeInv'
    BY <1>3, <2>2, Tuples, RequestTypes DEF ByHash
  <2> QED
    BY <1>0, <1>3, <2>3 DEF ByHash, lbVars, TypeInv, TypeOK, FabricTypeInv
<1> QED
  BY <1>1, <1>2, <1>3 DEF Handle, Static, Unavailable

LEMMA TypesStep == TypeInv /\ [Next]_vars => TypeInv'
<1> SUFFICES ASSUME TypeInv, [Next]_vars PROVE TypeInv'
  OBVIOUS
<1>0. /\ backends \in Seq(Addresses) /\ program \in AllPrograms /\ maps \in EbpfMaps({0})
      /\ routed \in BOOLEAN /\ turns \in Seq(Addresses) /\ FabricTypeOK
  BY DEF TypeInv, TypeOK
<1>1. CASE UNCHANGED vars
  BY <1>1 DEF vars, fabricVars, lbVars, TypeInv, TypeOK, FabricTypeOK
<1>2. CASE Fabrics
  <2>1. FabricTypeInv' /\ UNCHANGED <<backends, program, maps, routed, turns>>
    BY <1>2, FabricTypesStep DEF Fabrics, lbVars
  <2> QED
    BY <1>0, <2>1 DEF TypeInv, TypeOK, FabricTypeInv
<1>3. ASSUME UNCHANGED fabricVars, backends' \in Seq(Addresses), turns' \in Seq(Addresses),
             program' \in AllPrograms, UNCHANGED maps, routed' \in BOOLEAN
      PROVE  TypeInv'
  BY <1>0, <1>3 DEF fabricVars, TypeInv, TypeOK, FabricTypeOK
<1>4. ASSUME NEW a \in Addresses, AddBackend(a) PROVE TypeInv'
  <2>1. backends' \in Seq(Addresses) /\ turns' \in Seq(Addresses)
    BY <1>0, <1>4, AppendProperties DEF AddBackend
  <2> QED
    BY <1>0, <1>3, <1>4, <2>1 DEF AddBackend
<1>5. ASSUME NEW a \in Addresses, RemoveBackend(a) PROVE TypeInv'
  <2>1. backends' \in Seq(Addresses) /\ turns' \in Seq(Addresses)
    BY <1>0, <1>5, RemovedAt DEF RemoveBackend
  <2> QED
    BY <1>0, <1>3, <1>5, <2>1 DEF RemoveBackend
<1>6. ASSUME NEW p \in Programs, SetProgram(p) PROVE TypeInv'
  BY <1>0, <1>3, <1>6, ProgramsAssumption DEF SetProgram
<1>7. CASE ServeStatic
  BY <1>0, <1>3, <1>7 DEF ServeStatic
<1> QED
  BY <1>1, <1>2, <1>4, <1>5, <1>6, <1>7, HandleTypes DEF Next

\* Type correctness of the fabric and of the balancer over it.
THEOREM BalancerTypes == Spec => []TypeOK
<1>1. TypeInv => TypeOK
  BY DEF TypeInv
<1> QED
  BY <1>1, TypesInit, TypesStep, PTL DEF Spec
-----------------------------------------------------------------------------
(* Turns.                                                                   *)

\* n*a + b leaves b.
LEMMA RemainderOf ==
    ASSUME NEW n \in Nat \ {0}, NEW a \in Int, NEW b \in Nat, b < n
    PROVE  (n * a + b) % n = b
  OBVIOUS

LEMMA DivisionBy ==
    ASSUME NEW n \in Nat \ {0}, NEW x \in Nat
    PROVE  \E d \in Nat, r \in Nat : r < n /\ x = n * d + r /\ x % n = r
<1> DEFINE r == x % n
           d == x \div n
<1>1. d \in Nat /\ r \in Nat /\ r < n /\ x = n * d + r
  OBVIOUS
<1> QED
  BY <1>1

\* A remainder modulo a multiple of n has the remainder of n.
LEMMA RemainderTwice ==
    ASSUME NEW n \in Nat \ {0}, Word % n = 0, NEW x \in Nat
    PROVE  (x % Word) % n = x % n
<1>1. PICK d \in Nat, r \in Nat : r < Word /\ x = Word * d + r /\ x % Word = r
  BY DivisionBy, WordAssumption
<1>2. PICK k \in Nat : Word = n * k
  <2>1. PICK e \in Nat, s \in Nat : s < n /\ Word = n * e + s /\ Word % n = s
    BY DivisionBy, WordAssumption
  <2>2. s = 0 /\ n * e + s = n * e
    BY <2>1
  <2> QED
    BY <2>1, <2>2
<1>3. PICK e \in Nat, s \in Nat : s < n /\ r = n * e + s /\ r % n = s
  BY DivisionBy
<1>4. x = n * (k * d + e) + s
  <2>1. Word * d = n * (k * d)
    BY <1>2
  <2>2. n * (k * d + e) = n * (k * d) + n * e
    OBVIOUS
  <2> DEFINE a == n * (k * d)
             b == n * e
             c == Word * d
             f == n * (k * d + e)
  <2>3. a \in Int /\ b \in Int /\ c = a /\ f = a + b /\ x = c + r /\ r = b + s
    BY <1>1, <1>3, <2>1, <2>2
  <2> HIDE DEF a, b, c, f
  <2>4. x = f + s
    BY <2>3
  <2> QED
    BY <2>4 DEF f
<1>5. x % n = s
  <2> DEFINE a == k * d + e
  <2>1. a \in Int /\ x = n * a + s
    BY <1>4
  <2> HIDE DEF a
  <2> QED
    BY <1>3, <2>1, RemainderOf
<1> QED
  BY <1>1, <1>3, <1>5

\* Equal remainders are those of numbers a multiple apart.
LEMMA SameRemainder ==
    ASSUME NEW n \in Nat \ {0}, NEW u \in Nat, NEW v \in Nat
    PROVE  u % n = v % n <=> \E k \in Int : u - v = n * k
<1>1. PICK d \in Nat, r \in Nat : r < n /\ u = n * d + r /\ u % n = r
  BY DivisionBy
<1>2. PICK e \in Nat, s \in Nat : s < n /\ v = n * e + s /\ v % n = s
  BY DivisionBy
<1>3. ASSUME r = s PROVE \E k \in Int : u - v = n * k
  <2>1. u - v = n * (d - e)
    BY <1>1, <1>2, <1>3
  <2> QED
    BY <2>1
<1>4. ASSUME NEW k \in Int, u - v = n * k PROVE r = s
  <2>1. n * (d - e - k) = s - r
    <3>1. n * (d - e - k) = n * d - n * e - n * k
      OBVIOUS
    <3> DEFINE a == n * d
               b == n * e
               c == n * k
               f == n * (d - e - k)
    <3>2. /\ a \in Int /\ b \in Int /\ c \in Int /\ f = a - b - c
          /\ u = a + r /\ v = b + s /\ u - v = c
      BY <1>1, <1>2, <1>4, <3>1
    <3> HIDE DEF a, b, c, f
    <3>3. f = s - r
      BY <3>2
    <3> QED
      BY <3>3 DEF f
  <2> DEFINE m == d - e - k
  <2>2. m \in Int /\ n * m = s - r
    BY <2>1
  <2> HIDE DEF m
  <2>3. CASE m >= 1
    <3>1. n * m >= n
      BY <2>2, <2>3
    <3> QED
      BY <1>1, <1>2, <2>2, <3>1
  <2>4. CASE m <= 0 - 1
    <3>1. n * m <= 0 - n
      BY <2>2, <2>4
    <3> QED
      BY <1>1, <1>2, <2>2, <3>1
  <2>5. CASE m = 0
    BY <2>2, <2>5
  <2> QED
    BY <2>2, <2>3, <2>4, <2>5
<1> QED
  BY <1>1, <1>2, <1>3, <1>4

\* The counter of round robin has room, and no request finds that it skips a turn
\* by wrapping: it does not wrap, or wraps by whole rounds of the pool.
CounterFits ==
    /\ MaxEntries > 0
    /\ Cardinality(Calls) <= Word \/ \A n \in 1..MaxAddress : Word % n = 0

\* No sandbox is in the pool twice.
PoolOK == \A i, j \in DOMAIN backends : backends[i] = backends[j] => i = j

\* The requests made: those whose turn it may have been.
Asked == {q \in Calls : call[q].status # "unmade"}

\* The counter counts turns, and the turns since the pool last changed are those
\* of consecutive counts, the last one just before the present count n.
TurnOf(n, i) == ((n - Len(turns) + i - 1) % Len(backends)) + 1
CountIs(n) ==
    /\ Len(turns) <= n /\ n <= Cardinality(Asked)
    /\ Lookup(maps, 0) = n % Word
    /\ \A i \in 1..Len(turns) : backends # <<>> /\ turns[i] = backends[TurnOf(n, i)]

TurnsInv == CounterFits /\ TypeInv /\ PoolOK /\ \E n \in Nat : CountIs(n)

LEMMA PoolBounded ==
    ASSUME TypeOK, PoolOK
    PROVE  Len(backends) \in 0..MaxAddress
<1>1. backends \in [1..Len(backends) -> Addresses] /\ Len(backends) \in Nat
  BY LenProperties, ElementOfSeq DEF TypeOK
<1>2. backends \in Injection(1..Len(backends), Addresses)
  BY <1>1 DEF PoolOK, Injection, IsInjective
<1>3. IsFiniteSet(Addresses) /\ Cardinality(Addresses) = MaxAddress
  BY FS_Interval, MaxAddressAssumption DEF Addresses
<1>4. Cardinality(1..Len(backends)) = Len(backends)
  <2>1. ASSUME NEW n \in Nat PROVE Cardinality(1..n) = n
    <3>1. Cardinality(1..n) = IF 1 > n THEN 0 ELSE n - 1 + 1
      BY FS_Interval
    <3> QED
      BY <3>1
  <2> QED
    BY <1>1, <2>1
<1>5. Cardinality(1..Len(backends)) <= Cardinality(Addresses)
  BY <1>2, <1>3, FS_Injection
<1> QED
  BY <1>1, <1>3, <1>4, <1>5, MaxAddressAssumption

LEMMA AskedCounted ==
    /\ IsFiniteSet(Asked) /\ Cardinality(Asked) \in Nat /\ Cardinality(Calls) \in Nat
    /\ Cardinality(Asked) <= Cardinality(Calls)
  BY CallsAssumption, FS_CardinalityType, FS_Subset DEF Asked

LEMMA TurnsInit == CounterFits /\ Init => TurnsInv
<1> SUFFICES ASSUME CounterFits, Init PROVE TurnsInv
  OBVIOUS
<1>1. backends = <<>> /\ turns = <<>> /\ maps = EmptyMap
  BY DEF Init
<1>2. PoolOK
  BY <1>1 DEF PoolOK
<1>3. CountIs(0)
  <2>1. Lookup(maps, 0) = 0 /\ 0 % Word = 0
    BY <1>1, WordAssumption DEF EmptyMap, Lookup
  <2>2. Len(turns) = 0
    BY <1>1
  <2> QED
    BY <2>1, <2>2, AskedCounted DEF CountIs
<1> QED
  BY <1>2, <1>3, TypesInit DEF TurnsInv

\* What was asked stays asked.
LEMMA AskedGrows ==
    ASSUME TypeOK, [Next]_vars
    PROVE  Asked \subseteq Asked'
<1>0. call \in [Calls -> CallRecords]
  BY DEF TypeOK, FabricTypeOK
<1>1. ASSUME NEW q \in Calls, NEW c, Settled(q, c), c.status # "unmade" PROVE Asked \subseteq Asked'
  BY <1>0, <1>1 DEF Settled, Asked
<1>2. ASSUME UNCHANGED call PROVE Asked \subseteq Asked'
  BY <1>2 DEF Asked
<1>3. ASSUME NEW q \in Calls, NEW from, NEW to, Request(q, from, to) PROVE Asked \subseteq Asked'
  <2>1. PICK c : Settled(q, c) /\ c.status # "unmade"
    BY <1>3 DEF Request, NotFound, Denied, Dropped, Deliver, Made
  <2> QED
    BY <1>1, <2>1
<1>4. ASSUME NEW q \in Calls, NEW status \in {"200", "500"}, Complete(q, status)
      PROVE  Asked \subseteq Asked'
  <2>1. [call[q] EXCEPT !.status = status].status # "unmade"
    BY <1>0 DEF CallRecords
  <2> QED
    BY <1>1, <1>4, <2>1 DEF Complete
<1>5. ASSUME NEW q \in Calls, Break(q) PROVE Asked \subseteq Asked'
  <2>1. [call[q] EXCEPT !.status = "rejected"].status # "unmade"
    BY <1>0 DEF CallRecords
  <2> QED
    BY <1>1, <1>5, <2>1 DEF Break
<1>6. ASSUME NEW q \in Calls, NEW status \in {"200", "503"}, AnswerAtEdge(q, status)
      PROVE  Asked \subseteq Asked'
  <2>1. Made(status, Ingress, Ingress, NoBox).status # "unmade"
    BY DEF Made
  <2> QED
    BY <1>1, <1>6, <2>1 DEF AnswerAtEdge
<1>7. CASE Fabrics
  BY <1>2, <1>3, <1>4, <1>5, <1>7 DEF Fabrics, FabricNext, Join, Leave, SetPolicy
<1>8. ASSUME NEW q \in Calls, Handle(q) PROVE Asked \subseteq Asked'
  BY <1>3, <1>6, <1>8 DEF Handle, Static, Unavailable, RoundRobin, ByHash
<1>9. CASE UNCHANGED fabricVars
  BY <1>2, <1>9 DEF fabricVars
<1> QED
  BY <1>7, <1>8, <1>9 DEF Next, vars, AddBackend, RemoveBackend, SetProgram, ServeStatic

\* While pool, counter and turns stay, more requests change nothing.
LEMMA CountStays ==
    ASSUME TurnsInv, [Next]_vars, UNCHANGED <<backends, maps, turns>>
    PROVE  PoolOK' /\ \E n \in Nat : CountIs(n)'
<1>1. PICK n \in Nat : CountIs(n)
  BY DEF TurnsInv
<1>2. Cardinality(Asked) <= Cardinality(Asked') /\ Cardinality(Asked') \in Nat
      /\ Cardinality(Asked) \in Nat
  <2>1. Asked \subseteq Asked' /\ Asked' \subseteq Calls
    BY AskedGrows DEF TurnsInv, TypeInv, Asked
  <2>2. IsFiniteSet(Asked')
    BY <2>1, CallsAssumption, FS_Subset
  <2> QED
    BY <2>1, <2>2, FS_Subset, FS_CardinalityType, AskedCounted
<1>3. CountIs(n)'
  BY <1>1, <1>2 DEF CountIs, TurnOf
<1>4. PoolOK'
  BY DEF TurnsInv, PoolOK
<1> QED
  BY <1>3, <1>4

\* A pool that changes starts new turns.
LEMMA PoolChanges ==
    ASSUME TurnsInv, NEW a \in Addresses, AddBackend(a) \/ RemoveBackend(a)
    PROVE  PoolOK' /\ \E n \in Nat : CountIs(n)'
<1>0. backends \in Seq(Addresses) /\ Len(backends) \in Nat /\ DOMAIN backends = 1..Len(backends)
  BY LenProperties DEF TurnsInv, TypeInv, TypeOK
<1>1. turns' = <<>> /\ UNCHANGED <<maps, call>>
  BY DEF AddBackend, RemoveBackend, fabricVars
<1>2. PICK n \in Nat : CountIs(n)
  BY DEF TurnsInv
<1>3. CountIs(n)'
  BY <1>1, <1>2 DEF CountIs, Asked
<1>4. CASE AddBackend(a)
  <2>1. /\ Len(backends') = Len(backends) + 1 /\ backends'[Len(backends) + 1] = a
        /\ DOMAIN backends' = 1..(Len(backends) + 1)
        /\ \A i \in 1..Len(backends) : backends'[i] = backends[i]
    BY <1>0, <1>4, AppendProperties, LenProperties DEF AddBackend
  <2>2. \A i \in DOMAIN backends : backends[i] # a
    BY <1>4 DEF AddBackend, Range
  <2>3. PoolOK'
    BY <1>0, <2>1, <2>2 DEF TurnsInv, PoolOK
  <2> QED
    BY <1>3, <2>3
<1>5. CASE RemoveBackend(a)
  <2>1. PICK index \in DOMAIN backends : backends' = RemoveAt(backends, index)
    BY <1>5 DEF RemoveBackend
  <2>2. /\ backends' \in Seq(Addresses) /\ Len(backends') = Len(backends) - 1
        /\ \A k \in 1..(Len(backends) - 1) :
              backends'[k] = backends[IF k < index THEN k ELSE k + 1]
    BY <1>0, <2>1, RemovedAt
  <2>3. DOMAIN backends' = 1..(Len(backends) - 1)
    BY <2>2, LenProperties
  <2>4. PoolOK'
    <3> SUFFICES ASSUME NEW i \in 1..(Len(backends) - 1), NEW j \in 1..(Len(backends) - 1),
                        backends'[i] = backends'[j]
                 PROVE  i = j
      BY <2>3 DEF PoolOK
    <3> DEFINE x == IF i < index THEN i ELSE i + 1
               y == IF j < index THEN j ELSE j + 1
    <3>1. x \in DOMAIN backends /\ y \in DOMAIN backends
      BY <1>0
    <3>2. x = y
      BY <2>2, <3>1 DEF TurnsInv, PoolOK
    <3> QED
      BY <1>0, <3>2
  <2> QED
    BY <1>3, <2>4
<1> QED
  BY <1>4, <1>5

\* The next turn is that of the next count.
LEMMA NextTurn ==
    ASSUME TurnsInv, NEW q \in Calls, RoundRobin(q)
    PROVE  PoolOK' /\ \E n \in Nat : CountIs(n)'
<1>1. PICK n \in Nat : CountIs(n)
  BY DEF TurnsInv
<1> DEFINE size == Len(backends)
           value == Lookup(maps, 0)
<1>2. /\ backends \in Seq(Addresses) /\ turns \in Seq(Addresses) /\ maps \in EbpfMaps({0})
      /\ call \in [Calls -> CallRecords] /\ TypeOK /\ PoolOK /\ CounterFits
  BY DEF TurnsInv, TypeInv, TypeOK, FabricTypeOK
<1>3. size \in 1..MaxAddress /\ size \in Nat \ {0}
  <2>1. size # 0
    BY <1>2, EmptySeq, LenProperties DEF RoundRobin
  <2> QED
    BY <1>2, <2>1, PoolBounded, MaxAddressAssumption
<1>4. /\ backends # <<>> /\ UNCHANGED backends /\ maps' = Put(maps, 0, value + 1)
      /\ turns' = Append(turns, Pick(value)) /\ Request(q, Ingress, Pick(value))
  BY DEF RoundRobin
<1>5. value = n % Word /\ n <= Cardinality(Asked) /\ Len(turns) <= n /\ Len(turns) \in Nat
  BY <1>1, <1>2, LenProperties DEF CountIs
<1>6. n + 1 <= Cardinality(Asked') /\ n < Cardinality(Calls)
  <2>1. q \notin Asked
    BY <1>4 DEF Request, Asked
  <2>2. PICK c : Settled(q, c) /\ c.status # "unmade"
    BY <1>4 DEF Request, NotFound, Denied, Dropped, Deliver, Made
  <2>3. Asked' = Asked \cup {q}
    BY <1>2, <2>1, <2>2 DEF Settled, Asked
  <2>4. Cardinality(Asked') = Cardinality(Asked) + 1
    BY <2>1, <2>3, AskedCounted, FS_AddElement
  <2>5. Asked \cup {q} \subseteq Calls
    BY DEF Asked
  <2>6. Cardinality(Asked') <= Cardinality(Calls)
    BY <2>3, <2>5, CallsAssumption, FS_Subset
  <2> QED
    BY <1>5, <2>4, <2>6, AskedCounted
<1>7. value % size = n % size
  <2>1. CASE Cardinality(Calls) <= Word
    <3>1. n < Word
      BY <1>6, <2>1, AskedCounted, WordAssumption
    <3>2. n % Word = n
      BY <3>1, WordAssumption
    <3> QED
      BY <1>5, <3>2
  <2>2. CASE \A m \in 1..MaxAddress : Word % m = 0
    <3>1. Word % size = 0
      BY <1>3, <2>2
    <3> QED
      BY <1>3, <1>5, <3>1, RemainderTwice
  <2> QED
    BY <1>2, <2>1, <2>2 DEF CounterFits
<1>8. Pick(value) = backends[(n % size) + 1]
  BY <1>7 DEF Pick
<1>9. Lookup(maps', 0) = (n + 1) % Word
  <2>1. HasRoom(maps, 0)
    <3>1. CASE 0 \in DOMAIN maps
      BY <3>1 DEF HasRoom
    <3>2. CASE 0 \notin DOMAIN maps
      <4>0. DOMAIN maps \subseteq {0}
        BY <1>2, MapTypes
      <4>1. DOMAIN maps = {}
        BY <3>2, <4>0
      <4> QED
        BY <1>2, <4>1, FS_EmptySet DEF HasRoom, CounterFits
    <3> QED
      BY <3>1, <3>2
  <2>2. Lookup(maps', 0) = (value + 1) % Word
    BY <1>4, <2>1 DEF Put, Lookup
  <2> QED
    BY <1>5, <2>2, WrapsOnce
<1>10. /\ Len(turns') = Len(turns) + 1 /\ turns'[Len(turns) + 1] = Pick(value)
       /\ \A i \in 1..Len(turns) : turns'[i] = turns[i]
  <2>1. Pick(value) \in Addresses
    <3>1. value \in Nat
      BY <1>2, MapTypes, WordAssumption
    <3> QED
      BY <1>2, <1>4, <3>1, PickIsOfPool
  <2> QED
    BY <1>2, <1>4, <2>1, AppendProperties
<1>11. ASSUME NEW i \in 1..(Len(turns) + 1)
       PROVE  turns'[i] = backends[(((n + 1) - (Len(turns) + 1) + i - 1) % size) + 1]
  <2>1. CASE i = Len(turns) + 1
    <3>1. (n + 1) - (Len(turns) + 1) + i - 1 = n
      BY <1>5, <2>1
    <3> QED
      BY <1>8, <1>10, <2>1, <3>1
  <2>2. CASE i # Len(turns) + 1
    <3>1. i \in 1..Len(turns) /\ (n + 1) - (Len(turns) + 1) + i - 1 = n - Len(turns) + i - 1
      BY <1>5, <2>2
    <3>2. turns[i] = backends[TurnOf(n, i)]
      BY <1>1, <3>1 DEF CountIs
    <3> QED
      BY <1>10, <3>1, <3>2 DEF TurnOf
  <2> QED
    BY <2>1, <2>2
<1> HIDE DEF size, value
<1>12. CountIs(n + 1)'
  <2>1. Len(turns') <= n + 1
    BY <1>5, <1>10
  <2>2. \A i \in 1..Len(turns') :
          /\ backends' # <<>>
          /\ turns'[i] = backends'[(((n + 1) - Len(turns') + i - 1) % Len(backends')) + 1]
    BY <1>4, <1>10, <1>11 DEF size
  <2> QED
    BY <1>6, <1>9, <2>1, <2>2 DEF CountIs, TurnOf
<1>13. PoolOK'
  BY <1>2, <1>4 DEF PoolOK
<1> QED
  BY <1>12, <1>13

LEMMA TurnsStep == TurnsInv /\ [Next]_vars => TurnsInv'
<1> SUFFICES ASSUME TurnsInv, [Next]_vars PROVE TurnsInv'
  OBVIOUS
<1>1. TypeInv' /\ CounterFits
  BY TypesStep DEF TurnsInv
<1>2. CASE UNCHANGED <<backends, maps, turns>>
  BY <1>1, <1>2, CountStays DEF TurnsInv
<1>3. ASSUME NEW a \in Addresses, AddBackend(a) \/ RemoveBackend(a) PROVE TurnsInv'
  BY <1>1, <1>3, PoolChanges DEF TurnsInv
<1>4. ASSUME NEW q \in Calls, RoundRobin(q) PROVE TurnsInv'
  BY <1>1, <1>4, NextTurn DEF TurnsInv
<1>5. ASSUME NEW q \in Calls, Handle(q) PROVE TurnsInv'
  BY <1>2, <1>4, <1>5 DEF Handle, Static, Unavailable, AnswerAtEdge, ByHash, lbVars
<1> QED
  BY <1>2, <1>3, <1>5 DEF Next, vars, lbVars, Fabrics, SetProgram, ServeStatic

\* Consecutive counts pick consecutive backends of a pool that has each once.
LEMMA CountsTakeTurns ==
    ASSUME TurnsInv
    PROVE  TakesTurns
<1>1. PICK n \in Nat : CountIs(n)
  BY DEF TurnsInv
<1>2. /\ backends \in Seq(Addresses) /\ DOMAIN backends = 1..Len(backends) /\ PoolOK
      /\ Len(backends) \in Nat /\ Len(turns) \in Nat /\ Len(turns) <= n
  BY <1>1, LenProperties DEF TurnsInv, TypeInv, TypeOK, CountIs
<1> SUFFICES ASSUME NEW i \in 1..Len(turns), NEW j \in 1..Len(turns)
             PROVE  turns[i] = turns[j] <=> i % Len(backends) = j % Len(backends)
  BY DEF TakesTurns
<1> DEFINE size == Len(backends)
           u == n - Len(turns) + i - 1
           v == n - Len(turns) + j - 1
<1>3. size \in Nat \ {0}
  BY <1>1, <1>2, EmptySeq, LenProperties DEF CountIs
<1>4. turns[i] = backends[(u % size) + 1] /\ turns[j] = backends[(v % size) + 1]
  BY <1>1 DEF CountIs, TurnOf
<1>5. u \in Nat /\ v \in Nat /\ u - v = i - j /\ i \in Nat /\ j \in Nat
  BY <1>2
<1> HIDE DEF u, v
<1>6. (u % size) + 1 \in DOMAIN backends /\ (v % size) + 1 \in DOMAIN backends
      /\ u % size \in Nat /\ v % size \in Nat
  BY <1>2, <1>3, <1>5
<1>7. turns[i] = turns[j] <=> u % size = v % size
  BY <1>2, <1>4, <1>6 DEF PoolOK
<1> HIDE DEF size
<1>8. u % size = v % size <=> i % size = j % size
  <2>1. u % size = v % size <=> \E k \in Int : u - v = size * k
    BY <1>3, <1>5, SameRemainder
  <2>2. i % size = j % size <=> \E k \in Int : i - j = size * k
    BY <1>3, <1>5, SameRemainder
  <2>3. (\E k \in Int : u - v = size * k) <=> \E k \in Int : i - j = size * k
    BY <1>5
  <2> QED
    BY <2>1, <2>2, <2>3
<1> QED
  BY <1>7, <1>8 DEF size

\* The counter counts the turns taken: the inductive invariant of round robin.
THEOREM TurnsInvariant == CounterFits => (Spec => []TurnsInv)
  BY TurnsInit, TurnsStep, PTL DEF Spec

\* Round robin takes turns over any pool, and whatever else happens in between, as
\* long as its counter has room and does not wrap in the middle of a round.
THEOREM RoundRobinTakesTurns == CounterFits => (Spec => []TakesTurns)
<1>1. TurnsInv => TakesTurns
  BY CountsTakeTurns
<1> QED
  BY <1>1, TurnsInvariant, PTL
=============================================================================
