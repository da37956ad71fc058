------------------------------ MODULE EbpfMap ------------------------------
(***************************************************************************)
(* EbpfMap of src/src/ebpf/maps.ts as operators on its contents, a function *)
(* from the keys it holds to their values: u64 to u64, and no more than     *)
(* MaxEntries keys.  Keys here are small and need no wrapping.              *)
(***************************************************************************)
EXTENDS Naturals, FiniteSets

CONSTANTS
    MaxEntries,     \* new EbpfMap(maxEntries)
    Word            \* 2^64

ASSUME MaxEntriesAssumption == MaxEntries \in Nat
ASSUME WordAssumption == Word \in Nat \ {0}

EbpfMaps(Keys) == UNION {[held -> 0..(Word - 1)] : held \in SUBSET Keys}

EmptyMap == [k \in {} |-> 0]

HasRoom(m, k) == k \in DOMAIN m \/ Cardinality(DOMAIN m) < MaxEntries

\* What the MAP_GET helper reads: a key that is not there counts as 0.
Lookup(m, k) == IF k \in DOMAIN m THEN m[k] ELSE 0

\* Mutant: values are not wrapped to 64 bits.
PutUnwrapped(m, k, v) ==
    IF HasRoom(m, k)
    THEN [x \in DOMAIN m \cup {k} |-> IF x = k THEN v ELSE m[x]]
    ELSE m

\* set(): a new key of a full map is refused.
Put(m, k, v) ==
    IF HasRoom(m, k)
    THEN [x \in DOMAIN m \cup {k} |-> IF x = k THEN v % Word ELSE m[x]]
    ELSE m

Add(m, k, delta) == Put(m, k, Lookup(m, k) + delta)
=============================================================================
