---------------------------- MODULE TieredMemory ----------------------------
(***************************************************************************)
(* TieredMemory of src/src/memory/tiered-memory.ts: the local tiers by id,  *)
(* and the sandboxes that were handed one.  A tier is here the set of the   *)
(* sandboxes that wrote to it; what a tier does is MemoryTier's.            *)
(***************************************************************************)
EXTENDS Naturals, Sequences

CONSTANTS
    Owners,         \* sandboxes that are bound, once each
    TierIds,        \* the ids they are bound under
    MaxDrops        \* bound on the calls of dropLocal()

VARIABLES
    locals,         \* locals[id]: the number of its tier, or 0
    tiers,          \* the tiers made so far; one that was dropped stays in use
    bound,          \* bound[o]: the id, the tier and the drops of id so far
    wrote,          \* the sandboxes that wrote
    drops           \* drops[id]: how often dropLocal(id) was called

memVars == <<locals, tiers, bound, wrote, drops>>

Unbound == [id |-> "none", tier |-> 0, drops |-> 0]

MemInit ==
    /\ locals = [id \in TierIds |-> 0]
    /\ tiers = <<>>
    /\ bound = [o \in Owners |-> Unbound]
    /\ wrote = {}
    /\ drops = [id \in TierIds |-> 0]

\* bindingFor(), by way of localFor().
Bind(o, id) ==
    /\ bound[o] = Unbound
    /\ tiers' = IF locals[id] = 0 THEN Append(tiers, {}) ELSE tiers
    /\ locals' = [locals EXCEPT ![id] = IF @ = 0 THEN Len(tiers) + 1 ELSE @]
    /\ bound' = [bound EXCEPT ![o] = [id |-> id, tier |-> locals'[id], drops |-> drops[id]]]
    /\ UNCHANGED <<wrote, drops>>

Write(o) ==
    /\ bound[o] # Unbound
    /\ tiers' = [tiers EXCEPT ![bound[o].tier] = @ \cup {o}]
    /\ wrote' = wrote \cup {o}
    /\ UNCHANGED <<locals, bound, drops>>

\* Mutant: the tier is emptied and stays the one of id.
DropLocalInPlace(id) ==
    /\ drops[id] < MaxDrops
    /\ tiers' = IF locals[id] = 0 THEN tiers ELSE [tiers EXCEPT ![locals[id]] = {}]
    /\ drops' = [drops EXCEPT ![id] = @ + 1]
    /\ UNCHANGED <<locals, bound, wrote>>

DropLocal(id) ==
    /\ drops[id] < MaxDrops
    /\ locals' = [locals EXCEPT ![id] = 0]
    /\ drops' = [drops EXCEPT ![id] = @ + 1]
    /\ UNCHANGED <<tiers, bound, wrote>>

MemNext ==
    \/ \E o \in Owners, id \in TierIds : Bind(o, id)
    \/ \E o \in Owners : Write(o)
    \/ \E id \in TierIds : DropLocal(id)
-----------------------------------------------------------------------------
\* A sandbox sees in its local tier what it wrote itself, for good, and what
\* those wrote that were bound under its id with no dropLocal() between the two
\* bindings, and of nobody else.  (localFor(), bindingFor() and dropLocal().)
LocalTierIsShared ==
    \A o \in Owners : bound[o] # Unbound =>
        tiers[bound[o].tier] = {w \in wrote : /\ bound[w].id = bound[o].id
                                              /\ bound[w].drops = bound[o].drops}
=============================================================================
