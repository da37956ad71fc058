------------------------------ MODULE KVStore ------------------------------
(***************************************************************************)
(* The values of a KVStore (src/src/memory/tiered-memory.ts) and the bounds *)
(* its specification and its implementation share.                          *)
(***************************************************************************)
EXTENDS Integers

CONSTANTS
    Keys,
    Texts,          \* values that are not numbers
    MaxNumber,      \* bound on the numbers that are values
    Ttls,           \* the times to live that are asked for
    MaxTime,        \* bound on the clock
    NoExpiry, Null

Values == 0..MaxNumber \cup Texts
ASSUME BoundsAssumption == MaxNumber \in Nat /\ MaxTime \in Nat /\ Ttls \subseteq Int
ASSUME NoExpiryAssumption == NoExpiry \notin Int
ASSUME NullAssumption == Null \notin Values

Entry(v, t) == [value |-> v, expiresAt |-> t]

\* Answers of different kinds.
Told(b) == [told |-> b]
Got(v) == [value |-> v]
TimeLeft(n) == [ttl |-> n]
Listing(S) == [listed |-> S]

\* set(): a time to live that is not positive means none.
ExpiryOf(ttl, t) == IF ttl > 0 THEN t + ttl ELSE NoExpiry
=============================================================================
