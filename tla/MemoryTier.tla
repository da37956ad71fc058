----------------------------- MODULE MemoryTier -----------------------------
(***************************************************************************)
(* MemoryTier of src/src/memory/tiered-memory.ts: a map whose expired       *)
(* entries stay until an operation finds them.  Each operation is one       *)
(* synchronous step that reads the clock as often as the code does.         *)
(***************************************************************************)
EXTENDS KVStore

VARIABLES
    data,           \* data[k]: Null, or the Entry of k, expired or not
    now,
    asked, answer   \* the last call and what it returned

tierVars == <<data, now, asked, answer>>

Contents == [k \in Keys |->
    IF data[k] = Null \/ (data[k].expiresAt # NoExpiry /\ data[k].expiresAt <= now)
    THEN Null ELSE data[k]]
Tier == INSTANCE ExpiringTier WITH content <- Contents

Call(c, a) == asked' = c /\ answer' = a
Later == {t \in {now, now + 1} : t <= MaxTime}

TierInit ==
    /\ data = [k \in Keys |-> Null]
    /\ now = 0
    /\ asked = <<"none">> /\ answer = Null
-----------------------------------------------------------------------------
\* Mutant: an entry outlives its last moment.
LiveLate(k, t) ==
    IF data[k] = Null \/ (data[k].expiresAt # NoExpiry /\ data[k].expiresAt < t)
    THEN Null ELSE data[k]

\* live(): the entry of k when the clock shows t, or Null; what is not live is
\* deleted by the one who asks.
Live(k, t) ==
    IF data[k] = Null \/ (data[k].expiresAt # NoExpiry /\ data[k].expiresAt <= t)
    THEN Null ELSE data[k]
Swept(k, t) == [data EXCEPT ![k] = Live(k, t)]

Tick == now < MaxTime /\ now' = now + 1 /\ UNCHANGED <<data, asked, answer>>

Get(k) ==
    /\ Call(<<"get", k>>, IF Live(k, now) = Null THEN Null ELSE Got(Live(k, now).value))
    /\ data' = Swept(k, now)
    /\ UNCHANGED now

Set(k, v, ttl) ==
    /\ Call(<<"set", k>>, Null)
    /\ data' = [data EXCEPT ![k] = Entry(v, ExpiryOf(ttl, now))]
    /\ UNCHANGED now

\* del() does not ask whether the entry is live.
Del(k) ==
    /\ Call(<<"del", k>>, Told(data[k] # Null))
    /\ data' = [data EXCEPT ![k] = Null]
    /\ UNCHANGED now

Incr(k) ==
    LET e == IF Live(k, now) = Null THEN Entry(0, NoExpiry) ELSE Live(k, now)
    IN  /\ IF e.value \in Texts
           THEN Call(<<"incr", k>>, Null) /\ data' = Swept(k, now)
           ELSE /\ e.value < MaxNumber
                /\ Call(<<"incr", k>>, Got(e.value + 1))
                /\ data' = [data EXCEPT ![k] = Entry(e.value + 1, e.expiresAt)]
        /\ UNCHANGED now

\* The clock is read twice.
Expire(k, ttl) ==
    \E t \in Later :
        /\ Call(<<"expire", k>>, Told(Live(k, now) # Null))
        /\ data' = IF Live(k, now) = Null THEN Swept(k, now)
                   ELSE [data EXCEPT ![k].expiresAt = t + ttl]
        /\ now' = t

Ttl(k) ==
    LET e == Live(k, now)
    IN  \E t \in Later :
        /\ Call(<<"ttl", k>>, TimeLeft(
                CASE e = Null -> -2
                  [] e # Null /\ e.expiresAt = NoExpiry -> -1
                  [] OTHER -> IF e.expiresAt > t THEN e.expiresAt - t ELSE 0))
        /\ data' = Swept(k, now)
        /\ now' = t

\* The clock is read for each key; the keys are met in any order.
ListKeys ==
    \E t \in Later : \E when \in [Keys -> now..t] :
        /\ Call(<<"keys">>, Listing({k \in Keys : Live(k, when[k]) # Null}))
        /\ data' = [k \in Keys |-> Live(k, when[k])]
        /\ now' = t

Flush == Call(<<"flush">>, Null) /\ data' = [k \in Keys |-> Null] /\ UNCHANGED now

TierNext ==
    \/ Tick \/ ListKeys \/ Flush
    \/ \E k \in Keys : Get(k) \/ Del(k) \/ Incr(k) \/ Ttl(k)
    \/ \E k \in Keys, v \in Values, ttl \in Ttls : Set(k, v, ttl)
    \/ \E k \in Keys, ttl \in Ttls : Expire(k, ttl)
-----------------------------------------------------------------------------
\* A client cannot tell that expiry is lazy: every call answers as a store would
\* whose entries are gone the moment they expire, and the clock may move while the
\* call runs.  (MemoryTier, whose live() deletes late, as a KVStore.)
ExpiresAtOnce == Tier!Spec
=============================================================================
