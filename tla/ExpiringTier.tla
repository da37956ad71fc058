---------------------------- MODULE ExpiringTier ----------------------------
(***************************************************************************)
(* What a client of KVStore (src/src/memory/tiered-memory.ts) is promised:  *)
(* a store whose entries are gone the moment they expire.  A call may take  *)
(* time, and answers for some moment between its start and its end.         *)
(***************************************************************************)
EXTENDS KVStore

VARIABLES
    content,        \* content[k]: Null, or a value and when it expires
    now,
    asked, answer   \* the last call and what it returned

LiveAt(e, t) == e # Null /\ (e.expiresAt = NoExpiry \/ e.expiresAt > t)
At(c, t) == [k \in Keys |-> IF LiveAt(c[k], t) THEN c[k] ELSE Null]

\* Time passes by at most one while a call runs.
Later == {t \in {now, now + 1} : t <= MaxTime}

\* The content is c from now on, and the clock shows t.
Becomes(c, t) == now' = t /\ content' = At(c, t)
Call(c, a) == asked' = c /\ answer' = a

Init ==
    /\ content = [k \in Keys |-> Null]
    /\ now = 0
    /\ asked = <<"none">> /\ answer = Null

Tick == now < MaxTime /\ Becomes(content, now + 1) /\ UNCHANGED <<asked, answer>>

Get(k) ==
    /\ Call(<<"get", k>>, IF content[k] = Null THEN Null ELSE Got(content[k].value))
    /\ Becomes(content, now)

Set(k, v, ttl) ==
    /\ Call(<<"set", k>>, Null)
    /\ Becomes([content EXCEPT ![k] = Entry(v, ExpiryOf(ttl, now))], now)

\* What del() answers for a key that is gone is left open.
Del(k) ==
    /\ \E told \in BOOLEAN :
        /\ content[k] # Null => told
        /\ Call(<<"del", k>>, Told(told))
    /\ Becomes([content EXCEPT ![k] = Null], now)

\* The key keeps its expiry; a value that is not a number is an error.
Incr(k) ==
    LET e == IF content[k] = Null THEN Entry(0, NoExpiry) ELSE content[k]
    IN  IF e.value \in Texts
        THEN Call(<<"incr", k>>, Null) /\ Becomes(content, now)
        ELSE /\ e.value < MaxNumber
             /\ Call(<<"incr", k>>, Got(e.value + 1))
             /\ Becomes([content EXCEPT ![k] = Entry(e.value + 1, e.expiresAt)], now)

Expire(k, ttl) ==
    \E t \in Later :
        /\ Call(<<"expire", k>>, Told(content[k] # Null))
        /\ Becomes(IF content[k] = Null THEN content
                   ELSE [content EXCEPT ![k].expiresAt = t + ttl], t)

\* -2: no key; -1: no expiry; otherwise what is left, at the end of the call.
Ttl(k) ==
    \E t \in Later :
        /\ Call(<<"ttl", k>>, TimeLeft(
                CASE content[k] = Null -> -2
                  [] content[k] # Null /\ content[k].expiresAt = NoExpiry -> -1
                  [] OTHER -> IF content[k].expiresAt > t THEN content[k].expiresAt - t ELSE 0))
        /\ Becomes(content, t)

\* Each key that lives through the call is listed, and none that did not live
\* when it began.
ListKeys ==
    \E t \in Later, listed \in SUBSET Keys :
        /\ Call(<<"keys">>, Listing(listed))
        /\ \A k \in Keys : /\ LiveAt(content[k], t) => k \in listed
                           /\ k \in listed => content[k] # Null
        /\ Becomes(content, t)

Flush == Call(<<"flush">>, Null) /\ Becomes([k \in Keys |-> Null], now)

Next ==
    \/ Tick \/ ListKeys \/ Flush
    \/ \E k \in Keys : Get(k) \/ Del(k) \/ Incr(k) \/ Ttl(k)
    \/ \E k \in Keys, v \in Values, ttl \in Ttls : Set(k, v, ttl)
    \/ \E k \in Keys, ttl \in Ttls : Expire(k, ttl)

Spec == Init /\ [][Next]_<<content, now, asked, answer>>
=============================================================================
