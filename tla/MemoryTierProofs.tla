-------------------------- MODULE MemoryTierProofs --------------------------
(***************************************************************************)
(* MemoryTier implements ExpiringTier, for every value of the constants:    *)
(* the refinement that the runs check on a few keys.                        *)
(***************************************************************************)
EXTENDS MemoryTier, TLAPS

TierSpec == TierInit /\ [][TierNext]_tierVars

Entries == [value : Values, expiresAt : Int \cup {NoExpiry}]

TierInv ==
    /\ data \in [Keys -> Entries \cup {Null}]
    /\ now \in Nat

\* Contents is the content of data at the moment.
LEMMA ContentsAreLive == TierInv => Contents = Tier!At(data, now)
<1> SUFFICES ASSUME TierInv, NEW k \in Keys, data[k] # Null
             PROVE  (data[k].expiresAt # NoExpiry /\ data[k].expiresAt <= now)
                      <=> ~(data[k].expiresAt = NoExpiry \/ data[k].expiresAt > now)
  BY DEF Contents, Tier!At, Tier!LiveAt
<1>1. data[k].expiresAt \in Int \cup {NoExpiry} /\ now \in Nat
  BY DEF TierInv, Entries
<1> QED
  BY <1>1

\* What was found dead stays dead: to look at an earlier moment first changes
\* nothing.
LEMMA DeadForGood ==
    ASSUME NEW e \in Entries \cup {Null}, NEW t \in Int, NEW t2 \in Int, t <= t2
    PROVE  Tier!LiveAt(e, t2) => Tier!LiveAt(e, t)
<1>1. CASE e = Null
  BY <1>1 DEF Tier!LiveAt
<1>2. CASE e \in Entries
  <2>1. e.expiresAt \in Int \cup {NoExpiry}
    BY <1>2 DEF Entries
  <2> QED
    BY <2>1 DEF Tier!LiveAt
<1> QED
  BY <1>1, <1>2

\* Two entries that nobody can tell apart when the clock shows t.
SameAt(e, f, t) == e = f \/ (~Tier!LiveAt(e, t) /\ ~Tier!LiveAt(f, t))

\* The step of the abstract store: data ends as c would, but for what is dead.
LEMMA Becomes ==
    ASSUME TierInv', NEW c, NEW t, now' = t,
           \A k \in Keys : SameAt(data'[k], c[k], t)
    PROVE  Tier!Becomes(c, t)
<1>1. Contents' = [k \in Keys |-> IF Tier!LiveAt(data'[k], t) THEN data'[k] ELSE Null]
  <2>1. \A k \in Keys : data'[k] # Null =>
          ((data'[k].expiresAt # NoExpiry /\ data'[k].expiresAt <= now')
             <=> ~(data'[k].expiresAt = NoExpiry \/ data'[k].expiresAt > now'))
    <3> SUFFICES ASSUME NEW k \in Keys, data'[k] # Null
                 PROVE  (data'[k].expiresAt # NoExpiry /\ data'[k].expiresAt <= now')
                          <=> ~(data'[k].expiresAt = NoExpiry \/ data'[k].expiresAt > now')
      OBVIOUS
    <3>1. data'[k].expiresAt \in Int \cup {NoExpiry} /\ now' \in Nat
      BY DEF TierInv, Entries
    <3> QED
      BY <3>1
  <2> QED
    BY <2>1 DEF Contents, Tier!LiveAt
<1> QED
  BY <1>1 DEF SameAt, Tier!Becomes, Tier!At

\* What live() says of a key is what the abstract store holds.
LEMMA LiveIsHeld ==
    ASSUME TierInv, NEW k \in Keys
    PROVE  /\ Contents[k] = Live(k, now)
           /\ Live(k, now) \in Entries \cup {Null}
           /\ Live(k, now) \in {data[k], Null}
           /\ Live(k, now) = Null => ~Tier!LiveAt(data[k], now)
<1>1. Contents[k] = Live(k, now) /\ data[k] \in Entries \cup {Null}
  BY DEF Contents, Live, TierInv
<1>2. data[k] # Null => data[k].expiresAt \in Int \cup {NoExpiry} /\ now \in Nat
  BY <1>1 DEF Entries, TierInv
<1> QED
  BY <1>1, <1>2 DEF Live, Tier!LiveAt

\* Any key, touched by the operation or not.
LEMMA Untouched ==
    ASSUME TierInv, NEW k \in Keys, NEW t \in Int, now <= t
    PROVE  SameAt(data[k], Contents[k], t)
<1>1. now \in Int /\ data[k] \in Entries \cup {Null}
  BY DEF TierInv
<1>2. CASE Live(k, now) = Null
  <2>1. ~Tier!LiveAt(data[k], t)
    BY <1>1, <1>2, LiveIsHeld, DeadForGood
  <2>2. ~Tier!LiveAt(Contents[k], t)
    BY <1>2, LiveIsHeld DEF Tier!LiveAt
  <2> QED
    BY <2>1, <2>2 DEF SameAt
<1>3. CASE Live(k, now) # Null
  <2>1. Contents[k] = Live(k, now) /\ Live(k, now) \in {data[k], Null}
    BY LiveIsHeld
  <2>2. data[k] = Contents[k]
    BY <1>3, <2>1
  <2> QED
    BY <2>2 DEF SameAt
<1> QED
  BY <1>2, <1>3
-----------------------------------------------------------------------------
LEMMA TierTypeInit == TierInit => TierInv
  BY DEF TierInit, TierInv

LEMMA SweptType ==
    ASSUME TierInv, NEW k \in Keys
    PROVE  Swept(k, now) \in [Keys -> Entries \cup {Null}]
  BY LiveIsHeld DEF TierInv, Swept

\* Each operation keeps the types.
LEMMA TierTypeStep == TierInv /\ [TierNext]_tierVars => TierInv'
<1> SUFFICES ASSUME TierInv, [TierNext]_tierVars PROVE TierInv'
  OBVIOUS
<1>later. \A t \in Later : t \in Nat
  BY DEF Later, TierInv
<1>1. CASE UNCHANGED tierVars
  BY <1>1 DEF tierVars, TierInv
<1>2. CASE Tick
  BY <1>2 DEF Tick, TierInv
<1>3. ASSUME NEW k \in Keys, Get(k) PROVE TierInv'
  BY <1>3, SweptType DEF Get, TierInv
<1>4. ASSUME NEW k \in Keys, NEW v \in Values, NEW ttl \in Ttls, Set(k, v, ttl) PROVE TierInv'
  <2>1. Entry(v, ExpiryOf(ttl, now)) \in Entries
    BY BoundsAssumption DEF Entry, ExpiryOf, Entries, TierInv
  <2> QED
    BY <1>4, <2>1 DEF Set, TierInv
<1>5. ASSUME NEW k \in Keys, Del(k) PROVE TierInv'
  BY <1>5 DEF Del, TierInv
<1>6. ASSUME NEW k \in Keys, Incr(k) PROVE TierInv'
  <2> DEFINE e == IF Live(k, now) = Null THEN Entry(0, NoExpiry) ELSE Live(k, now)
  <2>1. e \in Entries
    BY LiveIsHeld, BoundsAssumption DEF Entry, Entries, Values
  <2>2. CASE e.value \in Texts
    BY <1>6, <2>2, SweptType DEF Incr, TierInv
  <2>3. CASE e.value \notin Texts
    <3>1. e.value \in 0..MaxNumber /\ e.expiresAt \in Int \cup {NoExpiry}
      BY <2>1, <2>3 DEF Entries, Values
    <3>2. e.value < MaxNumber /\ now' = now
          /\ data' = [data EXCEPT ![k] = Entry(e.value + 1, e.expiresAt)]
      BY <1>6, <2>3 DEF Incr
    <3>3. Entry(e.value + 1, e.expiresAt) \in Entries
      BY <3>1, <3>2, BoundsAssumption DEF Entry, Entries, Values
    <3> QED
      BY <3>2, <3>3 DEF TierInv
  <2> QED
    BY <2>2, <2>3
<1>7. ASSUME NEW k \in Keys, NEW ttl \in Ttls, Expire(k, ttl) PROVE TierInv'
  <2>1. PICK t \in Later : now' = t /\ data' = IF Live(k, now) = Null THEN Swept(k, now)
                                             ELSE [data EXCEPT ![k].expiresAt = t + ttl]
    BY <1>7 DEF Expire
  <2>2. CASE Live(k, now) = Null
    BY <1>later, <2>1, <2>2, SweptType DEF TierInv
  <2>3. CASE Live(k, now) # Null
    <3>1. data[k] \in Entries
      BY <2>3, LiveIsHeld
    <3>2. [data[k] EXCEPT !.expiresAt = t + ttl] \in Entries
      BY <1>later, <3>1, BoundsAssumption DEF Entries
    <3> QED
      BY <1>later, <2>1, <2>3, <3>2 DEF TierInv
  <2> QED
    BY <2>2, <2>3
<1>8. ASSUME NEW k \in Keys, Ttl(k) PROVE TierInv'
  BY <1>8, <1>later, SweptType DEF Ttl, TierInv
<1>9. CASE ListKeys
  BY <1>9, <1>later DEF ListKeys, TierInv, Live
<1>10. CASE Flush
  BY <1>10 DEF Flush, TierInv
<1> QED
  BY <1>1, <1>2, <1>3, <1>4, <1>5, <1>6, <1>7, <1>8, <1>9, <1>10 DEF TierNext
-----------------------------------------------------------------------------
(* Each operation is that of the abstract store.                            *)

\* A key that is swept on the way.
LEMMA SweptIsDead ==
    ASSUME TierInv, TierInv', NEW k \in Keys, NEW t, now' = t, t \in Int, now <= t,
           data' = Swept(k, now)
    PROVE  Tier!Becomes(Contents, t)
<1>1. ASSUME NEW j \in Keys
      PROVE  SameAt(data'[j], Contents[j], t)
  <2>1. CASE j = k
    <3>1. data'[j] = Live(k, now)
      BY <2>1 DEF Swept, TierInv
    <3> QED
      BY <2>1, <3>1, LiveIsHeld DEF SameAt
  <2>2. CASE j # k
    <3>1. data'[j] = data[j]
      BY <2>2 DEF Swept, TierInv
    <3> QED
      BY <3>1, Untouched
  <2> QED
    BY <2>1, <2>2
<1> QED
  BY <1>1, Becomes

\* A key that is written.
LEMMA WrittenIsHeld ==
    ASSUME TierInv, TierInv', NEW k \in Keys, NEW e, NEW t, now' = t, t \in Int, now <= t,
           data' = [data EXCEPT ![k] = e]
    PROVE  Tier!Becomes([Contents EXCEPT ![k] = e], t)
<1> DEFINE c == [Contents EXCEPT ![k] = e]
<1>1. ASSUME NEW j \in Keys
      PROVE  SameAt(data'[j], c[j], t)
  <2>1. j \in DOMAIN Contents /\ j \in DOMAIN data
    BY DEF Contents, TierInv
  <2>2. CASE j = k
    BY <2>1, <2>2 DEF SameAt
  <2>3. CASE j # k
    <3>1. data'[j] = data[j] /\ c[j] = Contents[j]
      BY <2>1, <2>3
    <3> QED
      BY <3>1, Untouched
  <2> QED
    BY <2>2, <2>3
<1> QED
  <2> HIDE DEF c
  <2>1. Tier!Becomes(c, t)
    BY <1>1, Becomes
  <2> QED
    BY <2>1 DEF c

LEMMA TierStep == TierInv /\ TierInv' /\ [TierNext]_tierVars => [Tier!Next]_<<Contents, now, asked, answer>>
<1> SUFFICES ASSUME TierInv, TierInv', [TierNext]_tierVars
             PROVE  Tier!Next \/ UNCHANGED <<Contents, now, asked, answer>>
  OBVIOUS
<1>now. now \in Int /\ now <= now
  BY DEF TierInv
<1>later. \A t \in Later : t \in Int /\ now <= t /\ t \in Tier!Later
  BY DEF Later, Tier!Later, TierInv
<1>1. CASE UNCHANGED tierVars
  BY <1>1 DEF tierVars, Contents
<1>2. CASE Tick
  <2>1. ASSUME NEW j \in Keys
        PROVE  SameAt(data'[j], Contents[j], now + 1)
    BY <1>2, <1>now, Untouched DEF Tick
  <2>2. Tier!Becomes(Contents, now + 1)
    BY <1>2, <2>1, Becomes DEF Tick
  <2> QED
    BY <1>2, <2>2 DEF Tick, Tier!Tick, Tier!Next
<1>3. ASSUME NEW k \in Keys, Get(k) PROVE Tier!Next
  <2>1. Tier!Becomes(Contents, now)
    BY <1>3, <1>now, SweptIsDead DEF Get
  <2>2. Tier!Get(k)
    BY <1>3, <2>1, LiveIsHeld DEF Get, Tier!Get, Call, Tier!Call, Got, Tier!Got
  <2> QED
    BY <2>2 DEF Tier!Next
<1>4. ASSUME NEW k \in Keys, NEW v \in Values, NEW ttl \in Ttls, Set(k, v, ttl)
      PROVE  Tier!Next
  <2>1. Tier!Becomes([Contents EXCEPT ![k] = Entry(v, ExpiryOf(ttl, now))], now)
    BY <1>4, <1>now, WrittenIsHeld DEF Set
  <2>2. Tier!Set(k, v, ttl)
    BY <1>4, <2>1 DEF Set, Tier!Set, Call, Tier!Call, Entry, Tier!Entry, ExpiryOf, Tier!ExpiryOf
  <2> QED
    BY <2>2 DEF Tier!Next, Values, Tier!Values
<1>5. ASSUME NEW k \in Keys, Del(k) PROVE Tier!Next
  <2>1. Tier!Becomes([Contents EXCEPT ![k] = Null], now)
    BY <1>5, <1>now, WrittenIsHeld DEF Del
  <2>2. Contents[k] # Null => data[k] # Null
    BY DEF Contents
  <2>3. Tier!Del(k)
    BY <1>5, <2>1, <2>2 DEF Del, Tier!Del, Call, Tier!Call, Told, Tier!Told
  <2> QED
    BY <2>3 DEF Tier!Next
<1>6. ASSUME NEW k \in Keys, Incr(k) PROVE Tier!Next
  <2> DEFINE e == IF Contents[k] = Null THEN Entry(0, NoExpiry) ELSE Contents[k]
  <2>1. e = IF Live(k, now) = Null THEN Entry(0, NoExpiry) ELSE Live(k, now)
    BY LiveIsHeld
  <2>2. CASE e.value \in Texts
    <3>1. Call(<<"incr", k>>, Null) /\ data' = Swept(k, now) /\ now' = now
      BY <1>6, <2>1, <2>2 DEF Incr
    <3>2. Tier!Becomes(Contents, now)
      BY <1>now, <3>1, SweptIsDead
    <3>3. Tier!Incr(k)
      BY <2>2, <3>1, <3>2 DEF Tier!Incr, Call, Tier!Call, Entry, Tier!Entry
    <3> QED
      BY <3>3 DEF Tier!Next
  <2>3. CASE e.value \notin Texts
    <3>1. /\ e.value < MaxNumber /\ Call(<<"incr", k>>, Got(e.value + 1)) /\ now' = now
          /\ data' = [data EXCEPT ![k] = Entry(e.value + 1, e.expiresAt)]
      BY <1>6, <2>1, <2>3 DEF Incr
    <3>2. Tier!Becomes([Contents EXCEPT ![k] = Entry(e.value + 1, e.expiresAt)], now)
      BY <1>now, <3>1, WrittenIsHeld
    <3>3. Tier!Incr(k)
      BY <2>3, <3>1, <3>2
      DEF Tier!Incr, Call, Tier!Call, Entry, Tier!Entry, Got, Tier!Got
    <3> QED
      BY <3>3 DEF Tier!Next
  <2> QED
    BY <2>2, <2>3
<1>7. ASSUME NEW k \in Keys, NEW ttl \in Ttls, Expire(k, ttl) PROVE Tier!Next
  <2>1. PICK t \in Later :
          /\ now' = t /\ Call(<<"expire", k>>, Told(Live(k, now) # Null))
          /\ data' = IF Live(k, now) = Null THEN Swept(k, now)
                     ELSE [data EXCEPT ![k].expiresAt = t + ttl]
    BY <1>7 DEF Expire
  <2>2. CASE Contents[k] = Null
    <3>1. Tier!Becomes(Contents, t)
      BY <1>later, <2>1, <2>2, LiveIsHeld, SweptIsDead
    <3>2. Tier!Expire(k, ttl)
      BY <1>later, <2>1, <2>2, <3>1, LiveIsHeld
      DEF Tier!Expire, Call, Tier!Call, Told, Tier!Told
    <3> QED
      BY <3>2 DEF Tier!Next
  <2>3. CASE Contents[k] # Null
    <3> DEFINE e == [data[k] EXCEPT !.expiresAt = t + ttl]
    <3>1. Live(k, now) # Null /\ Contents[k] = data[k]
      BY <2>3, LiveIsHeld
    <3>2. data' = [data EXCEPT ![k] = e]
      BY <2>1, <3>1
    <3>3. Tier!Becomes([Contents EXCEPT ![k] = e], t)
      BY <1>later, <2>1, <3>2, WrittenIsHeld
    <3>4. [Contents EXCEPT ![k] = e] = [Contents EXCEPT ![k].expiresAt = t + ttl]
      BY <3>1 DEF Contents
    <3>5. Tier!Expire(k, ttl)
      BY <1>later, <2>1, <2>3, <3>1, <3>3, <3>4
      DEF Tier!Expire, Call, Tier!Call, Told, Tier!Told
    <3> QED
      BY <3>5 DEF Tier!Next
  <2> QED
    BY <2>2, <2>3
<1>8. ASSUME NEW k \in Keys, Ttl(k) PROVE Tier!Next
  <2> DEFINE left(t) == CASE Contents[k] = Null -> -2
                          [] Contents[k] # Null /\ Contents[k].expiresAt = NoExpiry -> -1
                          [] OTHER -> IF Contents[k].expiresAt > t
                                      THEN Contents[k].expiresAt - t ELSE 0
  <2>1. Contents[k] = Live(k, now)
    BY LiveIsHeld
  <2>2. PICK t \in Later : /\ now' = t /\ data' = Swept(k, now)
                           /\ Call(<<"ttl", k>>, TimeLeft(left(t)))
    BY <1>8, <2>1 DEF Ttl
  <2>3. Tier!Becomes(Contents, t)
    BY <1>later, <2>2, SweptIsDead
  <2>4. Tier!Ttl(k)
    BY <1>later, <2>2, <2>3 DEF Tier!Ttl, Call, Tier!Call, TimeLeft, Tier!TimeLeft
  <2> QED
    BY <2>4 DEF Tier!Next
<1>9. CASE ListKeys
  <2>1. PICK t \in Later : \E when \in [Keys -> now..t] :
          /\ Call(<<"keys">>, Listing({k \in Keys : Live(k, when[k]) # Null}))
          /\ data' = [k \in Keys |-> Live(k, when[k])] /\ now' = t
    BY <1>9 DEF ListKeys
  <2>2. PICK when \in [Keys -> now..t] :
          /\ Call(<<"keys">>, Listing({k \in Keys : Live(k, when[k]) # Null}))
          /\ data' = [k \in Keys |-> Live(k, when[k])] /\ now' = t
    BY <2>1
  <2> DEFINE listed == {k \in Keys : Live(k, when[k]) # Null}
  <2>3. ASSUME NEW k \in Keys, NEW s \in now..t
        PROVE  /\ Live(k, s) = IF Tier!LiveAt(data[k], s) THEN data[k] ELSE Null
               /\ Tier!LiveAt(data[k], t) => Tier!LiveAt(data[k], s)
               /\ Tier!LiveAt(data[k], s) => Tier!LiveAt(data[k], now)
    <3>1. s \in Int /\ t \in Int /\ now <= s /\ s <= t
      BY <1>now, <1>later
    <3>2. data[k] \in Entries \cup {Null}
      BY DEF TierInv
    <3>3. data[k] # Null => data[k].expiresAt \in Int \cup {NoExpiry}
      BY <3>2 DEF Entries
    <3> QED
      BY <1>now, <3>1, <3>2, <3>3, DeadForGood DEF Live, Tier!LiveAt
  <2>4. ASSUME NEW k \in Keys
        PROVE  Contents[k] = IF Tier!LiveAt(data[k], now) THEN data[k] ELSE Null
    BY ContentsAreLive DEF Tier!At
  <2>5. ASSUME NEW k \in Keys
        PROVE  /\ Tier!LiveAt(Contents[k], t) => k \in listed
               /\ k \in listed => Contents[k] # Null
               /\ SameAt(data'[k], Contents[k], t)
    <3>1. when[k] \in now..t /\ data'[k] = Live(k, when[k])
      BY <2>2
    <3>2. ~Tier!LiveAt(Null, t)
      BY DEF Tier!LiveAt
    <3>3. Tier!LiveAt(data[k], when[k]) => data[k] # Null
      BY DEF Tier!LiveAt
    <3> QED
      BY <2>3, <2>4, <3>1, <3>2, <3>3 DEF SameAt
  <2>6. Tier!Becomes(Contents, t)
    BY <2>2, <2>5, Becomes
  <2>7. Tier!ListKeys
    <3> HIDE DEF listed
    <3>1. listed \in SUBSET Keys /\ Call(<<"keys">>, Listing(listed))
      BY <2>2 DEF listed
    <3> QED
      BY <1>later, <2>5, <2>6, <3>1 DEF Tier!ListKeys, Call, Tier!Call, Listing, Tier!Listing
  <2> QED
    BY <2>7 DEF Tier!Next
<1>10. CASE Flush
  <2>1. data' = [k \in Keys |-> Null] /\ now' = now
    BY <1>10 DEF Flush
  <2>2. Tier!Becomes([k \in Keys |-> Null], now)
    BY <2>1, Becomes DEF SameAt
  <2> QED
    BY <1>10, <2>2 DEF Flush, Tier!Flush, Call, Tier!Call, Tier!Next
<1> QED
  BY <1>1, <1>2, <1>3, <1>4, <1>5, <1>6, <1>7, <1>8, <1>9, <1>10 DEF TierNext

\* Lazy expiry cannot be told from expiry at once, whatever the keys, the values,
\* the times to live and the clock: MemoryTier implements ExpiringTier.
THEOREM TierImplements == TierSpec => ExpiresAtOnce
<1>1. TierInit => Tier!Init
  BY DEF TierInit, Tier!Init, Contents
<1>2. TierInv /\ TierInv' /\ [TierNext]_tierVars => [Tier!Next]_<<Contents, now, asked, answer>>
  BY TierStep
<1> QED
  BY <1>1, <1>2, TierTypeInit, TierTypeStep, PTL DEF TierSpec, ExpiresAtOnce, Tier!Spec
=============================================================================
