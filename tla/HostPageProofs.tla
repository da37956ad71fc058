--------------------------- MODULE HostPageProofs ---------------------------
(***************************************************************************)
(* Theorems about the parts of HostPage, for any values of the constants.   *)
(* Each part has an inductive invariant of its own: PartSteps says that a    *)
(* step of the page is a step of one part and a stutter of the others.      *)
(***************************************************************************)
EXTENDS HostPage, MemoryTierProofs, SequenceTheorems

\* A behaviour of the page is one of each part.
LEMMA PartSteps ==
  [Next]_vars => /\ [TierNext]_tierVars /\ [MemNext]_memVars
                 /\ [OrchNext]_orchVars /\ [StoreNext]_storeVars
                 /\ [AskNext]_askVars /\ [MonNext]_monVars
                 /\ [PolicyNext]_policyVars
  BY DEF Next, vars

\* The memory tier of a page expires its entries as ExpiringTier does.
THEOREM PageExpiresAtOnce == Spec => ExpiresAtOnce
<1>1. Init => TierInit
  BY DEF Init
<1>2. [Next]_vars => [TierNext]_tierVars
  BY PartSteps
<1>3. TierInit /\ [][TierNext]_tierVars => ExpiresAtOnce
  BY TierImplements DEF TierSpec
<1>4. QED
  BY <1>1, <1>2, <1>3, PTL DEF Spec
-----------------------------------------------------------------------------
(* TieredMemory: which tier is whose.                                        *)

Bindings == [id : TierIds, tier : Nat, drops : Nat]
IsBound(o) == bound[o] # Unbound

MemTypeOK ==
    /\ locals \in [TierIds -> Nat] /\ drops \in [TierIds -> Nat]
    /\ tiers \in Seq(SUBSET Owners)
    /\ bound \in [Owners -> {Unbound} \cup Bindings]
    /\ wrote \subseteq Owners

\* Tiers are shared by those bound under one id with no drop between, and the
\* local tier of an id is that of those bound since its last drop.
TiersOfBindings ==
    /\ \A o \in Owners : IsBound(o) =>
          /\ bound[o] \in Bindings
          /\ bound[o].tier \in 1..Len(tiers)
          /\ bound[o].drops <= drops[bound[o].id]
    /\ \A o, w \in Owners : IsBound(o) /\ IsBound(w) =>
          (bound[o].tier = bound[w].tier <=>
             bound[o].id = bound[w].id /\ bound[o].drops = bound[w].drops)
    /\ \A id \in TierIds : locals[id] <= Len(tiers)
    /\ \A id \in TierIds, o \in Owners : IsBound(o) =>
          ((locals[id] # 0 /\ bound[o].tier = locals[id]) <=>
             bound[o].id = id /\ bound[o].drops = drops[id])
    /\ \A i, j \in TierIds : locals[i] = locals[j] /\ locals[i] # 0 => i = j

\* A tier holds what its owners wrote, and nothing else.
TiersHoldWrites ==
    /\ \A w \in wrote : IsBound(w)
    /\ \A t \in 1..Len(tiers) : tiers[t] = {w \in wrote : bound[w].tier = t}

MemInv == MemTypeOK /\ TiersOfBindings /\ TiersHoldWrites

LEMMA MemInitInv == MemInit => MemInv
  BY EmptySeq DEF MemInit, MemInv, MemTypeOK, TiersOfBindings, TiersHoldWrites, IsBound

LEMMA BindStep ==
  ASSUME MemInv, NEW o \in Owners, NEW id \in TierIds, Bind(o, id)
  PROVE  MemInv'
<1> DEFINE new == [id |-> id, tier |-> locals'[id], drops |-> drops[id]]
<1>1. /\ locals \in [TierIds -> Nat] /\ drops \in [TierIds -> Nat]
      /\ tiers \in Seq(SUBSET Owners) /\ wrote \subseteq Owners
      /\ bound \in [Owners -> {Unbound} \cup Bindings]
      /\ Len(tiers) \in Nat /\ TiersOfBindings /\ TiersHoldWrites
  BY LenProperties DEF MemInv, MemTypeOK
<1>2. /\ ~IsBound(o) /\ UNCHANGED <<wrote, drops>>
      /\ bound' = [bound EXCEPT ![o] = new]
      /\ locals' = [locals EXCEPT ![id] = IF @ = 0 THEN Len(tiers) + 1 ELSE @]
  BY DEF Bind, IsBound
<1>3. /\ tiers' \in Seq(SUBSET Owners) /\ Len(tiers') \in Nat
      /\ Len(tiers') = IF locals[id] = 0 THEN Len(tiers) + 1 ELSE Len(tiers)
      /\ \A t \in 1..Len(tiers) : tiers'[t] = tiers[t]
      /\ locals[id] = 0 => tiers'[Len(tiers) + 1] = {}
  <2>1. {} \in SUBSET Owners
    OBVIOUS
  <2>2. CASE locals[id] = 0
    <3>1. tiers' = Append(tiers, {})
      BY <2>2 DEF Bind
    <3>2. QED
      BY <1>1, <2>1, <2>2, <3>1, AppendProperties, LenProperties
  <2>3. CASE locals[id] # 0
    BY <1>1, <2>3 DEF Bind
  <2>4. QED
    BY <2>2, <2>3
<1>4. /\ locals' \in [TierIds -> Nat]
      /\ locals'[id] = IF locals[id] = 0 THEN Len(tiers) + 1 ELSE locals[id]
      /\ \A j \in TierIds : j # id => locals'[j] = locals[j]
  BY <1>1, <1>2
<1>5. /\ new \in Bindings /\ new # Unbound /\ new.id = id
      /\ new.tier = locals'[id] /\ new.drops = drops[id]
      /\ new.tier \in 1..Len(tiers')
  <2>1. locals'[id] \in 1..Len(tiers')
    BY <1>1, <1>3, <1>4 DEF TiersOfBindings
  <2>2. QED
    BY <1>1, <1>4, <2>1 DEF Bindings, Unbound
<1>6. bound'[o] = new /\ \A w \in Owners : w # o => bound'[w] = bound[w]
  BY <1>1, <1>2
<1> HIDE DEF new
<1>7. IsBound(o)' /\ \A w \in Owners : w # o => (IsBound(w)' <=> IsBound(w))
  BY <1>5, <1>6 DEF IsBound
<1>8. MemTypeOK'
  BY <1>1, <1>2, <1>3, <1>4, <1>5 DEF MemTypeOK
<1>9. \A w \in Owners : IsBound(w) =>
         /\ bound[w] \in Bindings /\ bound[w].tier \in 1..Len(tiers)
         /\ bound[w].tier \in Nat /\ bound[w].drops \in Nat
         /\ bound[w].drops <= drops[bound[w].id]
  BY <1>1 DEF TiersOfBindings, Bindings
<1>10. \A w \in Owners : IsBound(w) =>
          (bound[w].tier = new.tier <=>
             bound[w].id = id /\ bound[w].drops = drops[id])
  BY <1>1, <1>4, <1>5, <1>9 DEF TiersOfBindings
<1>11. TiersOfBindings'
  <2>1. \A w \in Owners : IsBound(w)' =>
          /\ bound'[w] \in Bindings
          /\ bound'[w].tier \in 1..Len(tiers')
          /\ bound'[w].drops <= drops'[bound'[w].id]
    BY <1>1, <1>2, <1>3, <1>5, <1>6, <1>7, <1>9
  <2>2. \A v, w \in Owners : IsBound(v)' /\ IsBound(w)' =>
          (bound'[v].tier = bound'[w].tier <=>
             bound'[v].id = bound'[w].id /\ bound'[v].drops = bound'[w].drops)
    BY <1>1, <1>5, <1>6, <1>7, <1>10 DEF TiersOfBindings
  <2>3. ASSUME NEW j \in TierIds PROVE locals'[j] <= Len(tiers')
    <3>1. locals[j] \in Nat /\ locals[j] <= Len(tiers) /\ Len(tiers) <= Len(tiers')
      BY <1>1, <1>3 DEF TiersOfBindings
    <3>2. CASE j = id
      BY <1>1, <1>3, <1>4, <3>1, <3>2
    <3>3. CASE j # id
      BY <1>1, <1>3, <1>4, <3>1, <3>3
    <3>4. QED
      BY <3>2, <3>3
  <2>4. \A j, l \in TierIds : locals'[j] = locals'[l] /\ locals'[j] # 0 => j = l
    BY <1>1, <1>4 DEF TiersOfBindings
  <2>5. ASSUME NEW j \in TierIds, NEW w \in Owners, IsBound(w)'
        PROVE  (locals'[j] # 0 /\ bound'[w].tier = locals'[j]) <=>
                  bound'[w].id = j /\ bound'[w].drops = drops'[j]
    <3>1. CASE w = o
      BY <1>2, <1>4, <1>5, <1>6, <2>4, <3>1
    <3>2. CASE w # o /\ j # id
      BY <1>1, <1>2, <1>4, <1>6, <1>7, <2>5, <3>2 DEF TiersOfBindings
    <3>3. CASE w # o /\ j = id
      BY <1>1, <1>2, <1>4, <1>5, <1>6, <1>7, <1>10, <2>5, <3>3
    <3>4. QED
      BY <3>1, <3>2, <3>3
  <2>6. QED
    BY <2>1, <2>2, <2>3, <2>4, <2>5 DEF TiersOfBindings
<1>12. TiersHoldWrites'
  <2>1. \A w \in wrote : w # o /\ IsBound(w) /\ bound'[w] = bound[w]
    BY <1>1, <1>2, <1>6 DEF TiersHoldWrites
  <2>2. ASSUME NEW t \in 1..Len(tiers')
        PROVE  tiers'[t] = {w \in wrote : bound[w].tier = t}
    <3>1. CASE t \in 1..Len(tiers)
      BY <1>1, <1>3, <3>1 DEF TiersHoldWrites
    <3>2. CASE t \notin 1..Len(tiers)
      <4>1. locals[id] = 0 /\ t = Len(tiers) + 1
        BY <1>1, <1>3, <3>2
      <4>2. \A w \in wrote : bound[w].tier # t
        BY <1>1, <1>9, <2>1, <3>2
      <4>3. QED
        BY <1>3, <4>1, <4>2
    <3>3. QED
      BY <3>1, <3>2
  <2>3. \A t : {w \in wrote' : bound'[w].tier = t} = {w \in wrote : bound[w].tier = t}
    BY <1>2, <2>1
  <2>4. QED
    BY <1>1, <1>2, <1>7, <2>1, <2>2, <2>3 DEF TiersHoldWrites
<1>13. QED
  BY <1>8, <1>11, <1>12 DEF MemInv

LEMMA MemStep == MemInv /\ [MemNext]_memVars => MemInv'
<1> SUFFICES ASSUME MemInv, [MemNext]_memVars PROVE MemInv'
  OBVIOUS
<1>1. /\ locals \in [TierIds -> Nat] /\ drops \in [TierIds -> Nat]
      /\ tiers \in Seq(SUBSET Owners) /\ wrote \subseteq Owners
      /\ bound \in [Owners -> {Unbound} \cup Bindings]
      /\ Len(tiers) \in Nat /\ TiersOfBindings /\ TiersHoldWrites
  BY LenProperties DEF MemInv, MemTypeOK
<1>2. ASSUME NEW o \in Owners, Write(o) PROVE MemInv'
  <2> DEFINE t == bound[o].tier
             new == tiers[t] \cup {o}
  <2>1. t \in 1..Len(tiers)
    BY <1>1, <1>2 DEF Write, TiersOfBindings, IsBound
  <2>2. tiers[t] \in SUBSET Owners
    BY <1>1, <2>1, ElementOfSeq
  <2>3. /\ tiers' \in Seq(SUBSET Owners) /\ Len(tiers') = Len(tiers)
        /\ \A u \in 1..Len(tiers) : tiers'[u] = IF u = t THEN new ELSE tiers[u]
    <3>1. tiers' = [tiers EXCEPT ![t] = new] /\ new \in SUBSET Owners
      BY <1>2, <2>2 DEF Write
    <3> HIDE DEF new, t
    <3>2. QED
      BY <1>1, <2>1, <3>1, ExceptSeq
  <2>4. wrote' = wrote \cup {o} /\ IsBound(o) /\ UNCHANGED <<locals, bound, drops>>
    BY <1>2 DEF Write, IsBound
  <2>5. TiersOfBindings' /\ MemTypeOK'
    BY <1>1, <2>3, <2>4 DEF TiersOfBindings, MemTypeOK, IsBound
  <2>6. ASSUME NEW u \in 1..Len(tiers')
        PROVE  tiers'[u] = {w \in wrote' : bound'[w].tier = u}
    BY <1>1, <2>3, <2>4, <2>6 DEF TiersHoldWrites
  <2>7. TiersHoldWrites'
    BY <1>1, <2>4, <2>6 DEF TiersHoldWrites, IsBound
  <2>8. QED
    BY <2>5, <2>7 DEF MemInv
<1>3. ASSUME NEW id \in TierIds, DropLocal(id) PROVE MemInv'
  <2>1. /\ locals'[id] = 0 /\ drops'[id] = drops[id] + 1
        /\ \A j \in TierIds : j # id => locals'[j] = locals[j] /\ drops'[j] = drops[j]
        /\ locals' \in [TierIds -> Nat] /\ drops' \in [TierIds -> Nat]
        /\ UNCHANGED <<tiers, bound, wrote>>
    BY <1>1, <1>3 DEF DropLocal
  <2>2. \A w \in Owners : IsBound(w) =>
           /\ bound[w].id \in TierIds /\ bound[w].drops \in Nat
           /\ bound[w].drops <= drops[bound[w].id]
    BY <1>1 DEF TiersOfBindings, Bindings
  <2>3. \A j \in TierIds : drops[j] \in Nat /\ drops'[j] \in Nat
                           /\ drops[j] <= drops'[j] /\ (j = id => drops[j] < drops'[j])
    BY <1>1, <2>1
  <2>4. ASSUME NEW w \in Owners, IsBound(w)
        PROVE  /\ bound[w].drops <= drops'[bound[w].id]
               /\ bound[w].id = id => bound[w].drops # drops'[id]
    BY <2>2, <2>3, <2>4
  <2>5. ASSUME NEW j \in TierIds, NEW o \in Owners, IsBound(o)
        PROVE  (locals'[j] # 0 /\ bound[o].tier = locals'[j]) <=>
                  bound[o].id = j /\ bound[o].drops = drops'[j]
    <3>1. CASE j = id
      BY <2>1, <2>4, <2>5, <3>1
    <3>2. CASE j # id
      BY <1>1, <2>1, <2>5, <3>2 DEF TiersOfBindings
    <3>3. QED
      BY <3>1, <3>2
  <2>6. TiersOfBindings'
    BY SMTT(30), <1>1, <2>1, <2>4, <2>5 DEF TiersOfBindings, IsBound
  <2>7. QED
    BY <1>1, <2>1, <2>6 DEF MemInv, MemTypeOK, TiersHoldWrites, IsBound
<1>4. CASE UNCHANGED memVars
  BY <1>4 DEF memVars, MemInv, MemTypeOK, TiersOfBindings, TiersHoldWrites, IsBound
<1>5. QED
  BY <1>2, <1>3, <1>4, BindStep DEF MemNext

\* A sandbox sees in its local tier what those wrote that were bound under its id
\* with no dropLocal() between, and of nobody else, whatever the order of binds,
\* writes and drops.
THEOREM LocalTiersAreShared == Spec => []LocalTierIsShared
<1>1. MemInv => LocalTierIsShared
  <2> SUFFICES ASSUME MemInv, NEW o \in Owners, IsBound(o)
               PROVE  tiers[bound[o].tier] =
                         {w \in wrote : /\ bound[w].id = bound[o].id
                                        /\ bound[w].drops = bound[o].drops}
    BY DEF LocalTierIsShared, IsBound
  <2>1. tiers[bound[o].tier] = {w \in wrote : bound[w].tier = bound[o].tier}
    BY DEF MemInv, TiersOfBindings, TiersHoldWrites
  <2>2. \A w \in wrote : bound[w].tier = bound[o].tier <=>
           bound[w].id = bound[o].id /\ bound[w].drops = bound[o].drops
    BY DEF MemInv, MemTypeOK, TiersOfBindings, TiersHoldWrites
  <2>3. QED
    BY <2>1, <2>2
<1>2. Init => MemInv
  BY MemInitInv DEF Init
<1>3. MemInv /\ [Next]_vars => MemInv'
  BY MemStep, PartSteps
<1>4. QED
  BY <1>1, <1>2, <1>3, PTL DEF Spec
-----------------------------------------------------------------------------
(* OpfsStore: what is in the files.                                          *)

Places == {"uncalled", "called", "created", "writing", "saved", "failed", "lost"}

StoreTypeOK ==
    /\ files \in [SnapshotIds -> {"none", "empty"} \cup Saves]
    /\ save \in [Saves -> [id : SnapshotIds \cup {"none"}, at : Places]]
    /\ listing \in [active : BOOLEAN, unread : SUBSET SnapshotIds,
                    found : SUBSET Saves, owed : SUBSET Saves]
    /\ due \subseteq Saves
    /\ \A s \in Saves : save[s].at # "uncalled" => save[s].id \in SnapshotIds

\* What list() owes it has found, or has not come to yet.
ListingInv ==
    /\ listing.owed \subseteq due
    /\ \A s \in listing.owed :
          s \in listing.found \/ (listing.active /\ save[s].id \in listing.unread)

StoreInv ==
    /\ StoreTypeOK
    /\ \A s \in due : save[s].at = "saved"
    /\ SavedIsThere
    /\ ListingInv

LEMMA StoreInitInv == StoreInit => StoreInv
  BY DEF StoreInit, StoreInv, StoreTypeOK, ListingInv, SavedIsThere, NotListed, Places

\* A save that moves on without closing its file leaves what is due alone.
LEMMA MovesKeep ==
  ASSUME StoreInv, NEW s \in Saves, NEW place \in Places \ {"uncalled"},
         Moves(s, place), s \notin due, save[s].at # "uncalled"
  PROVE  /\ save' \in [Saves -> [id : SnapshotIds \cup {"none"}, at : Places]]
         /\ \A t \in Saves : save'[t].id = save[t].id
         /\ \A t \in Saves : t # s => save'[t] = save[t]
         /\ save'[s].at = place
         /\ \A t \in Saves : save'[t].at # "uncalled" => save'[t].id \in SnapshotIds
<1>1. save \in [Saves -> [id : SnapshotIds \cup {"none"}, at : Places]]
  BY DEF StoreInv, StoreTypeOK
<1>2. save[s] \in [id : SnapshotIds \cup {"none"}, at : Places]
  BY <1>1
<1> DEFINE new == [save[s] EXCEPT !.at = place]
<1>3. /\ new \in [id : SnapshotIds \cup {"none"}, at : Places]
      /\ new.id = save[s].id /\ new.at = place
  BY <1>2
<1>4. save' = [save EXCEPT ![s] = new]
  BY DEF Moves
<1> HIDE DEF new
<1>5. /\ save' \in [Saves -> [id : SnapshotIds \cup {"none"}, at : Places]]
      /\ save'[s] = new /\ \A t \in Saves : t # s => save'[t] = save[t]
  BY <1>1, <1>3, <1>4
<1>6. \A t \in Saves : save'[t].id = save[t].id
  BY <1>3, <1>5
<1>7. \A t \in Saves : save'[t].at # "uncalled" => save'[t].id \in SnapshotIds
  BY <1>5, <1>6 DEF StoreInv, StoreTypeOK
<1>8. QED
  BY <1>3, <1>5, <1>6, <1>7

LEMMA StoreStep == StoreInv /\ [StoreNext]_storeVars => StoreInv'
<1> SUFFICES ASSUME StoreInv, [StoreNext]_storeVars PROVE StoreInv'
  OBVIOUS
<1>1. /\ files \in [SnapshotIds -> {"none", "empty"} \cup Saves]
      /\ save \in [Saves -> [id : SnapshotIds \cup {"none"}, at : Places]]
      /\ listing \in [active : BOOLEAN, unread : SUBSET SnapshotIds,
                      found : SUBSET Saves, owed : SUBSET Saves]
      /\ due \subseteq Saves
      /\ \A s \in Saves : save[s].at # "uncalled" => save[s].id \in SnapshotIds
      /\ \A s \in due : save[s].at = "saved"
      /\ SavedIsThere /\ ListingInv
  BY DEF StoreInv, StoreTypeOK
<1>2. ASSUME NEW s \in Saves, NEW id \in SnapshotIds, Save(s, id) PROVE StoreInv'
  <2>1. /\ save' \in [Saves -> [id : SnapshotIds \cup {"none"}, at : Places]]
        /\ save'[s].id = id /\ \A t \in Saves : t # s => save'[t] = save[t]
    BY <1>1, <1>2 DEF Save, Places
  <2>2. s \notin due /\ UNCHANGED <<files, listing, due>>
    BY <1>1, <1>2 DEF Save, At
  <2>3. \A t \in due : save'[t] = save[t]
    BY <1>1, <2>1, <2>2
  <2>4. QED
    BY <1>1, <2>1, <2>2, <2>3 DEF StoreInv, StoreTypeOK, SavedIsThere, ListingInv
<1>3. ASSUME NEW s \in Saves, NEW place \in Places \ {"uncalled"}, Moves(s, place),
             s \notin due, save[s].at # "uncalled", UNCHANGED <<listing, due>>,
             files' \in [SnapshotIds -> {"none", "empty"} \cup Saves],
             \A t \in due : files'[save[t].id] = files[save[t].id]
      PROVE  StoreInv'
  <2>1. \A t \in due : save'[t] = save[t]
    BY <1>1, <1>3, MovesKeep
  <2>2. StoreTypeOK'
    BY <1>1, <1>3, MovesKeep DEF StoreTypeOK
  <2>3. SavedIsThere'
    BY <1>1, <1>3, <2>1 DEF SavedIsThere
  <2>4. QED
    BY <1>1, <1>3, <2>1, <2>2, <2>3 DEF StoreInv, ListingInv
<1>4. ASSUME NEW s \in Saves, Create(s) PROVE StoreInv'
  <2>1. s \notin due /\ save[s].at # "uncalled" /\ save[s].id \in SnapshotIds
    BY <1>1, <1>4 DEF Create, At
  <2>2. /\ files' = [files EXCEPT ![save[s].id] = IF @ = "none" THEN "empty" ELSE @]
        /\ Moves(s, "created") /\ UNCHANGED <<listing, due>>
    BY <1>4 DEF Create
  <2>3. files' \in [SnapshotIds -> {"none", "empty"} \cup Saves]
    BY <1>1, <2>1, <2>2
  <2>4. ASSUME NEW t \in due PROVE files'[save[t].id] = files[save[t].id]
    <3>1. save[t].id \in SnapshotIds /\ files[save[t].id] = t /\ t \in Saves
      BY <1>1 DEF SavedIsThere
    <3>2. t # "none"
      BY <3>1, SavesAssumption
    <3>3. QED
      BY <1>1, <2>1, <2>2, <3>1, <3>2
  <2>5. "created" \in Places \ {"uncalled"}
    BY DEF Places
  <2>6. QED
    BY <1>3, <2>1, <2>2, <2>3, <2>4, <2>5
<1>5. ASSUME NEW s \in Saves, Open(s) \/ SaveFails(s) PROVE StoreInv'
  <2>1. s \notin due /\ save[s].at # "uncalled" /\ UNCHANGED <<files, listing, due>>
    BY <1>1, <1>5 DEF Open, SaveFails, At
  <2>2. \E place \in Places \ {"uncalled"} : Moves(s, place)
    BY <1>5 DEF Open, SaveFails, Places
  <2>3. QED
    BY <1>1, <1>3, <2>1, <2>2
<1>6. ASSUME NEW s \in Saves, Close(s) PROVE StoreInv'
  <2> DEFINE mine == {t \in Saves : save[t].id = save[s].id}
  <2>1. s \notin due /\ save[s].at # "uncalled" /\ save[s].id \in SnapshotIds
    BY <1>1, <1>6 DEF Close, At
  <2>2. /\ Moves(s, "saved") /\ files' = [files EXCEPT ![save[s].id] = s]
        /\ due' = (due \ mine) \cup {s}
        /\ listing' = [listing EXCEPT !.owed = @ \ mine]
    BY <1>1, <1>6 DEF Close
  <2>3. "saved" \in Places \ {"uncalled"}
    BY DEF Places
  <2>4. /\ save' \in [Saves -> [id : SnapshotIds \cup {"none"}, at : Places]]
        /\ \A t \in Saves : save'[t].id = save[t].id
        /\ \A t \in Saves : t # s => save'[t] = save[t]
        /\ save'[s].at = "saved"
        /\ \A t \in Saves : save'[t].at # "uncalled" => save'[t].id \in SnapshotIds
    BY <2>1, <2>2, <2>3, MovesKeep
  <2>5. /\ files' \in [SnapshotIds -> {"none", "empty"} \cup Saves]
        /\ files'[save[s].id] = s
        /\ \A id \in SnapshotIds : id # save[s].id => files'[id] = files[id]
    BY <1>1, <2>1, <2>2
  <2>6. /\ listing'.active = listing.active /\ listing'.unread = listing.unread
        /\ listing'.found = listing.found /\ listing'.owed = listing.owed \ mine
        /\ listing' \in [active : BOOLEAN, unread : SUBSET SnapshotIds,
                         found : SUBSET Saves, owed : SUBSET Saves]
    <3> HIDE DEF mine
    <3>1. QED
      BY <1>1, <2>2
  <2>7. StoreTypeOK'
    BY <1>1, <2>2, <2>4, <2>5, <2>6 DEF StoreTypeOK
  <2>8. \A t \in due' : save'[t].at = "saved"
    BY <1>1, <2>2, <2>4
  <2>9. ASSUME NEW t \in due' PROVE files'[save'[t].id] = t
    <3>1. CASE t = s
      BY <2>4, <2>5, <3>1
    <3>2. CASE t # s
      <4>1. t \in due /\ t \in Saves /\ save[t].id # save[s].id
        BY <1>1, <2>2, <3>2
      <4>2. save[t].id \in SnapshotIds /\ files[save[t].id] = t
        BY <1>1, <4>1 DEF SavedIsThere
      <4>3. QED
        BY <2>4, <2>5, <4>1, <4>2
    <3>3. QED
      BY <3>1, <3>2
  <2>10. ListingInv'
    BY <1>1, <2>2, <2>4, <2>6 DEF ListingInv
  <2>11. QED
    BY <2>7, <2>8, <2>9, <2>10 DEF StoreInv, SavedIsThere
<1>7. ASSUME NEW id \in SnapshotIds, RemoveFile(id) PROVE StoreInv'
  <2> DEFINE mine == {t \in Saves : save[t].id = id}
  <2>1. /\ files' = files \/ files' = [files EXCEPT ![id] = "none"]
        /\ due' = due \ mine /\ save' = save
        /\ listing' = [listing EXCEPT !.owed = @ \ mine]
    BY <1>1, <1>7 DEF RemoveFile
  <2>2. \A t \in due' : t \in due /\ save[t].id # id
    BY <1>1, <2>1
  <2>3. /\ listing'.active = listing.active /\ listing'.unread = listing.unread
        /\ listing'.found = listing.found /\ listing'.owed = listing.owed \ mine
        /\ listing' \in [active : BOOLEAN, unread : SUBSET SnapshotIds,
                         found : SUBSET Saves, owed : SUBSET Saves]
    <3> HIDE DEF mine
    <3>1. QED
      BY <1>1, <2>1
  <2>4. files' \in [SnapshotIds -> {"none", "empty"} \cup Saves]
    BY <1>1, <2>1
  <2>5. SavedIsThere'
    BY <1>1, <2>1, <2>2 DEF SavedIsThere
  <2>6. ListingInv'
    BY <1>1, <2>1, <2>3 DEF ListingInv
  <2>7. QED
    BY <1>1, <2>1, <2>2, <2>3, <2>4, <2>5, <2>6 DEF StoreInv, StoreTypeOK
<1>8. ASSUME NEW id \in SnapshotIds, Read(id) PROVE StoreInv'
  <2>1. /\ UNCHANGED <<files, save, due>> /\ listing.active /\ id \in listing.unread
        /\ listing' = [listing EXCEPT !.unread = @ \ {id},
                          !.found = IF Whole(id) THEN @ \cup {files[id]} ELSE @]
    BY <1>8 DEF Read
  <2>2. /\ listing'.active /\ listing'.unread = listing.unread \ {id}
        /\ listing'.owed = listing.owed
        /\ listing'.found = IF Whole(id) THEN listing.found \cup {files[id]}
                                         ELSE listing.found
        /\ listing' \in [active : BOOLEAN, unread : SUBSET SnapshotIds,
                         found : SUBSET Saves, owed : SUBSET Saves]
    BY <1>1, <2>1 DEF Whole
  <2>3. ASSUME NEW s \in listing.owed
        PROVE  s \in listing'.found \/ save[s].id \in listing'.unread
    <3>1. s \in due /\ s \in Saves /\ files[save[s].id] = s
      BY <1>1 DEF ListingInv, SavedIsThere
    <3>2. CASE save[s].id = id
      BY <2>2, <3>1, <3>2 DEF Whole
    <3>3. CASE save[s].id # id
      BY <1>1, <2>2, <3>3 DEF ListingInv
    <3>4. QED
      BY <3>2, <3>3
  <2>4. QED
    BY <1>1, <2>1, <2>2, <2>3 DEF StoreInv, StoreTypeOK, ListingInv, SavedIsThere
<1>9. CASE List
  <2>1. \A s \in due : save[s].id \in SnapshotIds
    BY <1>1
  <2>2. /\ listing' = [active |-> TRUE, unread |-> SnapshotIds, found |-> {}, owed |-> due]
        /\ UNCHANGED <<files, save, due>>
    BY <1>9 DEF List
  <2>3. QED
    BY <1>1, <2>1, <2>2 DEF StoreInv, StoreTypeOK, ListingInv, SavedIsThere
<1>10. CASE Listed
  BY <1>1, <1>10 DEF Listed, StoreInv, StoreTypeOK, ListingInv, SavedIsThere
<1>11. CASE Reload
  <2> DEFINE lost(s) == save[s].at \in {"called", "created", "writing"}
  <2>1. /\ save' = [s \in Saves |-> IF lost(s) THEN [save[s] EXCEPT !.at = "lost"]
                                               ELSE save[s]]
        /\ listing' = NotListed /\ UNCHANGED <<files, due>>
    BY <1>11 DEF Reload
  <2>2. \A s \in Saves : save[s] \in [id : SnapshotIds \cup {"none"}, at : Places]
    BY <1>1
  <2>3. \A s \in Saves : /\ save'[s] \in [id : SnapshotIds \cup {"none"}, at : Places]
                         /\ save'[s].id = save[s].id
                         /\ save'[s].at = IF lost(s) THEN "lost" ELSE save[s].at
    BY <2>1, <2>2 DEF Places
  <2>4. \A s \in due : save'[s] = save[s]
    BY <1>1, <2>1
  <2>5. StoreTypeOK'
    BY <1>1, <2>1, <2>3 DEF StoreTypeOK, NotListed
  <2>6. QED
    BY <1>1, <2>1, <2>4, <2>5 DEF StoreInv, ListingInv, SavedIsThere, NotListed
<1>12. CASE UNCHANGED storeVars
  BY <1>12 DEF storeVars, StoreInv, StoreTypeOK, ListingInv, SavedIsThere
<1>13. QED
  BY <1>2, <1>4, <1>5, <1>6, <1>7, <1>8, <1>9, <1>10, <1>11, <1>12 DEF StoreNext

\* The files and the listings of them agree with what save() promised.
THEOREM StoreInvariant == Spec => []StoreInv
<1>1. Init => StoreInv
  BY StoreInitInv DEF Init
<1>2. StoreInv /\ [Next]_vars => StoreInv'
  BY StoreStep, PartSteps
<1>3. QED
  BY <1>1, <1>2, PTL DEF Spec

\* A snapshot whose save() returned is there until it is overwritten or removed,
\* through reloads, and through saves of the same id that fail half-way.
THEOREM SavedStaysThere == Spec => []SavedIsThere
<1>1. StoreInv => SavedIsThere
  BY DEF StoreInv
<1>2. QED
  BY <1>1, StoreInvariant, PTL

\* list() finds every snapshot that was there when it began and still is, whatever
\* is saved, removed or half-written while it reads.
THEOREM ListIsComplete == Spec => []ListFindsThemAll
<1>1. StoreInv => ListFindsThemAll
  BY DEF StoreInv, ListingInv, ListFindsThemAll
<1>2. QED
  BY <1>1, StoreInvariant, PTL
-----------------------------------------------------------------------------
(* HardwareMonitor and Policy.                                               *)

MonInv ==
    /\ session \in Nat /\ completedOps \in Nat /\ lastOps \in Nat /\ reported \in Nat
    /\ live \in [timers : SUBSET Nat, observers : SUBSET Nat]
    /\ lastOps <= completedOps
    /\ OneSessionAtATime /\ NoOperationTwice

LEMMA SampledStep ==
  ASSUME MonInv, Sampled(lastOps), UNCHANGED completedOps
  PROVE  /\ lastOps' \in Nat /\ reported' \in Nat
         /\ lastOps' <= completedOps' /\ reported' <= lastOps'
  BY DEF MonInv, Sampled, NoOperationTwice

LEMMA MonStep == MonInv /\ [MonNext]_monVars => MonInv'
<1> SUFFICES ASSUME MonInv, [MonNext]_monVars PROVE MonInv'
  OBVIOUS
<1>1. AfterStop.timers = {} /\ AfterStop.observers = {}
      /\ AfterStop \in [timers : SUBSET Nat, observers : SUBSET Nat]
  BY DEF MonInv, AfterStop, OneSessionAtATime
<1>2. CASE Work
  BY <1>2 DEF Work, MonInv, OneSessionAtATime, NoOperationTwice
<1>3. CASE Start
  <2>1. PICK observes \in BOOLEAN :
           /\ observer' = IF observes THEN session' ELSE 0
           /\ live' = [timers |-> AfterStop.timers \cup {session'},
                       observers |-> AfterStop.observers
                                        \cup (IF observes THEN {session'} ELSE {})]
    BY <1>3 DEF Start
  <2>2. /\ session' \in Nat /\ session' # 0 /\ timer' = session'
        /\ UNCHANGED completedOps /\ Sampled(lastOps)
    BY <1>3 DEF Start, MonInv, From
  <2>3. OneSessionAtATime' /\ live' \in [timers : SUBSET Nat, observers : SUBSET Nat]
    BY <1>1, <2>1, <2>2 DEF OneSessionAtATime
  <2>4. QED
    BY <2>2, <2>3, SampledStep DEF MonInv, NoOperationTwice
<1>4. CASE Stop
  BY <1>1, <1>4 DEF Stop, MonInv, OneSessionAtATime, NoOperationTwice
<1>5. ASSUME NEW s \in 1..MaxSessions, TimerTicks(s) PROVE MonInv'
  <2>1. UNCHANGED <<session, timer, observer, live, completedOps>> /\ Sampled(lastOps)
    BY <1>5 DEF TimerTicks, From
  <2>2. QED
    BY <2>1, SampledStep DEF MonInv, OneSessionAtATime, NoOperationTwice
<1>6. CASE UNCHANGED monVars
  BY <1>6 DEF monVars, MonInv, OneSessionAtATime, NoOperationTwice
<1>7. QED
  BY <1>2, <1>3, <1>4, <1>5, <1>6 DEF MonNext

\* The monitor's sessions follow one another, and share its counters.
THEOREM MonitorInvariant == Spec => []MonInv
<1>1. Init => MonInv
  BY DEF Init, MonInit, MonInv, OneSessionAtATime, NoOperationTwice
<1>2. MonInv /\ [Next]_vars => MonInv'
  BY MonStep, PartSteps
<1>3. QED
  BY <1>1, <1>2, PTL DEF Spec

\* However start() and stop() are called, at most one timer and one observer run,
\* and stop() can reach them.
THEOREM OneSessionRuns == Spec => []OneSessionAtATime
<1>1. MonInv => OneSessionAtATime
  BY DEF MonInv
<1>2. QED
  BY <1>1, MonitorInvariant, PTL

\* No operation is reported twice, over any number of sessions and samples.
THEOREM OperationsAreReportedOnce == Spec => []NoOperationTwice
<1>1. MonInv => NoOperationTwice
  BY DEF MonInv
<1>2. QED
  BY <1>1, MonitorInvariant, PTL

\* What normalizePolicy() returns, validatePolicy() accepts.
LEMMA NormalizedIsValid ==
  ASSUME NEW f \in Fields, NEW raw, raw.kind = "number" => raw.halves \in Int
  PROVE  Normalize(f, raw) \in Int /\ Valid(f, Normalize(f, raw))
<1>1. /\ Bounds[f][1] \in Int /\ Bounds[f][2] \in Int /\ Bounds[f][1] <= Bounds[f][2]
      /\ Validated(f)[1] = Bounds[f][1] /\ Validated(f)[2] = Bounds[f][2]
      /\ Defaults[f] \in Int
      /\ Bounds[f][1] <= Defaults[f] /\ Defaults[f] <= Bounds[f][2]
  <2>1. f \in {"timeoutMs", "retryCount", "memoryBudgetMB", "coldStartMs",
               "maxGuestCodeLength", "snapshotEveryNRuns"}
    BY DEF Fields, Defaults
  <2>2. QED
    BY <2>1 DEF Bounds, Validated, Defaults
<1>2. raw.kind = "number" => Rounded(raw.halves) \in Int
  BY DEF Rounded
<1>3. QED
  BY <1>1, <1>2 DEF Normalize, Clamp, Valid

\* Every policy an editor makes, of any numbers, resolves to one within the bounds.
THEOREM PoliciesResolve == Spec => []EveryPolicyResolves
<1>1. Init => EveryPolicyResolves
  BY DEF Init, PolicyInit, Outcome, EveryPolicyResolves
<1>2. EveryPolicyResolves /\ [PolicyNext]_policyVars => EveryPolicyResolves'
  <2>1. ASSUME NEW f \in Fields, NEW mode \in {"template", "eject"},
               NEW template \in Raws(f), NEW override \in Raws(f),
               Resolve(f, mode, template, override)
        PROVE  EveryPolicyResolves'
    <3>1. \A raw \in Raws(f) : raw.kind = "number" => raw.halves \in Int
      <4>1. \A i \in {1, 2} : Bounds[f][i] \in Int
        <5>1. f \in {"timeoutMs", "retryCount", "memoryBudgetMB", "coldStartMs",
                     "maxGuestCodeLength", "snapshotEveryNRuns"}
          BY DEF Fields, Defaults
        <5>2. QED
          BY <5>1 DEF Bounds
      <4>2. QED
        BY <4>1, HalvesAssumption DEF Raws, Raw, Missing, NotFinite
    <3> DEFINE base == Normalize(f, template)
               over == IF override = Missing THEN Number(base) ELSE override
    <3>2. base \in Int
      BY <3>1, NormalizedIsValid
    <3>3. Number(base).halves \in Int
      BY <3>2 DEF Number, Raw
    <3>4. over.kind = "number" => over.halves \in Int
      BY <3>1, <3>3
    <3>5. resolved' = Checked(f, Normalize(f, Number(base)))
          \/ resolved' = Checked(f, Normalize(f, over))
      BY <2>1 DEF Resolve, Compile
    <3> HIDE DEF over, base
    <3>6. \E value \in Int : Valid(f, value) /\ resolved' = Checked(f, value)
      BY <3>3, <3>4, <3>5, NormalizedIsValid
    <3>7. editor'.field = f
      BY <2>1 DEF Resolve, Editor
    <3>8. QED
      BY <3>6, <3>7 DEF Checked, Outcome, EveryPolicyResolves
  <2>2. CASE UNCHANGED policyVars
    BY <2>2 DEF policyVars, EveryPolicyResolves
  <2>3. QED
    BY <2>1, <2>2 DEF PolicyNext
<1>3. QED
  BY <1>1, <1>2, PartSteps, PTL DEF Spec
-----------------------------------------------------------------------------
(* DataAgent: whose lines are in the one buffer.                             *)

AskRecords == [at : {"uncalled", "planning", "running", "answered", "gaveUp", "rejected"},
               attempt : Nat, lines : Nat, stdout : Seq(Asks \X Nat), met : BOOLEAN]

\* Of the lines of a, out has those of attempt n only.
NoOlderLines(out, a, n) == \A i \in DOMAIN out : out[i][1] = a => out[i][2] = n

\* It has the lines of that attempt, and nothing else.
JustTheLines(out, a, n, lines) == out = [i \in 1..lines |-> <<a, n>>]

AskInv ==
    /\ stdoutBuffer \in Seq(Asks \X Nat)
    /\ ask \in [Asks -> AskRecords]
    /\ \A a \in Asks : Running(a) =>
          /\ NoOlderLines(stdoutBuffer, a, ask[a].attempt)
          /\ ~ask[a].met =>
                /\ \A b \in Asks : Running(b) => b = a
                /\ JustTheLines(stdoutBuffer, a, ask[a].attempt, ask[a].lines)
    /\ \A a \in Asks : ask[a].at \in {"answered", "gaveUp"} =>
          /\ NoOlderLines(ask[a].stdout, a, ask[a].attempt)
          /\ ~ask[a].met =>
                JustTheLines(ask[a].stdout, a, ask[a].attempt, ask[a].lines)

LEMMA OneLineMore ==
  ASSUME NEW out \in Seq(Asks \X Nat), NEW a \in Asks, NEW n \in Nat, NEW lines \in Nat
  PROVE  /\ Append(out, <<a, n>>) \in Seq(Asks \X Nat)
         /\ \A b, m : NoOlderLines(out, b, m) /\ (b = a => m = n) =>
               NoOlderLines(Append(out, <<a, n>>), b, m)
         /\ JustTheLines(out, a, n, lines) =>
               JustTheLines(Append(out, <<a, n>>), a, n, lines + 1)
<1> DEFINE line == <<a, n>>
           longer == Append(out, line)
<1>1. /\ longer \in Seq(Asks \X Nat) /\ Len(out) \in Nat
      /\ DOMAIN out = 1..Len(out) /\ DOMAIN longer = 1..(Len(out) + 1)
      /\ \A i \in 1..Len(out) : longer[i] = out[i]
      /\ longer[Len(out) + 1] = line
  <2>1. line \in Asks \X Nat
    OBVIOUS
  <2> HIDE DEF line
  <2>2. /\ longer \in Seq(Asks \X Nat) /\ Len(longer) = Len(out) + 1
        /\ \A i \in 1..Len(out) : longer[i] = out[i]
        /\ longer[Len(out) + 1] = line
    BY <2>1, AppendProperties
  <2> HIDE DEF longer
  <2>3. QED
    BY <2>2, LenProperties
<1>2. \A i \in 1..(Len(out) + 1) : i \in 1..Len(out) \/ i = Len(out) + 1
  BY <1>1
<1>3. line[1] = a /\ line[2] = n
  OBVIOUS
<1> HIDE DEF longer, line
<1>4. \A b, m : NoOlderLines(out, b, m) /\ (b = a => m = n) => NoOlderLines(longer, b, m)
  BY <1>1, <1>2, <1>3 DEF NoOlderLines
<1>5. ASSUME JustTheLines(out, a, n, lines) PROVE JustTheLines(longer, a, n, lines + 1)
  <2>1. Len(out) = lines
    BY <1>1, <1>5, LenProperties DEF JustTheLines
  <2>2. \A i \in 1..lines : out[i] = line
    BY <1>5 DEF JustTheLines, line
  <2>3. \A i \in 1..(lines + 1) : longer[i] = line
    BY <1>1, <1>2, <2>1, <2>2
  <2>4. longer = [i \in 1..(lines + 1) |-> line]
    BY <1>1, <2>1, <2>3
  <2>5. QED
    BY <2>4 DEF JustTheLines, line
<1>6. QED
  BY <1>1, <1>4, <1>5 DEF longer, line

LEMMA AskInitInv == PyInit => AskInv
<1> SUFFICES ASSUME PyInit PROVE AskInv
  OBVIOUS
<1>1. ask \in [Asks -> AskRecords] /\ stdoutBuffer \in Seq(Asks \X Nat)
  BY EmptySeq DEF PyInit, AskRecords
<1>2. \A a \in Asks : ask[a].at = "uncalled"
  BY DEF PyInit
<1>3. QED
  BY <1>1, <1>2 DEF AskInv, Running

LEMMA AskStep == AskInv /\ [AskNext]_askVars => AskInv'
<1> SUFFICES ASSUME AskInv, [AskNext]_askVars PROVE AskInv'
  OBVIOUS
<1>1. /\ stdoutBuffer \in Seq(Asks \X Nat) /\ ask \in [Asks -> AskRecords]
      /\ \A a \in Asks : ask[a] \in AskRecords
  BY DEF AskInv
<1>2. ASSUME NEW a \in Asks, Ask(a) \/ PlanRejects(a) PROVE AskInv'
  <2>1. PICK at \in {"planning", "rejected"} :
           ask' = [ask EXCEPT ![a] = [ask[a] EXCEPT !.at = at]]
    BY <1>2 DEF Ask, PlanRejects, Update
  <2>2. [ask[a] EXCEPT !.at = at] \in AskRecords /\ stdoutBuffer' = stdoutBuffer
    BY <1>1, <1>2 DEF AskRecords, Ask, PlanRejects
  <2>3. ask' \in [Asks -> AskRecords] /\ ask'[a].at = at
        /\ \A b \in Asks : b # a => ask'[b] = ask[b]
    BY <1>1, <2>1, <2>2
  <2>4. \A b \in Asks : \/ ask'[b] = ask[b]
                        \/ ~Running(b)' /\ ask'[b].at \notin {"answered", "gaveUp"}
    BY <2>3 DEF Running
  <2>5. \A b \in Asks : Running(b)' => Running(b)
    BY <2>4 DEF Running
  <2>6. QED
    BY <1>1, <2>2, <2>3, <2>4, <2>5 DEF AskInv
<1>3. ASSUME NEW a \in Asks, Run(a) PROVE AskInv'
  <2>1. stdoutBuffer' = <<>> /\ stdoutBuffer' \in Seq(Asks \X Nat)
        /\ ask[a].at = "planning" /\ ask' = Attempting(a)
    BY <1>3, EmptySeq DEF Run
  <2>2. /\ ask'[a] \in AskRecords
        /\ ask'[a].at = "running" /\ ask'[a].attempt = ask[a].attempt + 1
        /\ ask'[a].lines = 0
        /\ ask'[a].met = \E c \in Asks \ {a} : Running(c)
    <3> DEFINE met == \E c \in Asks \ {a} : Running(c)
               new == [ask[a] EXCEPT !.at = "running", !.attempt = @ + 1, !.lines = 0,
                                     !.met = met]
    <3>1. ask'[a] = new
      BY <2>1 DEF Attempting
    <3>2. ask[a] \in AskRecords /\ met \in BOOLEAN
      BY <1>1
    <3> HIDE DEF met
    <3>3. /\ ask[a].attempt + 1 \in Nat
          /\ new.at = "running" /\ new.attempt = ask[a].attempt + 1
          /\ new.lines = 0 /\ new.met = met
      BY <3>2 DEF AskRecords
    <3>4. new \in AskRecords
      BY <3>2, <3>3 DEF AskRecords
    <3> HIDE DEF new
    <3>5. QED
      BY <3>1, <3>3, <3>4 DEF met
  <2>3. ASSUME NEW b \in Asks, b # a
        PROVE  /\ ask'[b] \in AskRecords
               /\ ask'[b].at = ask[b].at /\ ask'[b].attempt = ask[b].attempt
               /\ ask'[b].lines = ask[b].lines /\ ask'[b].stdout = ask[b].stdout
               /\ ask'[b].met = (ask[b].met \/ Running(b))
    <3>1. ask'[b] = [ask[b] EXCEPT !.met = @ \/ Running(b)]
      BY <2>1, <2>3 DEF Attempting
    <3>2. ask[b] \in AskRecords
      BY <1>1
    <3>3. QED
      BY <3>1, <3>2 DEF AskRecords
  <2>4. ask' \in [Asks -> AskRecords]
    <3>1. ask' = [b \in Asks |-> ask'[b]]
      BY <2>1 DEF Attempting
    <3>2. QED
      BY <2>2, <2>3, <3>1
  <2>5. ASSUME NEW b \in Asks, Running(b)'
        PROVE  /\ NoOlderLines(stdoutBuffer', b, ask'[b].attempt)
               /\ ~ask'[b].met =>
                     /\ \A c \in Asks : Running(c)' => c = b
                     /\ JustTheLines(stdoutBuffer', b, ask'[b].attempt, ask'[b].lines)
    <3>1. NoOlderLines(stdoutBuffer', b, ask'[b].attempt)
      BY <2>1 DEF NoOlderLines
    <3>2. CASE b = a
      <4>1. JustTheLines(stdoutBuffer', b, ask'[b].attempt, ask'[b].lines)
        BY <2>1, <2>2, <3>2 DEF JustTheLines
      <4>2. ~ask'[b].met => \A c \in Asks : Running(c)' => c = b
        BY <2>2, <2>3, <3>2 DEF Running
      <4>3. QED
        BY <3>1, <4>1, <4>2
    <3>3. CASE b # a
      BY <2>3, <2>5, <3>1, <3>3 DEF Running
    <3>4. QED
      BY <3>2, <3>3
  <2>6. ASSUME NEW b \in Asks, ask'[b].at \in {"answered", "gaveUp"}
        PROVE  /\ NoOlderLines(ask'[b].stdout, b, ask'[b].attempt)
               /\ ~ask'[b].met =>
                     JustTheLines(ask'[b].stdout, b, ask'[b].attempt, ask'[b].lines)
    <3>1. b # a
      BY <2>2, <2>6
    <3>2. QED
      BY <2>3, <2>6, <3>1 DEF AskInv, Running
  <2>7. QED
    BY <2>1, <2>4, <2>5, <2>6 DEF AskInv
<1>4. ASSUME NEW a \in Asks, Prints(a) PROVE AskInv'
  <2> DEFINE line == <<a, ask[a].attempt>>
             new == [ask[a] EXCEPT !.lines = @ + 1]
  <2>1. /\ Running(a) /\ stdoutBuffer' = Append(stdoutBuffer, line)
        /\ ask' = [ask EXCEPT ![a] = new]
    BY <1>4 DEF Prints, Update
  <2>2. /\ new \in AskRecords /\ new.at = ask[a].at /\ new.attempt = ask[a].attempt
        /\ new.lines = ask[a].lines + 1 /\ new.stdout = ask[a].stdout
        /\ new.met = ask[a].met
        /\ ask[a].attempt \in Nat /\ ask[a].lines \in Nat
    <3>1. ask[a] \in AskRecords
      BY <1>1
    <3>2. ask[a].lines \in Nat /\ ask[a].attempt \in Nat
      BY <3>1 DEF AskRecords
    <3>3. ask[a].lines + 1 \in Nat
      BY <3>2
    <3> DEFINE more == ask[a].lines + 1
               rec == [ask[a] EXCEPT !.lines = more]
    <3> HIDE DEF more
    <3>4. /\ rec.at = ask[a].at /\ rec.attempt = ask[a].attempt
          /\ rec.lines = more /\ rec.stdout = ask[a].stdout
          /\ rec.met = ask[a].met
      BY <3>1 DEF AskRecords
    <3>5. rec \in AskRecords
      BY <3>1, <3>3 DEF AskRecords, more
    <3>6. new = rec
      BY <3>1 DEF more, AskRecords
    <3> HIDE DEF new, rec
    <3>7. QED
      BY <3>2, <3>4, <3>5, <3>6 DEF more
  <2>3. /\ stdoutBuffer' \in Seq(Asks \X Nat)
        /\ \A b, m : NoOlderLines(stdoutBuffer, b, m) /\ (b = a => m = ask[a].attempt) =>
               NoOlderLines(stdoutBuffer', b, m)
        /\ JustTheLines(stdoutBuffer, a, ask[a].attempt, ask[a].lines) =>
               JustTheLines(stdoutBuffer', a, ask[a].attempt, ask[a].lines + 1)
    BY <1>1, <2>1, <2>2, OneLineMore
  <2> HIDE DEF new, line
  <2>4. /\ ask' \in [Asks -> AskRecords] /\ ask'[a] = new
        /\ \A b \in Asks : b # a => ask'[b] = ask[b]
    BY <1>1, <2>1, <2>2
  <2>5. \A b \in Asks : Running(b)' <=> Running(b)
    BY <2>2, <2>4 DEF Running
  <2>6. ASSUME NEW b \in Asks, Running(b)
        PROVE  /\ NoOlderLines(stdoutBuffer', b, ask'[b].attempt)
               /\ ~ask'[b].met =>
                     /\ \A c \in Asks : Running(c) => c = b
                     /\ JustTheLines(stdoutBuffer', b, ask'[b].attempt, ask'[b].lines)
    <3>1. CASE b = a
      BY <2>2, <2>3, <2>4, <2>6, <3>1 DEF AskInv
    <3>2. CASE b # a
      <4>1. ask'[b] = ask[b] /\ ask[b].met
        BY <2>1, <2>4, <2>6, <3>2 DEF AskInv
      <4>2. QED
        BY <2>3, <2>6, <3>2, <4>1 DEF AskInv
    <3>3. QED
      BY <3>1, <3>2
  <2>7. ASSUME NEW b \in Asks, ask'[b].at \in {"answered", "gaveUp"}
        PROVE  ask'[b] = ask[b]
    BY <2>1, <2>2, <2>4, <2>7 DEF Running
  <2>8. QED
    BY <2>3, <2>4, <2>5, <2>6, <2>7 DEF AskInv
<1>5. ASSUME NEW a \in Asks, Succeeds(a) \/ Raises(a) PROVE AskInv'
  <2>1. PICK at \in {"answered", "planning", "gaveUp"} : Ends(a, at)
    BY <1>5 DEF Succeeds, Raises
  <2> DEFINE new == [ask[a] EXCEPT !.at = at, !.stdout = stdoutBuffer]
  <2>2. /\ Running(a) /\ stdoutBuffer' = stdoutBuffer
        /\ ask' = [ask EXCEPT ![a] = new]
    BY <2>1 DEF Ends, Update
  <2>3. /\ new \in AskRecords /\ new.at = at /\ new.attempt = ask[a].attempt
        /\ new.lines = ask[a].lines /\ new.stdout = stdoutBuffer
        /\ new.met = ask[a].met
    BY <1>1 DEF AskRecords
  <2> HIDE DEF new
  <2>4. /\ ask' \in [Asks -> AskRecords] /\ ask'[a] = new
        /\ \A b \in Asks : b # a => ask'[b] = ask[b]
    BY <1>1, <2>2, <2>3
  <2>5. \A b \in Asks : Running(b)' => Running(b) /\ ask'[b] = ask[b]
    BY <2>3, <2>4 DEF Running
  <2>6. ASSUME NEW b \in Asks, ask'[b].at \in {"answered", "gaveUp"}
        PROVE  /\ NoOlderLines(ask'[b].stdout, b, ask'[b].attempt)
               /\ ~ask'[b].met =>
                     JustTheLines(ask'[b].stdout, b, ask'[b].attempt, ask'[b].lines)
    <3>1. CASE b = a
      BY <2>2, <2>3, <2>4, <3>1 DEF AskInv
    <3>2. CASE b # a
      BY <2>4, <2>6, <3>2 DEF AskInv
    <3>3. QED
      BY <3>1, <3>2
  <2>7. QED
    BY <1>1, <2>2, <2>4, <2>5, <2>6 DEF AskInv
<1>6. CASE UNCHANGED askVars
  BY <1>6 DEF askVars, AskInv, Running
<1>7. QED
  BY <1>2, <1>3, <1>4, <1>5, <1>6 DEF AskNext

\* An ask returns nothing its earlier attempts printed, and just what its last one
\* did unless another run() was under way meanwhile.
THEOREM StdoutIsOwn == Spec => []StdoutIsOfTheAttempt
<1>1. AskInv => StdoutIsOfTheAttempt
  BY DEF AskInv, StdoutIsOfTheAttempt, NoOlderLines, JustTheLines
<1>2. Init => AskInv
  BY AskInitInv DEF Init
<1>3. AskInv /\ [Next]_vars => AskInv'
  BY AskStep, PartSteps
<1>4. QED
  BY <1>1, <1>2, <1>3, PTL DEF Spec
-----------------------------------------------------------------------------
(* Orchestrator: what a phase reads.                                         *)

AgentRecords == [status : {"idle", "creating", "running", "done", "rejected"},
                 reads : [BoardKeys -> Agents \cup {Nobody}],
                 writes : SUBSET BoardKeys]

OrchTypeOK ==
    /\ phase \in [at : Nat, status : {"running", "resolved", "rejected"}]
    /\ phase.at \in 0..Len(Phases) /\ (phase.status = "running" => phase.at # 0)
    /\ agent \in [Agents -> AgentRecords]
    /\ applied \in [Agents -> SUBSET BoardKeys]
    /\ board \in [BoardKeys -> Agents \cup {Nobody}]
    /\ broken \subseteq 1..phase.at

\* A phase that is over is done, or one of its agents rejected and it is broken.
PhasesInOrder ==
    /\ \A a \in Agents : agent[a].status # "idle" <=> PhaseOf(a) <= phase.at
    /\ \A p \in 1..phase.at :
          (p # phase.at \/ phase.status # "running") /\ p \notin broken =>
             \A a \in Phases[p] : agent[a].status = "done"
    /\ \A p \in broken : \E a \in Phases[p] : agent[a].status = "rejected"

\* Nothing is written before the end, and what is reported then is on the board.
WritesWhenDone ==
    \A a \in Agents :
        /\ agent[a].status # "done" => agent[a].writes = {}
        /\ agent[a].status = "done" => applied[a] = agent[a].writes
        /\ agent[a].status # "done" /\ applied[a] # {} =>
              agent[a].status = "rejected" /\ runtime # "wasm"

\* v is what the latest of the phases up to n that wrote k put there.
IsLatest(n, k, v) ==
    \/ v = Nobody /\ \A p \in 1..n : WroteIn(p, k) = {}
    \/ \E p \in 1..n : v \in WroteIn(p, k) /\ \A q \in 1..n : q > p => WroteIn(q, k) = {}

\* The board is of the phases begun; while nobody rejected it has the latest writes.
BoardIsLatest ==
    /\ \A k \in BoardKeys : board[k] # Nobody => PhaseOf(board[k]) <= phase.at
    /\ (\A a \in Agents : agent[a].status # "rejected") =>
          \A k \in BoardKeys : IsLatest(phase.at, k, board[k])

ReadsAreLatest ==
    \A a \in Agents, k \in BoardKeys :
        /\ agent[a].reads[k] # Nobody => PhaseOf(agent[a].reads[k]) < PhaseOf(a)
        /\ agent[a].status # "idle" /\ broken \cap 1..(PhaseOf(a) - 1) = {} =>
              IsLatest(PhaseOf(a) - 1, k, agent[a].reads[k])

OrchInv == OrchTypeOK /\ PhasesInOrder /\ WritesWhenDone /\ BoardIsLatest /\ ReadsAreLatest

\* Each agent is of one phase.
LEMMA PhasesOfAgents ==
  /\ Len(Phases) \in Nat
  /\ \A a \in Agents : PhaseOf(a) \in 1..Len(Phases) /\ a \in Phases[PhaseOf(a)]
  /\ \A p \in 1..Len(Phases) : \A a \in Phases[p] : a \in Agents /\ PhaseOf(a) = p
<1>1. DOMAIN Phases = 1..Len(Phases) /\ Len(Phases) \in Nat
  BY PhasesAssumption, LenProperties
<1>2. ASSUME NEW a \in Agents PROVE PhaseOf(a) \in DOMAIN Phases /\ a \in Phases[PhaseOf(a)]
  <2>1. \E p \in DOMAIN Phases : a \in Phases[p]
    BY DEF Agents, Range
  <2>2. QED
    BY <2>1 DEF PhaseOf
<1>3. ASSUME NEW p \in DOMAIN Phases, NEW a \in Phases[p] PROVE a \in Agents /\ PhaseOf(a) = p
  <2>1. a \in Agents
    BY DEF Agents, Range
  <2>2. PhaseOf(a) \in DOMAIN Phases /\ a \in Phases[PhaseOf(a)]
    BY <1>2, <2>1
  <2>3. QED
    BY <2>1, <2>2, PhasesAssumption
<1>4. QED
  BY <1>1, <1>2, <1>3

LEMMA OrchInitInv == OrchInit => OrchInv
<1> SUFFICES ASSUME OrchInit PROVE OrchInv
  OBVIOUS
<1> USE DEF OrchInit
<1>1. /\ phase.at = 0 /\ phase.status = "resolved"
      /\ phase \in [at : Nat, status : {"running", "resolved", "rejected"}]
      /\ broken = {}
  OBVIOUS
<1>2. /\ Idle \in AgentRecords /\ Idle.status = "idle" /\ Idle.writes = {}
      /\ \A k \in BoardKeys : Idle.reads[k] = Nobody
  BY DEF Idle, AgentRecords
<1>3. \A a \in Agents : agent[a] = Idle /\ applied[a] = {}
  OBVIOUS
<1>4. \A k \in BoardKeys : board[k] = Nobody
  OBVIOUS
<1>5. OrchTypeOK
  <2>1. agent \in [Agents -> AgentRecords]
    BY <1>2
  <2>2. applied \in [Agents -> SUBSET BoardKeys] /\ board \in [BoardKeys -> Agents \cup {Nobody}]
    OBVIOUS
  <2>3. QED
    BY <1>1, <2>1, <2>2, PhasesOfAgents DEF OrchTypeOK
<1>6. PhasesInOrder /\ WritesWhenDone
  BY <1>1, <1>2, <1>3, PhasesOfAgents DEF PhasesInOrder, WritesWhenDone
<1>7. BoardIsLatest /\ ReadsAreLatest
  BY <1>1, <1>2, <1>3, <1>4 DEF BoardIsLatest, ReadsAreLatest, IsLatest
<1>8. QED
  BY <1>5, <1>6, <1>7 DEF OrchInv

LEMMA StartPhaseStep == OrchInv /\ StartPhase => OrchInv'
<1> SUFFICES ASSUME OrchInv, StartPhase PROVE OrchInv'
  OBVIOUS
<1> DEFINE n == phase.at + 1
           new == [Idle EXCEPT !.status = "creating", !.reads = board]
<1>1. OrchTypeOK /\ PhasesInOrder /\ WritesWhenDone /\ BoardIsLatest /\ ReadsAreLatest
  BY DEF OrchInv
<1>2. /\ phase.at \in Nat /\ n \in 1..Len(Phases) /\ phase.at = n - 1
      /\ phase.status # "running"
      /\ phase' = [at |-> n, status |-> "running"]
      /\ UNCHANGED <<runtime, board, applied, broken>>
  <2>1. phase.at \in 0..Len(Phases) /\ Len(Phases) \in Nat
    BY <1>1, PhasesOfAgents DEF OrchTypeOK
  <2>2. /\ phase.status # "running" /\ phase.at < Len(Phases)
        /\ phase' = [at |-> n, status |-> "running"]
        /\ UNCHANGED <<runtime, board, applied, broken>>
    BY DEF StartPhase
  <2>3. QED
    BY <2>1, <2>2
<1>3. /\ new \in AgentRecords /\ new.status = "creating" /\ new.writes = {}
      /\ new.reads = board
  BY <1>1 DEF Idle, AgentRecords, OrchTypeOK
<1>4. agent' = [a \in Agents |-> IF a \in Phases[n] THEN new ELSE agent[a]]
  BY DEF StartPhase
<1> HIDE DEF new
<1>5. \A a \in Agents : a \in Phases[n] <=> PhaseOf(a) = n
  BY <1>2, PhasesOfAgents
<1>6. /\ agent' \in [Agents -> AgentRecords]
      /\ \A a \in Agents : agent'[a] = IF PhaseOf(a) = n THEN new ELSE agent[a]
  BY <1>1, <1>3, <1>4, <1>5 DEF OrchTypeOK
<1>7. \A a \in Agents : /\ PhaseOf(a) \in 1..Len(Phases)
                        /\ PhaseOf(a) = n => agent[a].status = "idle"
                        /\ agent[a].status = "idle" => agent[a].writes = {}
                                                       /\ applied[a] = {}
  BY <1>1, <1>2, PhasesOfAgents DEF PhasesInOrder, WritesWhenDone
<1>8. phase'.at = n /\ phase'.status = "running"
  BY <1>2
<1> HIDE DEF n
<1>9. broken \subseteq 1..phase.at
  BY <1>1 DEF OrchTypeOK
<1>10. OrchTypeOK'
  <2>1. phase' \in [at : Nat, status : {"running", "resolved", "rejected"}]
    BY <1>2
  <2>2. 1..phase.at \subseteq 1..n /\ n \in 0..Len(Phases)
    BY <1>2
  <2>3. QED
    BY <1>1, <1>2, <1>6, <1>8, <2>1, <2>2 DEF OrchTypeOK
<1>11. PhasesInOrder'
  <2>1. \A a \in Agents : agent'[a].status # "idle" <=> PhaseOf(a) <= n
    BY <1>1, <1>2, <1>3, <1>6, <1>7 DEF PhasesInOrder
  <2>2. ASSUME NEW p \in 1..n, p # n, p \notin broken
        PROVE  \A a \in Phases[p] : agent'[a].status = "done"
    <3>1. p \in 1..phase.at /\ p \in 1..Len(Phases)
      BY <1>2, <2>2
    <3>2. \A a \in Phases[p] : agent[a].status = "done" /\ a \in Agents /\ PhaseOf(a) = p
      BY <1>1, <1>2, <2>2, <3>1, PhasesOfAgents DEF PhasesInOrder
    <3>3. QED
      BY <1>6, <2>2, <3>2
  <2>3. ASSUME NEW p \in broken PROVE \E a \in Phases[p] : agent'[a].status = "rejected"
    <3>1. p \in 1..Len(Phases) /\ p # n
      BY <1>2, <1>9
    <3>2. PICK a \in Phases[p] : agent[a].status = "rejected"
      BY <1>1 DEF PhasesInOrder
    <3>3. a \in Agents /\ PhaseOf(a) = p
      BY <3>1, PhasesOfAgents
    <3>4. QED
      BY <1>6, <3>1, <3>2, <3>3
  <2>4. QED
    BY <1>2, <1>8, <2>1, <2>2, <2>3 DEF PhasesInOrder
<1>12. WritesWhenDone'
  BY <1>1, <1>2, <1>3, <1>6, <1>7 DEF WritesWhenDone
<1>13. ASSUME NEW p \in 1..n, NEW k PROVE WroteIn(p, k)' = WroteIn(p, k)
  <2>1. p \in 1..Len(Phases)
    BY <1>2
  <2>2. \A a \in Phases[p] : a \in Agents /\ agent'[a].writes = agent[a].writes
    BY <1>3, <1>6, <1>7, <2>1, PhasesOfAgents
  <2>3. QED
    BY <2>2 DEF WroteIn
<1>14. \A k : WroteIn(n, k) = {}
  BY <1>2, <1>7, PhasesOfAgents DEF WroteIn
<1>15. BoardIsLatest'
  <2>1. ASSUME NEW k \in BoardKeys, board[k] # Nobody PROVE PhaseOf(board[k]) <= n
    <3>1. board[k] \in Agents
      BY <1>1, <2>1 DEF OrchTypeOK
    <3>2. QED
      BY <1>1, <1>2, <1>7, <2>1, <3>1 DEF BoardIsLatest
  <2>2. ASSUME \A a \in Agents : agent'[a].status # "rejected", NEW k \in BoardKeys
        PROVE  IsLatest(n, k, board[k])
    <3>1. \A a \in Agents : agent[a].status # "rejected"
      BY <1>6, <1>7, <2>2
    <3>2. IsLatest(phase.at, k, board[k])
      BY <1>1, <3>1 DEF BoardIsLatest
    <3>3. \A p \in 1..n : p \in 1..phase.at \/ p = n
      BY <1>2
    <3>4. \A p \in 1..phase.at : p \in 1..n
      BY <1>2
    <3>5. QED
      BY <1>14, <3>2, <3>3, <3>4 DEF IsLatest
  <2>4. ASSUME NEW k, IsLatest(n, k, board[k]) PROVE IsLatest(phase.at, k, board[k])'
    BY <1>2, <1>8, <1>13, <2>4 DEF IsLatest
  <2>5. QED
    BY <1>2, <1>8, <2>1, <2>2, <2>4 DEF BoardIsLatest
<1>16. ReadsAreLatest'
  <2> SUFFICES ASSUME NEW a \in Agents, NEW k \in BoardKeys
               PROVE  /\ agent'[a].reads[k] # Nobody => PhaseOf(agent'[a].reads[k]) < PhaseOf(a)
                      /\ agent'[a].status # "idle" /\ broken \cap 1..(PhaseOf(a) - 1) = {} =>
                            IsLatest(PhaseOf(a) - 1, k, agent[a].reads[k])'
    BY <1>2 DEF ReadsAreLatest
  <2> DEFINE m == PhaseOf(a) - 1
             v == agent'[a].reads[k]
  <2>0. m \in Nat /\ PhaseOf(a) \in Nat
    BY <1>7
  <2>1. CASE PhaseOf(a) = n
    <3>1. v = board[k] /\ m = phase.at
      BY <1>2, <1>3, <1>6, <2>1
    <3>2. v # Nobody => PhaseOf(v) < PhaseOf(a)
      <4>1. ASSUME v # Nobody PROVE v \in Agents /\ PhaseOf(v) <= phase.at
        BY <1>1, <3>1, <4>1 DEF OrchTypeOK, BoardIsLatest
      <4>2. QED
        BY <1>2, <1>7, <2>1, <4>1
    <3>3. ASSUME broken \cap 1..m = {} PROVE IsLatest(m, k, agent[a].reads[k])'
      <4>1. broken = {}
        BY <1>9, <3>1, <3>3
      <4>2. ASSUME NEW b \in Agents PROVE agent[b].status # "rejected"
        <5>1. CASE PhaseOf(b) <= phase.at
          <6>1. PhaseOf(b) \in 1..phase.at /\ b \in Phases[PhaseOf(b)]
            BY <1>2, <1>7, <5>1, PhasesOfAgents
          <6>2. QED
            BY <1>1, <1>2, <4>1, <6>1 DEF PhasesInOrder
        <5>2. CASE ~(PhaseOf(b) <= phase.at)
          BY <1>1, <5>2 DEF PhasesInOrder
        <5>3. QED
          BY <5>1, <5>2
      <4>3. IsLatest(m, k, board[k])
        BY <1>1, <3>1, <4>2 DEF BoardIsLatest
      <4>4. \A p \in 1..m : p \in 1..n
        BY <1>2, <3>1
      <4>5. QED
        BY <1>13, <3>1, <4>3, <4>4 DEF IsLatest
    <3>4. QED
      BY <3>2, <3>3
  <2>2. CASE PhaseOf(a) # n
    <3>1. agent'[a] = agent[a]
      BY <1>6, <2>2
    <3>2. v # Nobody => PhaseOf(v) < PhaseOf(a)
      BY <1>1, <3>1 DEF ReadsAreLatest
    <3>3. ASSUME agent'[a].status # "idle", broken \cap 1..m = {}
          PROVE  IsLatest(m, k, agent[a].reads[k])'
      <4>1. IsLatest(m, k, agent[a].reads[k])
        BY <1>1, <3>1, <3>3 DEF ReadsAreLatest
      <4>2. PhaseOf(a) <= phase.at
        BY <1>1, <3>1, <3>3 DEF PhasesInOrder
      <4>3. \A p \in 1..m : p \in 1..n
        BY <1>2, <2>0, <4>2
      <4>4. QED
        BY <1>13, <3>1, <4>1, <4>3 DEF IsLatest
    <3>4. QED
      BY <3>2, <3>3
  <2>3. QED
    BY <2>1, <2>2
<1>17. QED
  BY <1>10, <1>11, <1>12, <1>15, <1>16 DEF OrchInv

LEMMA EndPhaseStep == OrchInv /\ EndPhase => OrchInv'
<1> SUFFICES ASSUME OrchInv, EndPhase PROVE OrchInv'
  OBVIOUS
<1>1. OrchTypeOK /\ PhasesInOrder /\ WritesWhenDone /\ BoardIsLatest /\ ReadsAreLatest
  BY DEF OrchInv
<1>2. UNCHANGED <<runtime, board, agent, applied>> /\ phase.status = "running"
  BY DEF EndPhase
<1>3. PICK status \in {"resolved", "rejected"} :
        /\ phase' = [phase EXCEPT !.status = status]
        /\ \/ /\ \A a \in Phases[phase.at] : agent[a].status = "done"
              /\ broken' = broken
           \/ /\ \E a \in Phases[phase.at] : agent[a].status = "rejected"
              /\ broken' = broken \cup {phase.at}
  BY DEF EndPhase
<1>4. /\ phase \in [at : Nat, status : {"running", "resolved", "rejected"}]
      /\ phase.at \in 0..Len(Phases) /\ broken \subseteq 1..phase.at
      /\ Len(Phases) \in Nat
  BY <1>1, PhasesOfAgents DEF OrchTypeOK
<1>5. /\ phase' \in [at : Nat, status : {"running", "resolved", "rejected"}]
      /\ phase'.at = phase.at /\ phase'.status = status
  BY <1>3, <1>4
<1>6. phase.at \in 1..phase.at
  BY <1>1, <1>2, <1>4 DEF OrchTypeOK
<1>7. broken \subseteq broken' /\ broken' \subseteq 1..phase.at
  BY <1>3, <1>4, <1>6
<1>8. OrchTypeOK'
  BY <1>1, <1>2, <1>5, <1>6, <1>7 DEF OrchTypeOK
<1>9. PhasesInOrder'
  <2>1. ASSUME NEW p \in 1..phase.at, p \notin broken'
        PROVE  \A a \in Phases[p] : agent[a].status = "done"
    <3>1. CASE p = phase.at
      BY <1>3, <2>1, <3>1
    <3>2. CASE p # phase.at
      BY <1>1, <1>7, <2>1, <3>2 DEF PhasesInOrder
    <3>3. QED
      BY <3>1, <3>2
  <2>2. \A p \in broken' : \E a \in Phases[p] : agent[a].status = "rejected"
    BY <1>1, <1>3 DEF PhasesInOrder
  <2>3. QED
    BY <1>1, <1>2, <1>5, <2>1, <2>2 DEF PhasesInOrder
<1>10. WritesWhenDone'
  BY <1>1, <1>2 DEF WritesWhenDone
<1>11. BoardIsLatest'
  BY <1>1, <1>2, <1>5 DEF BoardIsLatest, IsLatest, WroteIn
<1>12. ReadsAreLatest'
  BY <1>1, <1>2, <1>7 DEF ReadsAreLatest, IsLatest, WroteIn
<1>13. QED
  BY <1>8, <1>9, <1>10, <1>11, <1>12 DEF OrchInv

\* An agent goes on: keys are reported, and put is on the board.
GoesOn(a, status, keys, put) ==
    /\ agent[a].status \in {"creating", "running"}
    /\ agent' = [agent EXCEPT ![a].status = status, ![a].writes = keys]
    /\ board' = [k \in BoardKeys |-> IF k \in put THEN a ELSE board[k]]
    /\ applied' = [applied EXCEPT ![a] = put]
    /\ UNCHANGED <<runtime, phase, broken>>
    /\ IF status = "done" THEN keys = put ELSE keys = {}
    /\ put # {} => status = "done" \/ (status = "rejected" /\ runtime # "wasm")

LEMMA GoesOnStep ==
  ASSUME OrchInv, NEW a \in Agents, NEW status \in {"running", "done", "rejected"},
         NEW keys \in SUBSET BoardKeys, NEW put \in SUBSET BoardKeys,
         GoesOn(a, status, keys, put)
  PROVE  OrchInv'
<1> DEFINE new == [agent[a] EXCEPT !.status = status, !.writes = keys]
<1>1. OrchTypeOK /\ PhasesInOrder /\ WritesWhenDone /\ BoardIsLatest /\ ReadsAreLatest
  BY DEF OrchInv
<1>2. /\ agent[a].status \in {"creating", "running"}
      /\ UNCHANGED <<runtime, phase, broken>>
      /\ IF status = "done" THEN keys = put ELSE keys = {}
      /\ put # {} => status = "done" \/ (status = "rejected" /\ runtime # "wasm")
  BY DEF GoesOn
<1>3. agent[a] \in AgentRecords
  BY <1>1 DEF OrchTypeOK
<1>4. /\ new \in AgentRecords /\ new.status = status /\ new.writes = keys
      /\ new.reads = agent[a].reads
  BY <1>3 DEF AgentRecords
<1>5. agent' = [agent EXCEPT ![a] = new]
  BY <1>1 DEF GoesOn, OrchTypeOK
<1> HIDE DEF new
<1>6. /\ agent' \in [Agents -> AgentRecords] /\ agent'[a] = new
      /\ \A b \in Agents : b # a => agent'[b] = agent[b]
  BY <1>1, <1>4, <1>5 DEF OrchTypeOK
<1>7. /\ applied' \in [Agents -> SUBSET BoardKeys] /\ applied'[a] = put
      /\ \A b \in Agents : b # a => applied'[b] = applied[b]
      /\ board' \in [BoardKeys -> Agents \cup {Nobody}]
      /\ \A k \in BoardKeys : board'[k] = IF k \in put THEN a ELSE board[k]
  BY <1>1 DEF GoesOn, OrchTypeOK
<1>8. OrchTypeOK'
  BY <1>1, <1>2, <1>6, <1>7 DEF OrchTypeOK
<1>9. /\ PhaseOf(a) \in 1..phase.at /\ a \in Phases[PhaseOf(a)]
      /\ phase.at \in 1..Len(Phases) /\ Len(Phases) \in Nat
  BY <1>1, <1>2, PhasesOfAgents DEF PhasesInOrder, OrchTypeOK
<1>10. \A p \in 1..phase.at : p \in 1..Len(Phases)
  BY <1>9
<1>11. \A p \in 1..phase.at : \A b \in Phases[p] : b \in Agents /\ PhaseOf(b) = p
  BY <1>10, PhasesOfAgents
\* Only an agent of the last phase, or of a broken one, goes on.
<1>12. PhaseOf(a) \in broken \/ (PhaseOf(a) = phase.at /\ phase.status = "running")
  <2>1. agent[a].status # "done"
    BY <1>2
  <2>2. ASSUME PhaseOf(a) # phase.at \/ phase.status # "running", PhaseOf(a) \notin broken
        PROVE  FALSE
    <3>1. \A b \in Phases[PhaseOf(a)] : agent[b].status = "done"
      BY <1>1, <1>9, <2>2 DEF PhasesInOrder
    <3>2. QED
      BY <1>9, <2>1, <3>1
  <2>3. QED
    BY <2>2
<1>13. PhasesInOrder'
  <2>1. \A b \in Agents : agent'[b].status # "idle" <=> PhaseOf(b) <= phase.at
    BY <1>1, <1>2, <1>4, <1>6, <1>9 DEF PhasesInOrder
  <2>2. ASSUME NEW p \in 1..phase.at, p # phase.at \/ phase.status # "running",
               p \notin broken
        PROVE  \A b \in Phases[p] : agent'[b].status = "done"
    <3>1. p # PhaseOf(a)
      BY <1>12, <2>2
    <3>2. \A b \in Phases[p] : b \in Agents /\ b # a /\ agent[b].status = "done"
      BY <1>1, <1>11, <2>2, <3>1 DEF PhasesInOrder
    <3>3. QED
      BY <1>6, <3>2
  <2>3. ASSUME NEW p \in broken PROVE \E b \in Phases[p] : agent'[b].status = "rejected"
    <3>1. PICK b \in Phases[p] : agent[b].status = "rejected"
      BY <1>1 DEF PhasesInOrder
    <3>2. b \in Agents /\ b # a
      BY <1>1, <1>2, <1>11, <3>1 DEF OrchTypeOK
    <3>3. QED
      BY <1>6, <3>1, <3>2
  <2>4. QED
    BY <1>2, <2>1, <2>2, <2>3 DEF PhasesInOrder
<1>14. WritesWhenDone'
  BY <1>1, <1>2, <1>4, <1>6, <1>7 DEF WritesWhenDone
<1>15. ASSUME NEW p \in 1..phase.at, p # PhaseOf(a), NEW k PROVE WroteIn(p, k)' = WroteIn(p, k)
  BY <1>6, <1>11, <1>15 DEF WroteIn
<1>16. BoardIsLatest'
  <2>1. ASSUME NEW k \in BoardKeys, board'[k] # Nobody PROVE PhaseOf(board'[k]) <= phase.at
    BY <1>1, <1>7, <1>9, <2>1 DEF BoardIsLatest
  <2>2. ASSUME \A b \in Agents : agent'[b].status # "rejected", NEW k \in BoardKeys
        PROVE  IsLatest(phase.at, k, board[k])'
    <3>1. \A b \in Agents : agent[b].status # "rejected"
      BY <1>2, <1>6, <2>2
    <3>2. PhaseOf(a) = phase.at
      <4>1. ASSUME PhaseOf(a) \in broken PROVE FALSE
        <5>1. PICK b \in Phases[PhaseOf(a)] : agent[b].status = "rejected"
          BY <1>1, <4>1 DEF PhasesInOrder
        <5>2. b \in Agents
          BY <1>9, <1>11
        <5>3. QED
          BY <3>1, <5>1, <5>2
      <4>2. QED
        BY <1>12, <4>1
    <3>3. IsLatest(phase.at, k, board[k])
      BY <1>1, <3>1 DEF BoardIsLatest
    <3>4. keys = put
      BY <1>2, <1>4, <1>6, <2>2
    <3>5. CASE k \in put
      <4>1. a \in WroteIn(phase.at, k)'
        BY <1>2, <1>4, <1>6, <1>9, <3>2, <3>4, <3>5 DEF WroteIn
      <4>2. \A q \in 1..phase.at : ~(q > phase.at)
        BY <1>9
      <4>3. board'[k] = a /\ phase' = phase
        BY <1>2, <1>7, <3>5
      <4>4. QED
        BY <1>9, <4>1, <4>2, <4>3 DEF IsLatest
    <3>6. CASE k \notin put
      <4>1. board'[k] = board[k] /\ phase' = phase
        BY <1>2, <1>7, <3>6
      <4>2. k \notin agent'[a].writes /\ k \notin agent[a].writes
        BY <1>1, <1>2, <1>4, <1>6, <3>4, <3>6 DEF WritesWhenDone
      <4>3. WroteIn(phase.at, k)' = WroteIn(phase.at, k)
        BY <1>2, <1>6, <1>9, <1>11, <4>2 DEF WroteIn
      <4>4. \A p \in 1..phase.at : WroteIn(p, k)' = WroteIn(p, k)
        BY <1>15, <3>2, <4>1, <4>3
      <4>5. QED
        BY <3>3, <4>1, <4>4 DEF IsLatest
    <3>7. QED
      BY <3>5, <3>6
  <2>3. QED
    BY <1>2, <2>1, <2>2 DEF BoardIsLatest
<1>17. ReadsAreLatest'
  <2> SUFFICES ASSUME NEW b \in Agents, NEW k \in BoardKeys
               PROVE  /\ agent'[b].reads[k] # Nobody => PhaseOf(agent'[b].reads[k]) < PhaseOf(b)
                      /\ agent'[b].status # "idle" /\ broken \cap 1..(PhaseOf(b) - 1) = {} =>
                            IsLatest(PhaseOf(b) - 1, k, agent[b].reads[k])'
    BY <1>2 DEF ReadsAreLatest
  <2> DEFINE m == PhaseOf(b) - 1
  <2>1. agent'[b].reads = agent[b].reads
        /\ (agent'[b].status # "idle" => agent[b].status # "idle")
    BY <1>2, <1>4, <1>6
  <2>2. ASSUME agent'[b].status # "idle", broken \cap 1..m = {}
        PROVE  IsLatest(m, k, agent[b].reads[k])'
    <3>1. IsLatest(m, k, agent[b].reads[k])
      BY <1>1, <2>1, <2>2 DEF ReadsAreLatest
    <3>2. PhaseOf(b) \in 1..Len(Phases) /\ PhaseOf(b) <= phase.at
      BY <1>1, <2>1, <2>2, PhasesOfAgents DEF PhasesInOrder
    <3>3. \A p \in 1..m : p \in 1..phase.at
      BY <1>9, <3>2
    <3>4. ASSUME PhaseOf(a) \in 1..m PROVE FALSE
      BY <1>9, <1>12, <2>2, <3>2, <3>4
    <3>5. \A p \in 1..m : WroteIn(p, k)' = WroteIn(p, k)
      BY <1>15, <3>3, <3>4
    <3>6. QED
      BY <2>1, <3>1, <3>5 DEF IsLatest
  <2>3. QED
    BY <1>1, <2>1, <2>2 DEF ReadsAreLatest
<1>18. QED
  BY <1>8, <1>13, <1>14, <1>16, <1>17 DEF OrchInv

LEMMA OrchStep == OrchInv /\ [OrchNext]_orchVars => OrchInv'
<1> SUFFICES ASSUME OrchInv, [OrchNext]_orchVars PROVE OrchInv'
  OBVIOUS
<1>1. OrchTypeOK /\ WritesWhenDone
  BY DEF OrchInv
<1>2. /\ \A a \in Agents : agent[a] \in AgentRecords
      /\ board = [k \in BoardKeys |-> IF k \in {} THEN Nobody ELSE board[k]]
      /\ agent \in [Agents -> AgentRecords] /\ applied \in [Agents -> SUBSET BoardKeys]
  BY <1>1 DEF OrchTypeOK
<1>3. ASSUME NEW a \in Agents, agent[a].status \in {"creating", "running"}
      PROVE  /\ agent[a].writes = {} /\ applied = [applied EXCEPT ![a] = {}]
             /\ board = [k \in BoardKeys |-> IF k \in {} THEN a ELSE board[k]]
  BY <1>1, <1>2, <1>3 DEF WritesWhenDone
<1>4. CASE StartPhase
  BY <1>4, StartPhaseStep
<1>5. CASE EndPhase
  BY <1>5, EndPhaseStep
<1>6. ASSUME UNCHANGED ownVars PROVE OrchInv'
  BY <1>6 DEF ownVars, OrchInv, OrchTypeOK, PhasesInOrder, WritesWhenDone, BoardIsLatest,
              ReadsAreLatest, IsLatest, WroteIn
<1>7. ASSUME NEW a \in Agents, Created(a) \/ NotCreated(a) PROVE OrchInv'
  <2>1. PICK status \in {"running", "rejected"} :
           /\ agent' = [agent EXCEPT ![a].status = status]
           /\ agent[a].status = "creating"
           /\ UNCHANGED <<runtime, board, phase, applied, broken>>
    BY <1>7 DEF Created, NotCreated
  <2>2. agent' = [agent EXCEPT ![a].status = status, ![a].writes = {}]
    <3>1. agent[a].writes = {} /\ agent[a] \in AgentRecords
      BY <1>2, <1>3, <2>1
    <3> DEFINE new == [agent[a] EXCEPT !.status = status]
               twice == [agent[a] EXCEPT !.status = status, !.writes = {}]
    <3>2. new = twice
      BY <3>1 DEF AgentRecords
    <3>3. agent' = [agent EXCEPT ![a] = new]
      BY <2>1
    <3> HIDE DEF new
    <3>4. agent' = [agent EXCEPT ![a] = twice]
      BY <3>2, <3>3
    <3>5. QED
      BY <3>4
  <2>3. GoesOn(a, status, {}, {})
    BY <1>3, <2>1, <2>2 DEF GoesOn
  <2>4. QED
    BY <2>3, GoesOnStep
<1>8. ASSUME NEW a \in Agents, Failed(a) PROVE OrchInv'
  <2>1. PICK status \in {"done", "rejected"} :
           /\ agent[a].status = "running" /\ End(a, status, {})
           /\ UNCHANGED <<board, applied>>
    BY <1>8 DEF Failed
  <2>2. GoesOn(a, status, {}, {})
    BY <1>3, <2>1 DEF GoesOn, End
  <2>3. QED
    BY <2>2, GoesOnStep
<1>9. ASSUME NEW a \in Agents, NEW ws \in WriteLists, Succeeded(a, ws) PROVE OrchInv'
  <2> DEFINE put == Reached(ws)
  <2>1. put \in SUBSET BoardKeys
    <3>1. \A i \in DOMAIN ws : ws[i][1] \in BoardKeys
      BY DEF WriteLists
    <3>2. QED
      BY <3>1 DEF Reached
  <2> HIDE DEF put
  <2>2. PICK status \in {"done", "rejected"}, keys \in {{}, put} :
           /\ agent[a].status = "running" /\ End(a, status, keys)
           /\ board' = [k \in BoardKeys |-> IF k \in put THEN a ELSE board[k]]
           /\ applied' = [applied EXCEPT ![a] = put]
           /\ IF status = "done" THEN keys = put ELSE keys = {} /\ runtime # "wasm"
    <3>1. CASE Unserialisable(ws) = {}
      BY <1>9, <3>1 DEF Succeeded, Apply, put
    <3>2. CASE Unserialisable(ws) # {}
      BY <1>9, <3>2 DEF Succeeded, Apply, put
    <3>3. QED
      BY <3>1, <3>2
  <2>3. GoesOn(a, status, keys, put)
    <3>1. /\ IF status = "done" THEN keys = put ELSE keys = {}
          /\ put # {} => status = "done" \/ (status = "rejected" /\ runtime # "wasm")
      BY <2>2
    <3>2. /\ agent' = [agent EXCEPT ![a].status = status, ![a].writes = keys]
          /\ UNCHANGED <<runtime, phase, broken>>
      BY <2>2 DEF End
    <3>3. QED
      BY <2>2, <3>1, <3>2 DEF GoesOn
  <2>4. QED
    BY <2>1, <2>2, <2>3, GoesOnStep
<1>10. QED
  BY <1>4, <1>5, <1>6, <1>7, <1>8, <1>9 DEF OrchNext, Runs, ModuleLoads, orchVars

\* The inductive invariant of the orchestrator: phases are over when their agents
\* are, unless one rejected; the board has the latest writes, and reads had them.
THEOREM OrchInvariant == Spec => []OrchInv
<1>1. Init => OrchInv
  BY OrchInitInv DEF Init
<1>2. OrchInv /\ [Next]_vars => OrchInv'
  BY OrchStep, PartSteps
<1>3. QED
  BY <1>1, <1>2, PTL DEF Spec

\* Agents read, for each key, what the latest phase before their own put there, and
\* nothing of their own phase, for any phases and any order of finishing.
THEOREM PhasesReadInOrder == Spec => []SeesEarlierPhases
<1>1. OrchInv => SeesEarlierPhases
  <2> SUFFICES ASSUME OrchInv, NEW a \in Agents, NEW k \in BoardKeys
               PROVE  LET earlier == 1..(PhaseOf(a) - 1)
                          writing == {p \in earlier : WroteIn(p, k) # {}}
                          seen == agent[a].reads[k]
                      IN  /\ seen = Nobody \/ PhaseOf(seen) \in earlier
                          /\ agent[a].status # "idle" /\ broken \cap earlier = {} =>
                                IF writing = {} THEN seen = Nobody
                                ELSE seen \in WroteIn(Max(writing), k)
    BY DEF SeesEarlierPhases
  <2> DEFINE earlier == 1..(PhaseOf(a) - 1)
             writing == {p \in earlier : WroteIn(p, k) # {}}
             seen == agent[a].reads[k]
  <2>1. OrchTypeOK /\ ReadsAreLatest /\ PhaseOf(a) \in Nat
    BY PhasesOfAgents DEF OrchInv
  <2>2. ASSUME seen # Nobody PROVE PhaseOf(seen) \in earlier
    <3>1. seen \in Agents
      BY <2>1, <2>2 DEF OrchTypeOK, AgentRecords
    <3>2. PhaseOf(seen) \in Nat /\ PhaseOf(seen) >= 1
      BY <3>1, PhasesOfAgents
    <3>3. PhaseOf(seen) < PhaseOf(a)
      BY <2>1, <2>2 DEF ReadsAreLatest
    <3>4. QED
      BY <2>1, <3>2, <3>3
  <2>3. ASSUME agent[a].status # "idle", broken \cap earlier = {}
        PROVE  IF writing = {} THEN seen = Nobody ELSE seen \in WroteIn(Max(writing), k)
    <3>1. IsLatest(PhaseOf(a) - 1, k, seen)
      BY <2>1, <2>3 DEF ReadsAreLatest
    <3>2. CASE seen = Nobody /\ \A p \in earlier : WroteIn(p, k) = {}
      BY <3>2
    <3>3. ASSUME NEW p \in earlier, seen \in WroteIn(p, k),
                 \A q \in earlier : q > p => WroteIn(q, k) = {}
          PROVE  seen \in WroteIn(Max(writing), k) /\ writing # {}
      <4>1. p \in writing /\ writing \subseteq Nat
        BY <3>3
      <4>2. \A q \in writing : p >= q
        BY <3>3, <4>1
      <4> HIDE DEF writing
      <4>3. Max(writing) \in writing /\ \A q \in writing : Max(writing) >= q
        BY <4>1, <4>2 DEF Max
      <4>4. Max(writing) = p
        <5> DEFINE last == Max(writing)
        <5>1. last >= p /\ p >= last /\ last \in Nat /\ p \in Nat
          BY <4>1, <4>2, <4>3
        <5> HIDE DEF last
        <5>2. last = p
          BY <5>1
        <5>3. QED
          BY <5>2 DEF last
      <4>5. QED
        BY <3>3, <4>1, <4>4
    <3>4. QED
      BY <3>1, <3>2, <3>3 DEF IsLatest
  <2>4. QED
    BY <2>2, <2>3
<1>2. QED
  BY <1>1, OrchInvariant, PTL

\* Phases run in order unless an agent rejects: none begins while an agent of one
\* before it, in which nobody rejected, still works.
THEOREM OnlyRejectionsBreakTheOrder == Spec => []StragglersAreOfBrokenPhases
<1>1. OrchInv => StragglersAreOfBrokenPhases
  <2> SUFFICES ASSUME OrchInv, NEW a \in Agents,
                      agent[a].status \in {"creating", "running"}, PhaseOf(a) # phase.at
               PROVE  \E b \in Phases[PhaseOf(a)] : agent[b].status = "rejected"
    BY DEF StragglersAreOfBrokenPhases
  <2>1. PhaseOf(a) \in 1..Len(Phases) /\ a \in Phases[PhaseOf(a)] /\ phase.at \in Nat
    BY PhasesOfAgents DEF OrchInv, OrchTypeOK
  <2>2. PhaseOf(a) \in 1..phase.at
    BY <2>1 DEF OrchInv, PhasesInOrder
  <2>3. PhaseOf(a) \in broken
    BY <2>1, <2>2 DEF OrchInv, PhasesInOrder
  <2> QED
    BY <2>3 DEF OrchInv, PhasesInOrder
<1> QED
  BY <1>1, OrchInvariant, PTL

\* What a run reports is what it put on the board, and in QuickJS a run that
\* rejected put nothing there, whatever its guest returned.
THEOREM ReportsAreTrue == Spec => []WritesAreReported
<1>1. OrchInv => WritesAreReported
  BY DEF OrchInv, WritesWhenDone, WritesAreReported
<1>2. QED
  BY <1>1, OrchInvariant, PTL
-----------------------------------------------------------------------------
(* Orchestrator: that what is waited for can come.                           *)

\* The sandboxes there are are those of the running agents, and an agent that runs in
\* QuickJS has the module on its way, or there, or known to be lost.
BoxesOfTheRunning == boxes = {a \in Agents : agent[a].status = "running"}
ModuleIsAskedFor ==
    \A a \in Agents : agent[a].status = "running" /\ runtime = "wasm" =>
        modulePromise \in {"loading", "ready", "failed"}
BoxInv == OrchInv /\ BoxesOfTheRunning /\ ModuleIsAskedFor
          /\ modulePromise \in {"none", "loading", "ready", "failed"}

\* An agent's status goes from its phase's beginning to its end; QuickJS is loaded once.
Onward(s, t) ==
    \/ t = s
    \/ s = "idle" /\ t = "creating"
    \/ s = "creating" /\ t \in {"running", "rejected"}
    \/ s = "running" /\ t \in {"done", "rejected"}
GoesOnward ==
    /\ \A a \in Agents : Onward(agent[a].status, agent'[a].status)
    /\ \/ modulePromise' = modulePromise
       \/ modulePromise = "none" /\ modulePromise' = "loading"
       \/ modulePromise = "loading" /\ modulePromise' \in {"ready", "failed"}

LEMMA BoxInit == OrchInit => BoxInv
<1> SUFFICES ASSUME OrchInit PROVE BoxInv
  OBVIOUS
<1>1. /\ boxes = {} /\ modulePromise = "none" /\ \A a \in Agents : agent[a].status = "idle"
  BY DEF OrchInit, QjsInit, Idle
<1> QED
  BY <1>1, OrchInitInv DEF BoxInv, BoxesOfTheRunning, ModuleIsAskedFor

LEMMA BoxStep == BoxInv /\ OrchNext => BoxInv' /\ GoesOnward
<1> SUFFICES ASSUME BoxInv, OrchNext PROVE BoxInv' /\ GoesOnward
  OBVIOUS
<1> DEFINE Goal == /\ BoxesOfTheRunning' /\ ModuleIsAskedFor' /\ GoesOnward
                   /\ modulePromise' \in {"none", "loading", "ready", "failed"}
<1>1. /\ OrchInv' /\ OrchTypeOK /\ PhasesInOrder /\ BoxesOfTheRunning /\ ModuleIsAskedFor
      /\ modulePromise \in {"none", "loading", "ready", "failed"}
      /\ agent \in [Agents -> AgentRecords]
  BY OrchStep DEF BoxInv, OrchInv, OrchTypeOK
<1>2. ASSUME StartPhase PROVE Goal
  <2>1. /\ UNCHANGED <<modulePromise, runtime, boxes>>
        /\ phase.at \in Nat /\ phase.at + 1 \in 1..Len(Phases)
        /\ agent' = [a \in Agents |-> IF a \in Phases[phase.at + 1]
                                      THEN [Idle EXCEPT !.status = "creating", !.reads = board]
                                      ELSE agent[a]]
    BY <1>1, <1>2, PhasesOfAgents DEF StartPhase, OrchTypeOK
  <2>2. \A a \in Phases[phase.at + 1] : a \in Agents => agent[a].status = "idle"
    BY <1>1, <2>1, PhasesOfAgents DEF PhasesInOrder
  <2>3. [Idle EXCEPT !.status = "creating", !.reads = board].status = "creating"
    BY DEF Idle
  <2>4. \A a \in Agents : \/ agent'[a] = agent[a]
                          \/ agent[a].status = "idle" /\ agent'[a].status = "creating"
    BY <2>1, <2>2, <2>3
  <2>5. \A a \in Agents : agent'[a].status = "running" <=> agent[a].status = "running"
    BY <2>4
  <2> QED
    BY <1>1, <2>1, <2>4, <2>5 DEF BoxesOfTheRunning, ModuleIsAskedFor, GoesOnward, Onward
<1>3. ASSUME EndPhase PROVE Goal
  BY <1>1, <1>3 DEF EndPhase, BoxesOfTheRunning, ModuleIsAskedFor, GoesOnward, Onward
<1>4. ASSUME ModuleLoads PROVE Goal
  <2>1. /\ UNCHANGED <<agent, boxes, runtime>> /\ modulePromise = "loading"
        /\ modulePromise' \in {"ready", "failed"}
    BY <1>4 DEF ModuleLoads, ModuleSettles, ownVars
  <2> QED
    BY <1>1, <2>1 DEF BoxesOfTheRunning, ModuleIsAskedFor, GoesOnward, Onward
<1>5. ASSUME NEW a \in Agents, NEW s \in {"running", "done", "rejected"},
             agent'[a].status = s, \A b \in Agents : b # a => agent'[b] = agent[b],
             Onward(agent[a].status, s), s = "running" => boxes' = boxes \cup {a},
             s # "running" => boxes' = boxes \ {a}, UNCHANGED runtime,
             modulePromise' # modulePromise => modulePromise = "none" /\ modulePromise' = "loading",
             s = "running" /\ runtime = "wasm" => modulePromise' # "none"
      PROVE  Goal
  <2>1. BoxesOfTheRunning'
    BY <1>1, <1>5 DEF BoxesOfTheRunning
  <2>2. ModuleIsAskedFor' /\ modulePromise' \in {"none", "loading", "ready", "failed"}
    BY <1>1, <1>5 DEF ModuleIsAskedFor
  <2>3. GoesOnward
    BY <1>5 DEF GoesOnward, Onward
  <2> QED
    BY <2>1, <2>2, <2>3
<1>6. ASSUME NEW a \in Agents, Created(a) PROVE Goal
  <2>1. /\ agent[a].status = "creating"
        /\ agent' = [agent EXCEPT ![a].status = "running"]
        /\ boxes' = boxes \cup {a} /\ UNCHANGED runtime
        /\ IF runtime = "wasm" THEN Require ELSE UNCHANGED modulePromise
    BY <1>6 DEF Created
  <2>2. agent'[a].status = "running" /\ \A b \in Agents : b # a => agent'[b] = agent[b]
    BY <1>1, <2>1 DEF AgentRecords
  <2> QED
    BY <1>5, <2>1, <2>2 DEF Onward, Require
<1>7. ASSUME NEW a \in Agents, NotCreated(a) PROVE Goal
  <2>1. /\ agent[a].status = "creating"
        /\ agent' = [agent EXCEPT ![a].status = "rejected"]
        /\ UNCHANGED <<boxes, runtime, modulePromise>>
    BY <1>7 DEF NotCreated
  <2>2. agent'[a].status = "rejected" /\ \A b \in Agents : b # a => agent'[b] = agent[b]
    BY <1>1, <2>1 DEF AgentRecords
  <2>3. boxes' = boxes \ {a}
    BY <1>1, <2>1 DEF BoxesOfTheRunning
  <2> QED
    BY <1>5, <2>1, <2>2, <2>3 DEF Onward
<1>8. ASSUME NEW a \in Agents, Runs(a) PROVE Goal
  <2>0. agent[a].status = "running" /\ \E s \in {"done", "rejected"} : \E keys : End(a, s, keys)
    BY <1>8 DEF Runs, Failed, Succeeded, Apply
  <2>1. PICK s \in {"done", "rejected"} : \E keys : End(a, s, keys)
    BY <2>0
  <2>2. PICK keys : /\ agent' = [agent EXCEPT ![a].status = s, ![a].writes = keys]
                    /\ boxes' = boxes \ {a} /\ UNCHANGED <<modulePromise, runtime>>
    BY <2>1 DEF End
  <2>3. agent'[a].status = s /\ \A b \in Agents : b # a => agent'[b] = agent[b]
    BY <1>1, <2>2 DEF AgentRecords
  <2> QED
    BY <1>5, <2>0, <2>1, <2>2, <2>3 DEF Onward
<1>9. Goal
  <2> HIDE DEF Goal
  <2> QED BY <1>2, <1>3, <1>4, <1>6, <1>7, <1>8 DEF OrchNext
<1> QED
  BY <1>1, <1>9 DEF BoxInv

LEMMA BoxInvariant == Spec => []BoxInv
<1>1. Init => BoxInv
  BY BoxInit DEF Init
<1>2. BoxInv /\ [Next]_vars => BoxInv'
  <2> SUFFICES ASSUME BoxInv, [Next]_vars PROVE BoxInv'
    OBVIOUS
  <2>1. CASE OrchNext
    BY <2>1, BoxStep
  <2>2. CASE UNCHANGED orchVars
    <3>1. UNCHANGED <<modulePromise, runtime, agent, boxes>> /\ OrchInv'
      BY <2>2, OrchStep DEF orchVars, ownVars, BoxInv
    <3> QED
      BY <3>1 DEF BoxInv, BoxesOfTheRunning, ModuleIsAskedFor
  <2> QED
    BY <2>1, <2>2, PartSteps
<1> QED
  BY <1>1, <1>2, PTL DEF Spec

\* What an agent or a phase waits for is on its way: a run that has neither ended nor
\* can end waits for QuickJS, which is being loaded; and a phase that can end neither
\* way has an agent that has not ended.  The sandboxes left are those of such agents.
NothingIsAwaitedInVain ==
    /\ \A a \in boxes : agent[a].status = "running"
                        /\ (Outcomes # {} \/ modulePromise = "loading")
    /\ phase.status = "running" =>
          \/ \A a \in Phases[phase.at] : agent[a].status = "done"
          \/ \E a \in Phases[phase.at] : agent[a].status \in {"creating", "running", "rejected"}

\* For any phases of agents, whoever rejects and whether or not the module loads: what
\* PhasesEnd and BoxesAreDisposed need is always there, and fairness does the rest.
\* (The finally of runAgent(), loadQuickJS() and the Promise.all() of runPhase().)
THEOREM NoPhaseWaitsInVain == Spec => []NothingIsAwaitedInVain
<1>1. BoxInv => NothingIsAwaitedInVain
  <2> SUFFICES ASSUME BoxInv PROVE NothingIsAwaitedInVain
    OBVIOUS
  <2>1. \A a \in boxes : agent[a].status = "running"
                         /\ (Outcomes # {} \/ modulePromise = "loading")
    BY DEF BoxInv, BoxesOfTheRunning, ModuleIsAskedFor, Outcomes, QjsOutcomes
  <2>2. ASSUME phase.status = "running", NEW a \in Phases[phase.at]
        PROVE  agent[a].status \in {"creating", "running", "done", "rejected"}
    <3>1. phase.at \in 1..Len(Phases)
      BY <2>2, PhasesOfAgents DEF BoxInv, OrchInv, OrchTypeOK
    <3>2. a \in Agents /\ PhaseOf(a) = phase.at
      BY <2>2, <3>1, PhasesOfAgents
    <3>3. agent[a].status # "idle" /\ agent[a] \in AgentRecords
      BY <3>1, <3>2 DEF BoxInv, OrchInv, PhasesInOrder, OrchTypeOK
    <3> QED
      BY <3>3 DEF AgentRecords
  <2> QED
    BY <2>1, <2>2 DEF NothingIsAwaitedInVain
<1> QED
  BY <1>1, BoxInvariant, PTL

\* The ranking behind the same: an agent takes three steps from its phase's beginning to
\* its end and none back, and the promise of QuickJS settles once, also where a phase
\* was left early and its agents go on during later ones.  (runAgent() and loadQuickJS().)
THEOREM AgentsGoOnward == Spec => [][GoesOnward]_vars
<1>1. BoxInv /\ [Next]_vars => [GoesOnward]_vars
  <2> SUFFICES ASSUME BoxInv, Next PROVE GoesOnward
    OBVIOUS
  <2>1. CASE UNCHANGED orchVars
    BY <2>1 DEF orchVars, ownVars, GoesOnward, Onward
  <2> QED
    BY <2>1, BoxStep, PartSteps
<1> QED
  BY <1>1, BoxInvariant, PTL DEF Spec
=============================================================================
