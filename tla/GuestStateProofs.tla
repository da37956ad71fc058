-------------------------- MODULE GuestStateProofs --------------------------
(***************************************************************************)
(* What the mutations of a guest make of a state, one at a time.            *)
(***************************************************************************)
EXTENDS GuestState, SequenceTheorems, TLAPS

\* The state s once the guest of r made its first n mutations.
Partly(s, r, n) == s \o [k \in 1..n |-> <<r, k>>]

LEMMA MarksOfRun ==
    ASSUME NEW r \in Runs, NEW n \in 0..Steps
    PROVE  /\ [k \in 1..n |-> <<r, k>>] \in Seq(Marks)
           /\ Len([k \in 1..n |-> <<r, k>>]) = n
           /\ \A k \in 1..n : <<r, k>> \in Marks
<1>1. n \in Nat /\ \A k \in 1..n : <<r, k>> \in Marks
  BY StepsAssumption DEF Marks
<1>2. [k \in 1..n |-> <<r, k>>] \in [1..n -> Marks]
  BY <1>1
<1> QED
  BY <1>1, <1>2, SeqDef

LEMMA InitialIsState == InitialState \in States /\ EmptyState \in States
  BY StepsAssumption DEF InitialState, EmptyState, States, Marks

\* No mutation leaves the state as it was, and all of them are its whole effect.
LEMMA PartlyBounds ==
    ASSUME NEW s \in States, NEW r \in Runs
    PROVE  Partly(s, r, 0) = s /\ Partly(s, r, Steps) = Effect(s, r)
<1>1. [k \in 1..0 |-> <<r, k>>] = << >>
  OBVIOUS
<1>2. s \o << >> = s
  BY ConcatEmptySeq DEF States
<1> QED
  BY <1>1, <1>2 DEF Partly, Effect, GuestMarks

\* One more mutation appends its mark.
LEMMA PartlyGrows ==
    ASSUME NEW s \in States, NEW r \in Runs, NEW n \in 0..Steps, n < Steps
    PROVE  /\ Partly(s, r, n) \in States
           /\ Append(Partly(s, r, n), <<r, n + 1>>) = Partly(s, r, n + 1)
<1> DEFINE marks(m) == [k \in 1..m |-> <<r, k>>]
<1>1. n \in Nat /\ n + 1 \in 0..Steps
  BY StepsAssumption
<1>2. /\ marks(n) \in Seq(Marks) /\ Len(marks(n)) = n
      /\ marks(n + 1) \in Seq(Marks) /\ Len(marks(n + 1)) = n + 1
  BY <1>1, MarksOfRun
<1>3. marks(n + 1) = Append(marks(n), <<r, n + 1>>)
  BY <1>1
<1>4. <<r, n + 1>> \in Marks
  BY <1>1, StepsAssumption DEF Marks
<1>5. Append(s \o marks(n), <<r, n + 1>>) = s \o Append(marks(n), <<r, n + 1>>)
  <2> DEFINE t == marks(n)
             e == << <<r, n + 1>> >>
  <2>1. t \in Seq(Marks) /\ e \in Seq(Marks) /\ s \in Seq(Marks)
    BY <1>2, <1>4 DEF States
  <2>2. s \o t \in Seq(Marks)
    BY <2>1, ConcatProperties
  <2>3. Append(s \o t, <<r, n + 1>>) = (s \o t) \o e /\ Append(t, <<r, n + 1>>) = t \o e
    BY <1>4, <2>1, <2>2, AppendIsConcat
  <2>4. (s \o t) \o e = s \o (t \o e)
    BY <2>1, ConcatAssociative
  <2> QED
    BY <2>3, <2>4
<1>6. s \o marks(n) \in Seq(Marks)
  <2> HIDE DEF marks
  <2> QED BY <1>2, ConcatProperties DEF States
<1> QED
  BY <1>3, <1>5, <1>6 DEF Partly, States
=============================================================================
