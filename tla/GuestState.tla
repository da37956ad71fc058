----------------------------- MODULE GuestState -----------------------------
(***************************************************************************)
(* The state guest code mutates through ctx.state, as far as the properties *)
(* need it: the sequence of the mutations made to it.  The guest code of    *)
(* run r mutates the state in Steps steps, and the mark <<r, k>> is its     *)
(* k-th.  Lost updates, half-made updates and updates made twice all show.  *)
(***************************************************************************)
EXTENDS Naturals, Sequences

CONSTANTS
    Runs,       \* the calls of run() that may be made
    Steps,      \* mutations one guest makes
    Seed        \* origin of the mark the initial state carries

ASSUME StepsAssumption == Steps \in Nat \ {0}
ASSUME SeedAssumption == Seed \notin Runs

Marks == (Runs \cup {Seed}) \X (0..Steps)
States == Seq(Marks)

\* The state a sandbox is created with, and the {} of a disposed one.
InitialState == << <<Seed, 0>> >>
EmptyState == <<>>

\* What the whole guest code of r makes of the state s.
GuestMarks(r) == [k \in 1..Steps |-> <<r, k>>]
Effect(s, r) == s \o GuestMarks(r)
=============================================================================
