---------------------------- MODULE ProbesProofs ----------------------------
(***************************************************************************)
(* Theorems about Probes, for every value of its constants: what the        *)
(* verifier checks once is enough for the interpreter, which checks none of *)
(* it; a call of fire() runs the probes attached when it began, in the      *)
(* order in which they were attached; each step brings it nearer to its     *)
(* end, with no map ever over its room; and its numbers keep their width.   *)
(***************************************************************************)
EXTENDS Probes, SequenceTheorems, FiniteSetTheorems, WellFoundedInduction, TLAPS

\* A set of records whose ids are numbers has a first one.
LEMMA FirstIsFirst ==
    ASSUME NEW S, S # {}, \A p \in S : p.id \in Nat
    PROVE  First(S) \in S /\ \A q \in S : First(S).id <= q.id
<1> DEFINE ids == {p.id : p \in S}
           less == {ss \in Nat \X Nat : ss[1] < ss[2]}
<1>1. ids \subseteq Nat /\ ids # {}
  OBVIOUS
<1>2. IsWellFoundedOn(less, Nat)
  BY NatLessThanWellFounded DEF OpToRel
<1>3. PICK n \in ids : \A m \in ids : <<m, n>> \notin less
  <2> HIDE DEF ids, less
  <2> QED BY <1>1, <1>2, WFMin
<1>4. \A m \in ids : n <= m
  <2> SUFFICES ASSUME NEW m \in ids PROVE n <= m
    OBVIOUS
  <2>1. m \in Nat /\ n \in Nat /\ <<m, n>> \notin less
    BY <1>1, <1>3
  <2>2. m < n => <<m, n>> \in less
    BY <2>1
  <2> QED
    BY <2>1, <2>2
<1>5. PICK p \in S : \A q \in S : p.id <= q.id
  BY <1>3, <1>4
<1> QED
  BY <1>5 DEF First
-----------------------------------------------------------------------------
(* Recursion, powers and numbers.                                            *)

\* Induction, over a set of numbers.
LEMMA InductionOverSet ==
    ASSUME NEW T, 0 \in T, \A n \in Nat : n \in T => n + 1 \in T
    PROVE  \A n \in Nat : n \in T
<1> DEFINE less == {ss \in Nat \X Nat : ss[1] < ss[2]}
           out == {n \in Nat : n \notin T}
<1>1. IsWellFoundedOn(less, Nat)
  BY NatLessThanWellFounded DEF OpToRel
<1>2. ASSUME out # {} PROVE FALSE
  <2>1. out \subseteq Nat
    OBVIOUS
  <2>2. PICK n \in out : \A m \in out : <<m, n>> \notin less
    <3> HIDE DEF out, less
    <3> QED BY <1>1, <1>2, <2>1, WFMin
  <2>3. n \in Nat /\ n # 0 /\ n - 1 \in Nat /\ n - 1 < n /\ (n - 1) + 1 = n
    OBVIOUS
  <2>4. <<n - 1, n>> \in less
    BY <2>3
  <2>5. n - 1 \in T
    BY <2>2, <2>3, <2>4
  <2> QED
    BY <2>2, <2>3, <2>5
<1> QED
  BY <1>2

\* The functions that follow step from base on, for n steps.
Upto(S, base, step, n) ==
    {g \in [0..n -> S] : g[0] = base /\ \A k \in 0..(n - 1) : g[k + 1] = step[k][g[k]]}

\* There is one for all steps.
Follows(S, base, step, f) ==
    f \in [Nat -> S] /\ f[0] = base /\ \A n \in Nat : f[n + 1] = step[n][f[n]]

LEMMA Recursion ==
    ASSUME NEW S, NEW base \in S, NEW step \in [Nat -> [S -> S]]
    PROVE  \E f : Follows(S, base, step, f)
<1> DEFINE U(n) == Upto(S, base, step, n)
           T == {n \in Nat : U(n) # {}}
           A == {k \in Nat : \A m, n \in Nat : k <= m /\ k <= n =>
                                \A g \in U(m), h \in U(n) : g[k] = h[k]}
           F == [n \in Nat |-> (CHOOSE g \in U(n) : TRUE)[n]]
<1>1. 0 \in T
  <2>1. [k \in 0..0 |-> base] \in U(0)
    BY DEF Upto
  <2> QED
    BY <2>1
<1>2. ASSUME NEW n \in Nat, n \in T PROVE n + 1 \in T
  <2>1. PICK g \in U(n) : TRUE
    BY <1>2
  <2> DEFINE h == [k \in 0..(n + 1) |-> IF k = n + 1 THEN step[n][g[n]] ELSE g[k]]
  <2>2. /\ g \in [0..n -> S] /\ g[0] = base
        /\ \A k \in 0..(n - 1) : g[k + 1] = step[k][g[k]]
    BY <2>1 DEF Upto
  <2>3. g[n] \in S /\ step[n][g[n]] \in S
    BY <2>2
  <2>4. h \in [0..(n + 1) -> S]
    BY <2>2, <2>3
  <2>5. h[0] = base
    BY <2>2
  <2>a. h[n + 1] = step[n][g[n]] /\ \A k \in 0..n : h[k] = g[k]
    OBVIOUS
  <2>6. \A k \in 0..n : h[k + 1] = step[k][h[k]]
    <3> HIDE DEF h
    <3> SUFFICES ASSUME NEW k \in 0..n PROVE h[k + 1] = step[k][h[k]]
      OBVIOUS
    <3>1. CASE k = n
      BY <2>a, <3>1
    <3>2. CASE k # n
      <4>1. k \in 0..(n - 1) /\ k + 1 \in 0..n
        BY <3>2
      <4> QED
        BY <2>2, <2>a, <4>1
    <3> QED
      BY <3>1, <3>2
  <2>7. h \in U(n + 1)
    <3> HIDE DEF h
    <3>1. (n + 1) - 1 = n
      OBVIOUS
    <3> QED BY <2>4, <2>5, <2>6, <3>1 DEF Upto
  <2> QED
    BY <2>7
<1>3. \A n \in Nat : U(n) # {}
  <2> HIDE DEF T, U
  <2>1. \A n \in Nat : n \in T
    BY <1>1, <1>2, InductionOverSet
  <2> QED
    BY <2>1 DEF T
<1>4. 0 \in A
  BY DEF Upto
<1>5. ASSUME NEW k \in Nat, k \in A PROVE k + 1 \in A
  <2> SUFFICES ASSUME NEW m \in Nat, NEW n \in Nat, k + 1 <= m, k + 1 <= n,
                      NEW g \in U(m), NEW h \in U(n)
               PROVE  g[k + 1] = h[k + 1]
    OBVIOUS
  <2>1. k \in 0..(m - 1) /\ k \in 0..(n - 1) /\ k <= m /\ k <= n
    OBVIOUS
  <2>2. g[k] = h[k]
    BY <1>5, <2>1
  <2> QED
    BY <2>1, <2>2 DEF Upto
<1>6. \A k \in Nat : k \in A
  <2> HIDE DEF A
  <2> QED BY <1>4, <1>5, InductionOverSet
<1>7. \A n \in Nat : (CHOOSE g \in U(n) : TRUE) \in U(n)
  <2> HIDE DEF U
  <2> QED BY <1>3
<1>8. ASSUME NEW n \in Nat PROVE F[n] \in S /\ (n = 0 => F[n] = base)
  <2> DEFINE g == CHOOSE x \in U(n) : TRUE
  <2>1. g \in U(n)
    BY <1>7
  <2>2. F[n] = g[n]
    OBVIOUS
  <2> HIDE DEF g, F
  <2> QED
    BY <2>1, <2>2 DEF Upto
<1>9. F[0] = base
  <2> HIDE DEF F
  <2> QED BY <1>8
<1>10. ASSUME NEW n \in Nat PROVE F[n + 1] = step[n][F[n]]
  <2> DEFINE g == CHOOSE x \in U(n) : TRUE
             h == CHOOSE x \in U(n + 1) : TRUE
  <2>1. g \in U(n) /\ h \in U(n + 1)
    BY <1>7
  <2>2. F[n] = g[n] /\ F[n + 1] = h[n + 1]
    OBVIOUS
  <2> HIDE DEF g, h, F
  <2>3. h[n] = g[n]
    BY <1>6, <2>1
  <2>4. h[n + 1] = step[n][h[n]]
    BY <2>1 DEF Upto
  <2> QED
    BY <2>2, <2>3, <2>4
<1> HIDE DEF F
<1>11. F \in [Nat -> S]
  <2>1. F = [n \in Nat |-> F[n]]
    BY DEF F
  <2> QED
    BY <1>8, <2>1
<1> QED
  BY <1>9, <1>10, <1>11 DEF Follows

LEMMA Powers ==
    ASSUME NEW b \in Nat \ {0}
    PROVE  /\ Power(b, 0) = 1
           /\ \A n \in Nat : Power(b, n) \in Nat \ {0} /\ Power(b, n + 1) = b * Power(b, n)
<1> DEFINE S == Nat \ {0}
           step == [k \in Nat |-> [x \in S |-> b * x]]
           Is(f) == f = [k \in Nat |-> IF k = 0 THEN 1 ELSE b * f[k - 1]]
           power == CHOOSE f : Is(f)
<1>1. step \in [Nat -> [S -> S]] /\ \A n \in Nat, x \in S : step[n][x] = b * x
  OBVIOUS
<1>2. PICK f \in [Nat -> S] : f[0] = 1 /\ \A n \in Nat : f[n + 1] = step[n][f[n]]
  <2> DEFINE base == 1
  <2>1. base \in S
    OBVIOUS
  <2>2. step \in [Nat -> [S -> S]]
    BY <1>1
  <2>3. \E f : Follows(S, base, step, f)
    <3> HIDE DEF step, S, base
    <3> QED BY <2>1, <2>2, Recursion
  <2> QED
    BY <2>3 DEF Follows
<1>3. \A n \in Nat : f[n + 1] = b * f[n]
  BY <1>1, <1>2
<1>4. Is(f)
  <2>1. ASSUME NEW k \in Nat \ {0} PROVE f[k] = b * f[k - 1]
    <3>1. k - 1 \in Nat /\ (k - 1) + 1 = k
      OBVIOUS
    <3> QED
      BY <1>3, <3>1
  <2> QED
    BY <1>2, <2>1
<1>5. Is(power)
  <2> HIDE DEF Is
  <2> QED BY <1>4
<1>6. \A n \in Nat : Power(b, n) = power[n]
  BY DEF Power
<1> HIDE DEF power
<1>7. power[0] = 1
  BY <1>5
<1>8. \A n \in Nat : power[n + 1] = b * power[n]
  BY <1>5
<1> DEFINE T == {n \in Nat : power[n] \in Nat \ {0}}
<1>9. 0 \in T /\ \A n \in Nat : n \in T => n + 1 \in T
  BY <1>7, <1>8
<1>10. \A n \in Nat : n \in T
  <2> HIDE DEF T
  <2> QED BY <1>9, InductionOverSet
<1> QED
  BY <1>6, <1>7, <1>8, <1>10

\* n digits to the base b make a number below the n-th power of b.
LEMMA Numbers ==
    ASSUME NEW b \in Nat \ {0}, NEW n \in Nat, NEW d \in [0..(n - 1) -> 0..(b - 1)]
    PROVE  Number(b, n, d) \in 0..(Power(b, n) - 1)
<1> DEFINE step == [k \in Nat |->
                      [x \in Nat |-> IF k < n THEN x + d[k] * Power(b, k) ELSE x]]
           Is(f) == f = [k \in 0..n |->
                           IF k = 0 THEN 0 ELSE f[k - 1] + d[k - 1] * Power(b, k - 1)]
           value == CHOOSE f : Is(f)
<1>1. \A k \in Nat : Power(b, k) \in Nat
  BY Powers
<1>2. ASSUME NEW k \in Nat, k < n PROVE d[k] \in 0..(b - 1) /\ d[k] * Power(b, k) \in Nat
  <2>1. d[k] \in 0..(b - 1) /\ d[k] \in Nat /\ Power(b, k) \in Nat
    BY <1>1, <1>2
  <2>2. \A x, y \in Nat : x * y \in Nat
    OBVIOUS
  <2> QED BY <2>1, <2>2
<1>3. /\ step \in [Nat -> [Nat -> Nat]]
      /\ \A k, x \in Nat : k < n => step[k][x] = x + d[k] * Power(b, k)
  <2>1. \A k, x \in Nat : k < n => x + d[k] * Power(b, k) \in Nat
    BY <1>2
  <2> QED
    BY <2>1
<1>4. PICK f \in [Nat -> Nat] : f[0] = 0 /\ \A k \in Nat : f[k + 1] = step[k][f[k]]
  <2> DEFINE S == Nat
             base == 0
  <2>1. base \in S
    OBVIOUS
  <2>2. step \in [Nat -> [S -> S]]
    BY <1>3
  <2> HIDE DEF step
  <2>3. \E f : Follows(S, base, step, f)
    <3> HIDE DEF S, base
    <3> QED BY <2>1, <2>2, Recursion
  <2> QED
    BY <2>3 DEF Follows
<1>5. Is([k \in 0..n |-> f[k]])
  <2> DEFINE g == [k \in 0..n |-> f[k]]
  <2>1. ASSUME NEW k \in 0..n, k # 0 PROVE f[k] = f[k - 1] + d[k - 1] * Power(b, k - 1)
    <3>1. k - 1 \in Nat /\ (k - 1) + 1 = k /\ k - 1 < n /\ f[k - 1] \in Nat
      BY SMTT(30), <1>4, <2>1
    <3> QED
      BY <1>3, <1>4, <3>1
  <2>2. \A k \in 0..n : k # 0 => k - 1 \in 0..n
    OBVIOUS
  <2> QED
    BY <1>4, <2>1, <2>2
<1>6. Is(value)
  <2> HIDE DEF Is
  <2> QED BY <1>5
<1>7. Number(b, n, d) = value[n]
  BY DEF Number
<1> HIDE DEF value, step
<1>8. value[0] = 0 /\ \A k \in Nat : k < n => value[k + 1] = value[k] + d[k] * Power(b, k)
  <2>1. value[0] = 0
    BY <1>6
  <2>2. ASSUME NEW k \in Nat, k < n PROVE value[k + 1] = value[k] + d[k] * Power(b, k)
    <3>1. k + 1 \in 0..n /\ k + 1 # 0 /\ (k + 1) - 1 = k
      BY <2>2
    <3> QED
      BY <1>6, <3>1
  <2> QED
    BY <2>1, <2>2
<1> DEFINE T == {k \in Nat : k <= n => value[k] \in 0..(Power(b, k) - 1)}
<1>9. 0 \in T
  BY <1>8, Powers
<1>10. ASSUME NEW k \in Nat, k \in T PROVE k + 1 \in T
  <2> SUFFICES ASSUME k + 1 <= n PROVE value[k + 1] \in 0..(Power(b, k + 1) - 1)
    OBVIOUS
  <2> DEFINE p == Power(b, k)
             v == value[k]
             e == d[k]
  <2>1. /\ v \in Nat /\ v <= p - 1 /\ p \in Nat /\ e \in Nat /\ e <= b - 1
        /\ value[k + 1] = v + e * p /\ Power(b, k + 1) = b * p
    <3>1. k < n /\ k <= n
      OBVIOUS
    <3> QED
      BY <1>2, <1>8, <1>10, <3>1, Powers
  <2> HIDE DEF p, v, e
  <2>2. e * p <= (b - 1) * p /\ e * p \in Nat /\ (b - 1) * p = b * p - p /\ b * p \in Nat
    <3>1. \A x, y, z \in Nat : x <= y => x * z <= y * z /\ x * z \in Nat
      OBVIOUS
    <3>2. \A x, z \in Nat : (x - 1) * z = x * z - z
      OBVIOUS
    <3> QED
      BY <2>1, <3>1, <3>2
  <2>3. v + e * p \in Nat /\ v + e * p <= b * p - 1
    <3> DEFINE u == e * p
               w == b * p
    <3>1. u \in Nat /\ w \in Nat /\ u <= w - p
      BY <2>2
    <3> HIDE DEF u, w
    <3>2. v + u \in Nat /\ v + u <= w - 1
      BY <2>1, <3>1
    <3> QED
      BY <3>2 DEF u, w
  <2> QED
    BY <2>1, <2>2, <2>3
<1>11. \A k \in Nat : k \in T
  <2> HIDE DEF T
  <2> QED BY <1>9, <1>10, InductionOverSet
<1> QED
  BY <1>7, <1>11

\* The powers of b grow, and add up.
LEMMA PowersAddUp ==
    ASSUME NEW b \in Nat \ {0}, NEW m \in Nat, NEW n \in Nat
    PROVE  /\ Power(b, m + n) = Power(b, m) * Power(b, n)
           /\ Power(b, m) <= Power(b, m + n)
<1> DEFINE p == Power(b, m)
           T == {k \in Nat : Power(b, m + k) = p * Power(b, k)}
<1>1. p \in Nat \ {0}
  BY Powers
<1> HIDE DEF p
<1>2. 0 \in T
  <2>1. m + 0 = m /\ p * 1 = p
    BY <1>1
  <2> QED
    BY <2>1, Powers DEF p
<1>3. ASSUME NEW k \in Nat, k \in T PROVE k + 1 \in T
  <2>1. /\ Power(b, (m + k) + 1) = b * Power(b, m + k)
        /\ Power(b, k + 1) = b * Power(b, k) /\ Power(b, k) \in Nat
    BY Powers
  <2>2. \A x, y, z \in Nat : x * (y * z) = y * (x * z)
    OBVIOUS
  <2>3. m + (k + 1) = (m + k) + 1
    OBVIOUS
  <2> QED
    BY <1>1, <1>3, <2>1, <2>2, <2>3
<1>4. \A k \in Nat : k \in T
  <2> HIDE DEF T
  <2> QED BY <1>2, <1>3, InductionOverSet
<1>5. Power(b, m + n) = p * Power(b, n) /\ Power(b, n) \in Nat \ {0}
  BY <1>4, Powers
<1>6. \A x, y \in Nat : y # 0 => x <= x * y
  OBVIOUS
<1> QED
  BY <1>1, <1>5, <1>6 DEF p
-----------------------------------------------------------------------------
(* What the verifier establishes of a program.                              *)

Sound(p) == p \in Seq(Insns) /\ Verified(p)
Starts(p) == DOMAIN p \ SecondSlots(p)

\* A verified program starts at its first instruction.
LEMMA EntryStarts == ASSUME NEW p, Sound(p) PROVE 1 \in Starts(p)
<1>1. Len(p) \in Nat /\ DOMAIN p = 1..Len(p) /\ p # <<>>
  BY DEF Sound, Verified
<1>2. Len(p) # 0
  BY <1>1 DEF Sound
<1> QED
  BY <1>1, <1>2 DEF Starts, SecondSlots

\* An instruction that can be reached was checked, is one the interpreter
\* knows, and if it writes a register then not r10.
LEMMA Checked ==
    ASSUME NEW p, Sound(p), NEW i \in Starts(p)
    PROVE  /\ p[i] \in Insns /\ CheckInsn(p, i)
           /\ p[i].op \notin {"bad", "slot"}
           /\ p[i].cls \in {"ALU64", "ALU32", "LDX", "LD"} => p[i].dst \in 0..9
           /\ p[i].cls = "LD" => p[i].op = "lddw"
<1>1. i \in DOMAIN p /\ p[i] \in Insns /\ CheckInsn(p, i)
  BY DEF Sound, Verified, Starts
<1>2. p[i].cls \in Classes /\ p[i].dst \in Nat /\ (p[i].op = "slot" => p[i].cls = "LD")
  BY <1>1 DEF Insns, Decoded, Classes, OpsOf, AluOps, Conditions
<1> QED
  BY <1>1, <1>2 DEF CheckInsn, Writable, Classes

\* Control that falls through stays inside: only exit ends a program, and only
\* an lddw is followed by a second slot.
LEMMA FallsThrough ==
    ASSUME NEW p, Sound(p), NEW i \in Starts(p), p[i].cls # "LD",
           ~(p[i].cls = "JMP" /\ p[i].op = "exit")
    PROVE  i + 1 \in Starts(p)
<1>1. Len(p) \in Nat /\ DOMAIN p = 1..Len(p) /\ i \in 1..Len(p)
  BY DEF Sound, Starts
<1>2. i # Len(p)
  BY DEF Sound, Verified
<1>3. p[i].op # "lddw"
  BY Checked DEF Insns, Decoded, Classes, OpsOf, AluOps, Conditions
<1> QED
  BY <1>1, <1>2, <1>3 DEF Starts, SecondSlots

\* After an lddw comes its second slot, and after that an instruction.
LEMMA LoadSkipsItsSlot ==
    ASSUME NEW p, Sound(p), NEW i \in Starts(p), p[i].cls = "LD"
    PROVE  i + 2 \in Starts(p)
<1>1. Len(p) \in Nat /\ DOMAIN p = 1..Len(p) /\ i \in 1..Len(p)
  BY DEF Sound, Starts
<1>2. i < Len(p) /\ p[i].op = "lddw" /\ p[i + 1].op = "slot"
  BY <1>1, Checked DEF Sound, Verified
<1>3. i + 1 \in SecondSlots(p)
  BY <1>1, <1>2 DEF SecondSlots
<1>4. i + 1 # Len(p)
  BY <1>3 DEF Sound, Verified
<1> QED
  BY <1>1, <1>2, <1>4 DEF Starts, SecondSlots

\* A jump lands on an instruction.
LEMMA JumpLands ==
    ASSUME NEW p, Sound(p), NEW i \in Starts(p), p[i].cls \in {"JMP", "JMP32"},
           p[i].op \notin {"call", "exit"}
    PROVE  i + 1 + p[i].off \in Starts(p)
  BY Checked DEF CheckInsn, JumpsInside, Starts
-----------------------------------------------------------------------------
(* The inductive invariant.                                                 *)

Attached == [id : Nat, options : Options]
RunFields == {"insns", "budget", "fds", "pc", "steps", "status"}

\* Whoever is attached, or is to run in this call of fire(), was verified.
ProbesOK ==
    /\ menu \subseteq Options /\ probeCounter \in Nat
    /\ probes \subseteq Attached /\ firing.todo \subseteq Attached
    /\ \A p \in probes \cup firing.todo : Verified(p.options.program)
    /\ firing.active => firing.todo # {}
    /\ DOMAIN firing = DOMAIN NotFired

\* The run is of a verified program, at an instruction of it that can be reached.
RunOK ==
    /\ DOMAIN vm = RunFields /\ DOMAIN regs = Registers
    /\ vm.status \in {"running", "tracing"} =>
        Sound(vm.insns) /\ vm.pc \in Starts(vm.insns)
    /\ vm.status = "tracing" => Insn.cls = "JMP" /\ Insn.op = "call"

ProbesInv == ProbesOK /\ RunOK /\ RunsOnTheEvent

\* The program of a probe that is attached or to run is sound, and new runs of
\* it start on an instruction, with r10 at the top of the stack.
LEMMA RunStarts ==
    ASSUME NEW p \in Attached, Verified(p.options.program), Run(p)
    PROVE  RunOK' /\ regs'[10] = StackTop
<1>1. /\ p.options.program \in Seq(Insns) /\ Sound(p.options.program)
      /\ p.options.fds \in Nat
  BY DEF Attached, Options, Sound
<1>2. vm' = [insns |-> p.options.program,
             budget |-> Clamped(p.options.budget),
             fds |-> p.options.fds, pc |-> 1, steps |-> 0, status |-> "running"]
  BY DEF Run, Load, NoRun
<1>3. regs' = AtEntry
  BY DEF Run
<1>4. DOMAIN regs' = Registers /\ regs'[10] = StackTop
  BY <1>3 DEF AtEntry, Registers
<1>5. /\ DOMAIN vm' = RunFields /\ vm'.status = "running"
      /\ vm'.insns = p.options.program /\ vm'.pc = 1
  BY <1>1, <1>2 DEF RunFields
<1> QED
  BY <1>1, <1>4, <1>5, EntryStarts DEF RunOK

LEMMA InitInv == Init => ProbesInv
<1> SUFFICES ASSUME Init PROVE ProbesInv
  OBVIOUS
<1>1. DOMAIN vm = RunFields /\ vm.status = "idle"
  BY DEF Init, NoRun, RunFields
<1>2. DOMAIN regs = Registers
  BY DEF Init, AtEntry
<1>3. ProbesOK /\ ~firing.active
  BY MenusAssumption DEF Init, ProbesOK, NotFired
<1> QED
  BY <1>1, <1>2, <1>3 DEF ProbesInv, RunOK, RunsOnTheEvent
-----------------------------------------------------------------------------
(* The steps of the interpreter.                                            *)

\* Where an instruction that goes on leaves the run.
LEMMA ContinueOK ==
    ASSUME RunOK, vm.status \in {"running", "tracing"},
           NEW pc \in Starts(vm.insns), Continue(pc), DOMAIN regs' = Registers
    PROVE  RunOK'
<1>1. vm' = [vm EXCEPT !.pc = pc, !.steps = @ + 1, !.status = "running"]
  BY DEF Continue
<1>2. /\ DOMAIN vm' = RunFields /\ vm'.status = "running"
      /\ vm'.insns = vm.insns /\ vm'.pc = pc
  BY <1>1 DEF RunOK, RunFields
<1> QED
  BY <1>2 DEF RunOK

\* A run that stops is over, and leaves its registers and its context.
LEMMA StopOK ==
    ASSUME RunOK, NEW how \in Ended, Stop(how)
    PROVE  RunOK' /\ UNCHANGED <<regs, ctx>>
<1>1. vm' = [vm EXCEPT !.steps = @ + 1, !.status = how] /\ UNCHANGED <<regs, ctx>>
  BY DEF Stop
<1>2. how \notin {"running", "tracing"}
  BY DEF Ended, Faults
<1>3. DOMAIN vm' = RunFields /\ vm'.status = how
  BY <1>1 DEF RunOK, RunFields
<1> QED
  BY <1>1, <1>2, <1>3 DEF RunOK

\* A register other than r10 takes a value, and the run goes on.
LEMMA SetRegOK ==
    ASSUME RunOK, NEW d \in 0..9, NEW value, SetReg(d, value)
    PROVE  DOMAIN regs' = Registers /\ regs'[10] = regs[10]
  BY DEF SetReg, RunOK, Registers

\* A call leaves r10 alone.
LEMMA AfterCallOK ==
    ASSUME NEW value, regs' = AfterCall(value)
    PROVE  DOMAIN regs' = Registers /\ regs'[10] = regs[10]
  BY DEF AfterCall, Registers

\* Every step of the interpreter keeps the run on its program, and leaves the
\* context and r10 alone.
LEMMA VmStepOK ==
    ASSUME RunOK, VmStep
    PROVE  RunOK' /\ ctx' = ctx /\ regs'[10] = regs[10]
<1> DEFINE Goal == RunOK' /\ ctx' = ctx /\ regs'[10] = regs[10]
           next == vm.pc + 1 \in Starts(vm.insns)
<1> USE DEF Executing
<1>stop. ASSUME NEW how \in Ended, Stop(how) PROVE Goal
  BY <1>stop, StopOK
<1>falls. ASSUME vm.status \in {"running", "tracing"}, Insn.cls # "LD",
                 ~(Insn.cls = "JMP" /\ Insn.op = "exit")
          PROVE  next
  BY <1>falls, FallsThrough DEF RunOK, Insn
<1>writes. ASSUME vm.status = "running", Insn.cls \in {"ALU64", "ALU32", "LDX", "LD"}
           PROVE  Insn.dst \in 0..9
  BY <1>writes, Checked DEF RunOK, Insn
<1>set. ASSUME vm.status = "running", Insn.cls \in {"ALU64", "ALU32", "LDX", "LD"},
               NEW value, SetReg(Insn.dst, value), ctx' = ctx,
               NEW pc \in Starts(vm.insns), Continue(pc)
        PROVE  Goal
  BY <1>set, <1>writes, SetRegOK, ContinueOK
<1>call. ASSUME vm.status \in {"running", "tracing"}, Insn.cls = "JMP", Insn.op = "call",
                NEW value, regs' = AfterCall(value), ctx' = ctx, Continue(vm.pc + 1)
         PROVE  Goal
  BY <1>call, <1>falls, AfterCallOK, ContinueOK
<1>stay. ASSUME vm.status = "running", regs' = regs, ctx' = ctx,
                NEW pc \in Starts(vm.insns), Continue(pc)
         PROVE  Goal
  BY <1>stay, ContinueOK DEF RunOK
<1>1. CASE OutOfSteps
  BY <1>1, <1>stop DEF OutOfSteps, Ended, Faults
<1>2. CASE Arithmetic
  BY <1>2, <1>set, <1>falls DEF Arithmetic
<1>3. CASE Jump
  <2>1. CASE Stop("register")
    BY <2>1, <1>stop DEF Ended, Faults
  <2>2. ASSUME NEW pc \in {vm.pc + 1, vm.pc + 1 + Insn.off}, Continue(pc),
               regs' = regs, ctx' = ctx
        PROVE  Goal
    <3>1. pc \in Starts(vm.insns)
      BY <1>3, <2>2, <1>falls, JumpLands DEF Jump, RunOK, Insn
    <3> QED
      BY <1>3, <2>2, <3>1, <1>stay DEF Jump
  <2> QED
    BY <1>3, <2>1, <2>2 DEF Jump
<1>4. CASE CallMap
  <2>1. CASE Stop("nomap")
    BY <2>1, <1>stop DEF Ended, Faults
  <2>2. ASSUME NEW value, regs' = AfterCall(value), Continue(vm.pc + 1), ctx' = ctx
        PROVE  Goal
    BY <1>4, <2>2, <1>call DEF CallMap, Calls
  <2> QED
    BY <1>4, <2>1, <2>2 DEF CallMap
<1>5. CASE CallTime
  BY <1>5, <1>call DEF CallTime, Calls
<1>6. CASE CallTrace
  BY <1>6 DEF CallTrace, Calls, RunOK, RunFields, Insn
<1>7. CASE TraceReturns
  BY <1>7, <1>call DEF TraceReturns, RunOK
<1>8. CASE Exit
  BY <1>8, <1>stop DEF Exit, Ended
<1>9. CASE LoadDoubleWord
  <2>1. vm.pc + 2 \in Starts(vm.insns)
    BY <1>9, LoadSkipsItsSlot DEF LoadDoubleWord, RunOK, Insn
  <2> QED
    BY <1>9, <2>1, <1>set DEF LoadDoubleWord
<1>10. CASE LoadMemory
  <2>1. CASE Stop("bounds")
    BY <2>1, <1>stop DEF Ended, Faults
  <2>2. ASSUME NEW bytes, NEW offset, LoadFrom(bytes, offset)
        PROVE  Goal
    BY <1>10, <2>2, <1>set, <1>falls DEF LoadMemory, LoadFrom
  <2> QED
    BY <1>10, <2>1, <2>2 DEF LoadMemory
<1>11. CASE StoreMemory
  <2>1. ASSUME NEW how \in {"register", "readonly", "bounds"}, Stop(how)
        PROVE  Goal
    BY <2>1, <1>stop DEF Ended, Faults
  <2>2. ASSUME NEW addr, NEW value, StoreOnStack(addr, value)
        PROVE  Goal
    BY <1>11, <2>2, <1>stay, <1>falls DEF StoreMemory, StoreOnStack
  <2> QED
    BY <1>11, <2>1, <2>2 DEF StoreMemory, Store
<1> QED
  BY <1>1, <1>2, <1>3, <1>4, <1>5, <1>6, <1>7, <1>8, <1>9, <1>10, <1>11 DEF VmStep
-----------------------------------------------------------------------------
(* The steps of the registry.                                               *)

\* What is attached was verified.
LEMMA AttachOK ==
    ASSUME ProbesInv, NEW o \in menu, Attach(o)
    PROVE  ProbesInv'
<1> DEFINE new == [id |-> probeCounter + 1, options |-> o]
<1>1. o \in Options /\ probeCounter + 1 \in Nat
  BY DEF ProbesInv, ProbesOK
<1>2. new \in Attached
  BY <1>1 DEF Attached
<1>3. probes' = IF Verified(o.program) THEN probes \cup {new} ELSE probes
  BY DEF Attach
<1>4. Verified(o.program) => Verified(new.options.program)
  OBVIOUS
<1>5. /\ probes' \subseteq Attached
      /\ \A p \in probes' : Verified(p.options.program)
  <2> HIDE DEF new
  <2> QED BY <1>2, <1>3, <1>4 DEF ProbesInv, ProbesOK
<1>6. menu' \subseteq Options /\ probeCounter' \in Nat
  BY <1>1 DEF Attach, ProbesInv, ProbesOK
<1>7. UNCHANGED <<vm, regs, ctx, firing>>
  BY DEF Attach, vmVars
<1> QED
  BY <1>5, <1>6, <1>7 DEF ProbesInv, ProbesOK, RunOK, RunsOnTheEvent, Insn

LEMMA DetachOK ==
    ASSUME ProbesInv, NEW id, Detach(id)
    PROVE  ProbesInv'
  BY DEF Detach, vmVars, ProbesInv, ProbesOK, RunOK, RunsOnTheEvent, Insn

\* The first of some attached probes is one of them.
LEMMA FirstAttached ==
    ASSUME NEW S \in SUBSET Attached, S # {}
    PROVE  First(S) \in S /\ \A q \in S : First(S).id <= q.id
  BY FirstIsFirst DEF Attached

\* fire() starts on a verified program, with the event as its context.
LEMMA FireOK ==
    ASSUME ProbesInv, NEW t \in Tracepoints, NEW f \in Fields, Fire(t, f)
    PROVE  ProbesInv'
<1> DEFINE matching == Matching(t)
           p == First(matching)
<1>1. matching \subseteq probes /\ matching \subseteq Attached /\ matching # {}
  BY DEF Fire, Matching, ProbesInv, ProbesOK
<1>2. p \in Attached /\ Verified(p.options.program)
  <2> HIDE DEF matching
  <2> QED BY <1>1, FirstAttached DEF ProbesInv, ProbesOK
<1>3. RunOK' /\ regs'[10] = StackTop
  <2>1. Run(p)
    BY DEF Fire
  <2> HIDE DEF p
  <2> QED BY <1>2, <2>1, RunStarts
<1>4. /\ firing' = [NotFired EXCEPT !.active = TRUE, !.tracepoint = t,
                                    !.todo = matching, !.roster = Ids(matching),
                                    !.fields = f]
      /\ ctx' = Encoded(f) /\ UNCHANGED <<menu, probes, probeCounter>>
  BY DEF Fire
<1>5. firing'.todo = matching /\ firing'.fields = f /\ DOMAIN firing' = DOMAIN NotFired
  <2> HIDE DEF matching
  <2> QED BY <1>4 DEF NotFired
<1>6. ProbesOK'
  <2> HIDE DEF matching
  <2> QED BY <1>1, <1>4, <1>5 DEF ProbesInv, ProbesOK
<1> QED
  BY <1>3, <1>4, <1>5, <1>6 DEF ProbesInv, RunsOnTheEvent

LEMMA VmOK ==
    ASSUME ProbesInv, firing.active, VmStep, UNCHANGED regVars
    PROVE  ProbesInv'
<1>1. RunOK' /\ ctx' = ctx /\ regs'[10] = regs[10]
  BY VmStepOK DEF ProbesInv
<1>2. UNCHANGED <<menu, probes, probeCounter, firing>>
  BY DEF regVars
<1> QED
  BY <1>1, <1>2 DEF ProbesInv, ProbesOK, RunsOnTheEvent

\* The next probe of the loop was verified, and starts afresh.
LEMMA ConcludeOK ==
    ASSUME ProbesInv, Conclude
    PROVE  ProbesInv'
<1>1. firing.todo \subseteq Attached /\ DOMAIN firing = DOMAIN NotFired
  BY DEF ProbesInv, ProbesOK
<1>2. UNCHANGED <<ctx, menu, probes, probeCounter>>
  BY DEF Conclude
<1>3. CASE Vetoes \/ Remaining = {}
  <2>1. PICK ran, verdict : firing' = [firing EXCEPT !.active = FALSE, !.todo = {},
                                                    !.ran = ran, !.verdict = verdict]
    BY <1>3 DEF Conclude
  <2>2. ~firing'.active /\ firing'.todo = {} /\ DOMAIN firing' = DOMAIN NotFired
    BY <1>1, <2>1 DEF NotFired
  <2>3. vm' = NoRun /\ regs' = AtEntry
    BY <1>3 DEF Conclude
  <2>4. RunOK'
    BY <2>3 DEF RunOK, NoRun, RunFields, AtEntry
  <2> QED
    BY <1>2, <2>2, <2>4 DEF ProbesInv, ProbesOK, RunsOnTheEvent
<1>4. CASE ~(Vetoes \/ Remaining = {})
  <2>1. PICK ran : firing' = [firing EXCEPT !.todo = Remaining, !.ran = ran]
    BY <1>4 DEF Conclude
  <2>2. /\ firing'.todo = Remaining /\ firing'.fields = firing.fields
        /\ firing'.active = firing.active /\ DOMAIN firing' = DOMAIN NotFired
    BY <1>1, <2>1 DEF NotFired
  <2>3. Remaining \subseteq firing.todo /\ Remaining # {}
    BY <1>4 DEF Remaining
  <2>4. /\ First(Remaining) \in Attached
        /\ Verified(First(Remaining).options.program)
    BY <1>1, <2>3, FirstAttached DEF ProbesInv, ProbesOK
  <2>5. Run(First(Remaining))
    BY <1>4 DEF Conclude
  <2>6. RunOK' /\ regs'[10] = StackTop
    BY <2>4, <2>5, RunStarts
  <2>7. ProbesOK'
    BY <1>1, <1>2, <2>2, <2>3 DEF ProbesInv, ProbesOK
  <2> QED
    BY <1>2, <2>2, <2>6, <2>7 DEF ProbesInv, RunsOnTheEvent, Conclude
<1> QED
  BY <1>3, <1>4

LEMMA InvStep == ProbesInv /\ [Next]_vars => ProbesInv'
<1> SUFFICES ASSUME ProbesInv, [Next]_vars PROVE ProbesInv'
  OBVIOUS
<1>1. CASE UNCHANGED vars
  BY <1>1 DEF vars, vmVars, regVars, ProbesInv, ProbesOK, RunOK, RunsOnTheEvent, Insn
<1>2. ASSUME NEW o \in menu, Attach(o) PROVE ProbesInv'
  BY <1>2, AttachOK
<1>3. ASSUME NEW id \in Ids(probes), Detach(id) PROVE ProbesInv'
  BY <1>3, DetachOK
<1>4. ASSUME NEW t \in Tracepoints, NEW f \in Fields, Fire(t, f) PROVE ProbesInv'
  BY <1>4, FireOK
<1>5. CASE firing.active /\ VmStep /\ UNCHANGED regVars
  BY <1>5, VmOK
<1>6. CASE Conclude
  BY <1>6, ConcludeOK
<1> QED
  BY <1>1, <1>2, <1>3, <1>4, <1>5, <1>6 DEF Next

\* What is attached, queued or running passed the verifier, and the run stands at an
\* instruction that can be reached, whatever the host does inside onLog.
THEOREM InvHolds == Spec => []ProbesInv
  BY InitInv, InvStep, PTL DEF Spec
-----------------------------------------------------------------------------
\* A program that passed verifyProgram() never leaves its instructions, with any
\* program, any event, any budget and any maps, whatever the host does in onLog.
THEOREM ProgramsStayInside == Spec => []StaysInProgram
<1>1. ProbesInv => StaysInProgram
  BY Checked DEF ProbesInv, RunOK, StaysInProgram, Starts, Insn
<1> QED
  BY <1>1, InvHolds, PTL

\* Every probe of every fire() reads the event that was fired, and its own stack.
THEOREM ProbesSeeTheEvent == Spec => []RunsOnTheEvent
<1>1. ProbesInv => RunsOnTheEvent
  BY DEF ProbesInv
<1> QED
  BY <1>1, InvHolds, PTL
-----------------------------------------------------------------------------
(* Which probes a call of fire() runs.                                       *)

Runnings == [id : Nat, vetoed : BOOLEAN]
Called(ran) == {ran[i].id : i \in DOMAIN ran}

\* An id is that of one probe, and the next one is of none.
IdsAreUnique ==
    /\ probeCounter \in Nat
    /\ \A p \in probes : p.id <= probeCounter
    /\ \A p, q \in probes : p.id = q.id => p = q

\* While fire() runs, none has vetoed, and those called and those to come are its
\* roster, the former before the latter.
FireIsUnderWay ==
    /\ firing.verdict = None
    /\ firing.ran \in Seq(Runnings)
    /\ \A i \in DOMAIN firing.ran : ~firing.ran[i].vetoed
    /\ \A i, j \in DOMAIN firing.ran : i < j => firing.ran[i].id < firing.ran[j].id
    /\ \A i \in DOMAIN firing.ran : \A p \in firing.todo : firing.ran[i].id < p.id
    /\ \A p, q \in firing.todo : p.id = q.id => p = q
    /\ firing.roster = Called(firing.ran) \cup Ids(firing.todo)

FireInv ==
    /\ ProbesInv /\ IdsAreUnique
    /\ IF firing.active THEN FireIsUnderWay ELSE CalledInOrder

LEMMA CalledIsRange == \A ran : Ids(Range(ran)) = Called(ran)
  BY DEF Ids, Range, Called

\* What is under way is as attached so far.
LEMMA UnderWayIsAsAttached ==
    ASSUME ProbesInv, firing.active, FireIsUnderWay
    PROVE  CalledInOrder
<1>1. /\ firing.ran \in Seq(Runnings) /\ firing.todo \subseteq Attached
      /\ \A i \in DOMAIN firing.ran : firing.ran[i] \in Runnings
  BY ElementOfSeq, LenProperties DEF FireIsUnderWay, ProbesInv, ProbesOK
<1>2. /\ \A i \in DOMAIN firing.ran : firing.ran[i].id \in Nat
      /\ \A p \in firing.todo : p.id \in Nat
  BY <1>1 DEF Runnings, Attached
<1>3. Called(firing.ran) \subseteq firing.roster
  BY DEF FireIsUnderWay
<1>4. ASSUME NEW i \in DOMAIN firing.ran, NEW id \in firing.roster, id < firing.ran[i].id
      PROVE  id \in Called(firing.ran)
  <2>1. ASSUME id \in Ids(firing.todo) PROVE FALSE
    <3>1. PICK p \in firing.todo : p.id = id
      BY <2>1 DEF Ids
    <3>2. firing.ran[i].id < p.id
      BY DEF FireIsUnderWay
    <3> QED
      BY <1>2, <1>4, <3>1, <3>2
  <2> QED
    BY <2>1 DEF FireIsUnderWay
<1>5. \A i \in DOMAIN firing.ran : firing.verdict # firing.ran[i].id
  BY <1>2, NoneAssumption DEF FireIsUnderWay
<1> QED
  BY <1>3, <1>4, <1>5, CalledIsRange DEF CalledInOrder, FireIsUnderWay

LEMMA FireInit == Init => FireInv
<1> SUFFICES ASSUME Init PROVE FireInv
  OBVIOUS
<1>1. firing = NotFired /\ probes = {} /\ probeCounter = 0
  BY DEF Init
<1>2. ~firing.active /\ firing.ran = <<>> /\ firing.roster = {}
  BY <1>1 DEF NotFired
<1>3. Called(firing.ran) = {} /\ DOMAIN firing.ran = {} /\ firing.verdict = None
  BY <1>1, <1>2 DEF Called, NotFired
<1>4. CalledInOrder
  BY <1>2, <1>3, CalledIsRange DEF CalledInOrder
<1> QED
  BY <1>1, <1>2, <1>4, InitInv DEF FireInv, IdsAreUnique

LEMMA FireAttaches ==
    ASSUME FireInv, NEW o \in menu, Attach(o)
    PROVE  IdsAreUnique' /\ firing' = firing
<1> DEFINE new == [id |-> probeCounter + 1, options |-> o]
<1>1. /\ probes' = IF Verified(o.program) THEN probes \cup {new} ELSE probes
      /\ probeCounter' = probeCounter + 1 /\ firing' = firing
  BY DEF Attach
<1>2. new.id = probeCounter + 1
  OBVIOUS
<1> HIDE DEF new
<1>3. probeCounter \in Nat /\ \A p \in probes : p.id \in Nat /\ p.id <= probeCounter
  BY DEF FireInv, IdsAreUnique, ProbesInv, ProbesOK, Attached
<1>4. \A p \in probes' : p \in probes \/ p = new
  BY <1>1
<1>5. \A p \in probes : p.id # new.id
  BY <1>2, <1>3
<1>6. \A p \in probes' : p.id <= probeCounter'
  BY <1>1, <1>2, <1>3, <1>4
<1>7. \A p, q \in probes' : p.id = q.id => p = q
  BY <1>4, <1>5 DEF FireInv, IdsAreUnique
<1> QED
  BY <1>1, <1>3, <1>6, <1>7 DEF IdsAreUnique

\* fire() begins with all of its roster to come.
LEMMA FireBegins ==
    ASSUME FireInv, NEW t \in Tracepoints, NEW f \in Fields, Fire(t, f)
    PROVE  firing'.active /\ FireIsUnderWay' /\ IdsAreUnique'
<1> DEFINE matching == Matching(t)
           ids == Ids(matching)
<1>1. /\ firing' = [NotFired EXCEPT !.active = TRUE, !.tracepoint = t,
                                    !.todo = matching, !.roster = ids,
                                    !.fields = f]
      /\ UNCHANGED <<probes, probeCounter>> /\ matching \subseteq probes
  BY DEF Fire, Matching
<1> HIDE DEF ids, matching
<1>2. /\ firing'.active /\ firing'.todo = matching /\ firing'.roster = ids
      /\ firing'.ran = <<>> /\ firing'.verdict = None
  BY <1>1 DEF NotFired
<1>3. Called(firing'.ran) = {} /\ DOMAIN firing'.ran = {} /\ firing'.ran \in Seq(Runnings)
  BY <1>2, EmptySeq DEF Called
<1>4. \A p, q \in matching : p.id = q.id => p = q
  BY <1>1 DEF FireInv, IdsAreUnique
<1>5. firing'.roster = Called(firing'.ran) \cup Ids(firing'.todo)
  BY <1>2, <1>3 DEF ids
<1> QED
  BY <1>1, <1>2, <1>3, <1>4, <1>5 DEF FireIsUnderWay, FireInv, IdsAreUnique

\* One more probe was called: what that makes of the ones called.
LEMMA OneMoreCalled ==
    ASSUME NEW ran \in Seq(Runnings), NEW e \in Runnings
    PROVE  /\ Append(ran, e) \in Seq(Runnings) /\ Len(ran) \in Nat
           /\ DOMAIN ran = 1..Len(ran) /\ DOMAIN Append(ran, e) = 1..(Len(ran) + 1)
           /\ \A i \in 1..Len(ran) : Append(ran, e)[i] = ran[i] /\ ran[i] \in Runnings
           /\ Append(ran, e)[Len(ran) + 1] = e
           /\ Called(Append(ran, e)) = Called(ran) \cup {e.id}
<1> DEFINE longer == Append(ran, e)
           n == Len(ran)
<1>1. /\ longer \in Seq(Runnings) /\ n \in Nat
      /\ DOMAIN ran = 1..n /\ DOMAIN longer = 1..(n + 1)
      /\ \A i \in 1..n : longer[i] = ran[i] /\ ran[i] \in Runnings
      /\ longer[n + 1] = e
  BY AppendProperties, LenProperties, ElementOfSeq
<1> HIDE DEF longer, n
<1>2. \A i : i \in 1..(n + 1) <=> i \in 1..n \/ i = n + 1
  BY <1>1
<1>3. \A id : (\E i \in DOMAIN longer : id = longer[i].id) <=>
                 (\E i \in DOMAIN ran : id = ran[i].id) \/ id = e.id
  BY <1>1, <1>2
<1>4. Called(longer) = Called(ran) \cup {e.id}
  BY <1>3 DEF Called
<1> QED
  BY <1>1, <1>4 DEF longer, n

\* The run of the first probe is over.
LEMMA FireConcludes ==
    ASSUME FireInv, Conclude
    PROVE  IF firing'.active THEN FireIsUnderWay' ELSE CalledInOrder'
<1> DEFINE p == First(firing.todo)
           v == Vetoes
           e == [id |-> p.id, vetoed |-> v]
           ran == Append(firing.ran, e)
           n == Len(firing.ran)
           rest == firing.todo \ {p}
           verdict == IF v THEN p.id ELSE None
<1>1. /\ firing.active /\ FireIsUnderWay /\ firing.todo \subseteq Attached
      /\ firing.todo # {} /\ DOMAIN firing = DOMAIN NotFired
      /\ firing.ran \in Seq(Runnings) /\ firing.verdict = None
  BY DEF FireInv, FireIsUnderWay, Conclude, ProbesInv, ProbesOK
<1>2. /\ p \in firing.todo /\ \A q \in firing.todo : p.id <= q.id
      /\ p.id \in Nat /\ \A q \in firing.todo : q.id \in Nat
  BY <1>1, FirstAttached DEF Attached
<1>3. v \in BOOLEAN
  BY DEF Vetoes
<1>4. IF v \/ rest = {}
      THEN firing' = [firing EXCEPT !.active = FALSE, !.todo = {}, !.ran = ran,
                                    !.verdict = verdict]
      ELSE firing' = [firing EXCEPT !.todo = rest, !.ran = ran]
  BY DEF Conclude, Remaining
<1> HIDE DEF p, v
<1>5. e \in Runnings /\ e.id = p.id /\ e.vetoed = v
  BY <1>2, <1>3 DEF Runnings
<1> HIDE DEF e
<1>6. /\ ran \in Seq(Runnings) /\ n \in Nat
      /\ DOMAIN firing.ran = 1..n /\ DOMAIN ran = 1..(n + 1)
      /\ \A i \in 1..n : ran[i] = firing.ran[i] /\ ran[i] \in Runnings
      /\ ran[n + 1] = e /\ Called(ran) = Called(firing.ran) \cup {p.id}
  BY <1>1, <1>5, OneMoreCalled
<1> HIDE DEF ran, n
<1>7. \A i \in 1..(n + 1) : /\ i \in 1..n \/ i = n + 1
                            /\ i \in 1..n => i < n + 1 /\ i # n + 1
  BY <1>6
<1>8. \A i \in 1..n : ran[i].id \in Nat /\ ran[i].id < p.id /\ ~ran[i].vetoed
  BY <1>1, <1>2, <1>6 DEF FireIsUnderWay, Runnings
<1>9. \A i, j \in 1..(n + 1) : i < j => ran[i].id < ran[j].id
  <2> SUFFICES ASSUME NEW i \in 1..(n + 1), NEW j \in 1..(n + 1), i < j
               PROVE  ran[i].id < ran[j].id
    OBVIOUS
  <2>1. i \in 1..n
    BY <1>6
  <2>2. CASE j \in 1..n
    BY <1>1, <1>6, <2>1, <2>2 DEF FireIsUnderWay
  <2>3. CASE j = n + 1
    BY <1>5, <1>6, <1>8, <2>1, <2>3
  <2> QED
    BY <1>7, <2>2, <2>3
<1>10. \A q \in rest : q \in firing.todo /\ p.id < q.id
  BY <1>1, <1>2 DEF FireIsUnderWay
<1>11. firing.roster = Called(ran) \cup Ids(rest)
  <2>1. Ids(firing.todo) = {p.id} \cup Ids(rest)
    BY <1>2 DEF Ids
  <2> QED
    BY <1>1, <1>6, <2>1 DEF FireIsUnderWay
<1>12. CASE v \/ rest = {}
  <2>1. /\ ~firing'.active /\ firing'.ran = ran /\ firing'.verdict = verdict
        /\ firing'.roster = firing.roster
    <3> HIDE DEF verdict
    <3> QED BY <1>1, <1>4, <1>12 DEF NotFired
  <2>2. \A i \in 1..(n + 1), id \in firing.roster : id < ran[i].id => id \in Called(ran)
    <3> SUFFICES ASSUME NEW i \in 1..(n + 1), NEW id \in Ids(rest), id < ran[i].id
                 PROVE  FALSE
      BY <1>11
    <3>1. id \in Nat /\ p.id < id
      BY <1>2, <1>10 DEF Ids
    <3>2. ran[i].id \in Nat /\ ran[i].id <= p.id
      BY <1>2, <1>5, <1>6, <1>7, <1>8
    <3> QED
      BY <1>2, <3>1, <3>2
  <2>3. ASSUME NEW i \in 1..(n + 1)
        PROVE  ran[i].vetoed <=> i = n + 1 /\ verdict = ran[i].id
    <3>1. CASE i \in 1..n
      BY <1>6, <1>7, <1>8, <3>1
    <3>2. CASE i = n + 1
      BY <1>2, <1>3, <1>5, <1>6, <3>2, NoneAssumption
    <3> QED
      BY <1>7, <3>1, <3>2
  <2>4. verdict = None => Called(ran) = firing.roster
    <3>1. verdict = None => ~v
      BY <1>2, NoneAssumption
    <3> QED
      BY <1>11, <1>12, <3>1 DEF Ids
  <2>5. Len(ran) = n + 1 /\ ran # <<>>
    BY <1>6, LenProperties
  <2>verdict. verdict # None => verdict = ran[Len(ran)].id
    BY <1>5, <1>6, <2>5
  <2> HIDE DEF verdict, rest
  <2>6. CalledInOrder'
    BY <1>6, <1>9, <1>11, <2>1, <2>2, <2>3, <2>4, <2>5, <2>verdict, CalledIsRange DEF CalledInOrder
  <2> QED
    BY <2>1, <2>6
<1>13. CASE ~(v \/ rest = {})
  <2>1. /\ firing'.active /\ firing'.ran = ran /\ firing'.verdict = None
        /\ firing'.roster = firing.roster /\ firing'.todo = rest
    <3> HIDE DEF rest
    <3> QED BY <1>1, <1>4, <1>13 DEF NotFired
  <2>2. \A i \in 1..(n + 1) : ~ran[i].vetoed
    BY <1>5, <1>6, <1>7, <1>8, <1>13
  <2>3. \A i \in 1..(n + 1), q \in rest : ran[i].id < q.id
    <3> SUFFICES ASSUME NEW i \in 1..(n + 1), NEW q \in rest PROVE ran[i].id < q.id
      OBVIOUS
    <3>1. p.id < q.id /\ q.id \in Nat /\ p.id \in Nat
      BY <1>2, <1>10
    <3>2. ran[i].id \in Nat /\ ran[i].id <= p.id
      BY <1>2, <1>5, <1>6, <1>7, <1>8
    <3> QED
      BY <3>1, <3>2
  <2>4. \A q, s \in rest : q.id = s.id => q = s
    BY <1>1, <1>10 DEF FireIsUnderWay
  <2> HIDE DEF rest
  <2>5. FireIsUnderWay'
    BY <1>6, <1>9, <1>11, <2>1, <2>2, <2>3, <2>4 DEF FireIsUnderWay
  <2> QED
    BY <2>1, <2>5
<1> QED
  BY <1>12, <1>13

LEMMA FireStep == FireInv /\ [Next]_vars => FireInv'
<1> SUFFICES ASSUME FireInv, [Next]_vars PROVE FireInv'
  OBVIOUS
<1>1. ProbesInv'
  BY InvStep DEF FireInv
<1>same. ASSUME firing' = firing, IdsAreUnique' PROVE FireInv'
  BY <1>1, <1>same DEF FireInv, FireIsUnderWay, CalledInOrder
<1>ids. ASSUME probes' \subseteq probes, probeCounter' = probeCounter PROVE IdsAreUnique'
  BY <1>ids DEF FireInv, IdsAreUnique
<1>2. CASE UNCHANGED vars \/ (VmStep /\ UNCHANGED regVars)
  BY <1>2, <1>same, <1>ids DEF vars, regVars
<1>3. ASSUME NEW o \in menu, Attach(o) PROVE FireInv'
  BY <1>3, <1>same, FireAttaches
<1>4. ASSUME NEW id \in Ids(probes), Detach(id) PROVE FireInv'
  <2>1. probes' \subseteq probes /\ UNCHANGED <<probeCounter, firing>>
    BY <1>4 DEF Detach
  <2> QED
    BY <2>1, <1>same, <1>ids
<1>5. ASSUME NEW t \in Tracepoints, NEW f \in Fields, Fire(t, f) PROVE FireInv'
  BY <1>1, <1>5, FireBegins DEF FireInv
<1>6. CASE Conclude
  <2>1. IdsAreUnique'
    BY <1>6, <1>ids DEF Conclude
  <2> QED
    BY <1>1, <1>6, <2>1, FireConcludes DEF FireInv
<1> QED
  BY <1>2, <1>3, <1>4, <1>5, <1>6 DEF Next

\* Those called and those to come are the probes attached when fire() began, in the
\* order of their ids: the inductive invariant of the loop.
THEOREM FireInvariant == Spec => []FireInv
  BY FireInit, FireStep, PTL DEF Spec

\* At every tracepoint, fire() runs the probes that were attached when it began, each
\* once and in order, up to the first veto, whatever their programs do and the host
\* does in onLog.
THEOREM FireCallsInOrder == Spec => []CalledInOrder
<1>1. FireInv => CalledInOrder
  BY UnderWayIsAsAttached DEF FireInv
<1> QED
  BY <1>1, FireInvariant, PTL

\* A run is admitted as the probes attached to run:start when it was asked for say,
\* whatever their programs do and the host does in onLog.
THEOREM FiresInOrder == Spec => []FiresAsAttached
<1>1. CalledInOrder => FiresAsAttached
  BY DEF FiresAsAttached
<1> QED
  BY <1>1, FireCallsInOrder, PTL

\* Without a veto every probe attached when fire() began sees the event, whatever
\* the programs do and the host does in onLog.
THEOREM ObserversMissNoEvent == Spec => []ObserversRunUnlessOneVetoes
<1>1. ASSUME CalledInOrder, ~firing.active, Ids(Range(firing.ran)) # firing.roster
      PROVE  \E i \in DOMAIN firing.ran : /\ firing.ran[i].vetoed
                                           /\ firing.verdict = firing.ran[i].id
  BY <1>1 DEF CalledInOrder
<1>2. CalledInOrder => ObserversRunUnlessOneVetoes
  BY <1>1 DEF ObserversRunUnlessOneVetoes
<1> QED
  BY <1>2, FireCallsInOrder, PTL
-----------------------------------------------------------------------------
(* What a run may use up: its steps, and the room of its maps.               *)

\* A run counts its steps up to one more than its budget, with which it ends, and
\* which never is above the limit of all; the host is asked to trace within it only.
StepsOK ==
    /\ vm.budget \in 0..MaxInstructions /\ vm.steps \in Nat
    /\ vm.status \in {"idle", "running", "tracing"} \cup Ended
    /\ vm.steps <= vm.budget + 1
    /\ vm.status \in {"idle", "running"} => vm.steps <= vm.budget
    /\ vm.status = "tracing" => vm.steps < vm.budget

MapsHaveRoom ==
    \A fd \in DOMAIN maps :
        IsFiniteSet(DOMAIN maps[fd]) /\ Cardinality(DOMAIN maps[fd]) <= MaxEntries

\* What is left to the run: two for each step, one of them for its trace.
StepsLeft == 2 * (vm.budget + 1 - vm.steps) + (IF vm.status = "running" THEN 1 ELSE 0)

UseInv == ProbesInv /\ StepsOK /\ MapsHaveRoom /\ IsFiniteSet(probes) /\ IsFiniteSet(firing.todo)

LEMMA LeftIsNat == StepsOK => StepsLeft \in Nat
<1> SUFFICES ASSUME StepsOK PROVE StepsLeft \in Nat
  OBVIOUS
<1>1. vm.budget + 1 - vm.steps \in Nat
  BY DEF StepsOK
<1> QED
  BY <1>1 DEF StepsLeft

\* A run that stops has taken one step more.
LEMMA StopUses ==
    ASSUME RunOK, StepsOK, vm.status = "running", NEW how \in Ended, Stop(how)
    PROVE  StepsOK' /\ StepsLeft' < StepsLeft
<1>1. vm' = [vm EXCEPT !.steps = @ + 1, !.status = how]
  BY DEF Stop
<1>2. how \notin {"idle", "running", "tracing"}
  BY DEF Ended, Faults
<1>3. vm'.steps = vm.steps + 1 /\ vm'.status = how /\ vm'.budget = vm.budget
  BY <1>1 DEF RunOK, RunFields
<1> QED
  BY <1>2, <1>3 DEF StepsOK, StepsLeft

\* So has one that goes on.
LEMMA ContinueUses ==
    ASSUME RunOK, StepsOK, NEW pc, Continue(pc),
           Executing \/ vm.status = "tracing"
    PROVE  StepsOK' /\ StepsLeft' < StepsLeft
<1>1. vm' = [vm EXCEPT !.pc = pc, !.steps = @ + 1, !.status = "running"]
  BY DEF Continue
<1>2. vm'.steps = vm.steps + 1 /\ vm'.status = "running" /\ vm'.budget = vm.budget
  BY <1>1 DEF RunOK, RunFields
<1>3. vm.steps < vm.budget
  BY DEF Executing, StepsOK
<1> QED
  BY <1>2, <1>3 DEF StepsOK, StepsLeft

\* A map takes a new key only while it has room for it.
LEMMA PutKeepsRoom ==
    ASSUME NEW m, NEW k, NEW v,
           IsFiniteSet(DOMAIN m), Cardinality(DOMAIN m) <= MaxEntries
    PROVE  /\ IsFiniteSet(DOMAIN Put(m, k, v))
           /\ Cardinality(DOMAIN Put(m, k, v)) <= MaxEntries
<1>1. Cardinality(DOMAIN m) \in Nat /\ MaxEntries \in Nat
  BY FS_CardinalityType, MaxEntriesAssumption
<1>2. CASE ~HasRoom(m, k)
  BY <1>2 DEF Put
<1>3. CASE HasRoom(m, k)
  <2>1. DOMAIN Put(m, k, v) = DOMAIN m \cup {k}
    BY <1>3 DEF Put
  <2>2. /\ IsFiniteSet(DOMAIN m \cup {k})
        /\ Cardinality(DOMAIN m \cup {k}) =
              IF k \in DOMAIN m THEN Cardinality(DOMAIN m) ELSE Cardinality(DOMAIN m) + 1
    BY FS_AddElement
  <2> QED
    BY <1>1, <1>3, <2>1, <2>2 DEF HasRoom
<1> QED
  BY <1>2, <1>3

LEMMA CallMapKeepsRoom ==
    ASSUME MapsHaveRoom, CallMap
    PROVE  MapsHaveRoom'
<1> DEFINE fd == regs[1] + 1
<1>1. CASE UNCHANGED maps
  BY <1>1 DEF MapsHaveRoom
<1>2. ASSUME NEW v, maps' = [maps EXCEPT ![fd] = Put(@, regs[2], v)]
      PROVE  MapsHaveRoom'
  <2>1. DOMAIN maps' = DOMAIN maps
    BY <1>2
  <2>2. ASSUME NEW f \in DOMAIN maps
        PROVE  maps'[f] = maps[f] \/ maps'[f] = Put(maps[f], regs[2], v)
    BY <1>2
  <2> QED
    BY <2>1, <2>2, PutKeepsRoom DEF MapsHaveRoom
<1>3. \/ UNCHANGED maps
      \/ \E v : maps' = [maps EXCEPT ![fd] = Put(@, regs[2], v)]
  BY DEF CallMap, Stop, Add
<1> QED
  BY <1>1, <1>2, <1>3

\* Every step of the interpreter uses some of what is left to the run.
LEMMA VmStepUses ==
    ASSUME RunOK, StepsOK, MapsHaveRoom, VmStep
    PROVE  StepsOK' /\ StepsLeft' < StepsLeft /\ MapsHaveRoom'
<1> DEFINE Goal == StepsOK' /\ StepsLeft' < StepsLeft
<1>stop. ASSUME vm.status = "running", NEW how \in Ended, Stop(how) PROVE Goal
  BY <1>stop, StopUses
<1>go. ASSUME Executing \/ vm.status = "tracing", NEW pc, Continue(pc) PROVE Goal
  BY <1>go, ContinueUses
<1>ended. {"limit", "bounds", "readonly", "nomap", "register", "returned"} \subseteq Ended
  BY DEF Ended, Faults
<1>1. CASE OutOfSteps
  BY <1>1, <1>stop, <1>ended DEF OutOfSteps, MapsHaveRoom, Stop
<1>2. CASE Arithmetic
  BY <1>2, <1>go DEF Arithmetic, MapsHaveRoom
<1>3. CASE Jump
  <2>1. Executing /\ vm.status = "running"
    BY <1>3 DEF Jump, Executing
  <2>2. Stop("register") \/ \E pc : Continue(pc) /\ UNCHANGED maps
    BY <1>3 DEF Jump
  <2> QED
    BY <2>1, <2>2, <1>go, <1>stop, <1>ended DEF MapsHaveRoom, Stop
<1>4. CASE CallMap
  <2>1. Executing /\ vm.status = "running"
    BY <1>4 DEF CallMap, Calls, Executing
  <2>2. Stop("nomap") \/ Continue(vm.pc + 1)
    BY <1>4 DEF CallMap
  <2> QED
    BY <1>4, <2>1, <2>2, <1>go, <1>stop, <1>ended, CallMapKeepsRoom
<1>5. CASE CallTime
  BY <1>5, <1>go DEF CallTime, Calls, MapsHaveRoom
<1>6. CASE CallTrace
  <2>1. /\ vm' = [vm EXCEPT !.status = "tracing"] /\ UNCHANGED maps
        /\ vm.status = "running" /\ vm.steps < vm.budget
    BY <1>6 DEF CallTrace, Calls, Executing
  <2>2. vm'.steps = vm.steps /\ vm'.budget = vm.budget /\ vm'.status = "tracing"
    BY <2>1 DEF RunOK, RunFields
  <2> QED
    BY <2>1, <2>2 DEF StepsOK, StepsLeft, MapsHaveRoom
<1>7. CASE TraceReturns
  BY <1>7, <1>go DEF TraceReturns, MapsHaveRoom
<1>8. CASE Exit
  BY <1>8, <1>stop, <1>ended DEF Exit, Executing, MapsHaveRoom, Stop
<1>9. CASE LoadDoubleWord
  BY <1>9, <1>go DEF LoadDoubleWord, MapsHaveRoom
<1>10. CASE LoadMemory
  <2>1. Executing /\ vm.status = "running"
    BY <1>10 DEF LoadMemory, Executing
  <2>2. \/ Stop("bounds")
        \/ Continue(vm.pc + 1) /\ UNCHANGED maps
    BY <1>10 DEF LoadMemory, LoadFrom
  <2> QED
    BY <2>1, <2>2, <1>go, <1>stop, <1>ended DEF MapsHaveRoom, Stop
<1>11. CASE StoreMemory
  <2>1. Executing /\ vm.status = "running"
    BY <1>11 DEF StoreMemory, Executing
  <2>2. \/ \E how \in {"register", "readonly", "bounds"} : Stop(how)
        \/ Continue(vm.pc + 1) /\ UNCHANGED maps
    BY <1>11 DEF StoreMemory, Store, StoreOnStack
  <2> QED
    BY <2>1, <2>2, <1>go, <1>stop, <1>ended DEF MapsHaveRoom, Stop
<1> QED
  BY <1>1, <1>2, <1>3, <1>4, <1>5, <1>6, <1>7, <1>8, <1>9, <1>10, <1>11 DEF VmStep

\* A new run has all its steps left.
LEMMA RunHasSteps ==
    ASSUME NEW p \in Attached, Run(p)
    PROVE  StepsOK' /\ UNCHANGED maps
<1>1. Clamped(p.options.budget) \in 1..MaxInstructions
  BY MaxInstructionsAssumption DEF Attached, Options, Clamped
<1>2. vm' = [insns |-> p.options.program,
             budget |-> Clamped(p.options.budget),
             fds |-> p.options.fds, pc |-> 1, steps |-> 0, status |-> "running"]
  BY DEF Run, Load, NoRun
<1>3. vm'.status = "running" /\ vm'.steps = 0 /\ vm'.budget \in 1..MaxInstructions
  BY <1>1, <1>2
<1> QED
  BY <1>3, MaxInstructionsAssumption DEF StepsOK, Run

LEMMA UseInit == Init => UseInv
<1> SUFFICES ASSUME Init PROVE UseInv
  OBVIOUS
<1>1. ProbesInv
  BY InitInv
<1>2. StepsOK
  BY MaxInstructionsAssumption DEF Init, NoRun, StepsOK
<1>3. IsFiniteSet({}) /\ Cardinality({}) = 0
  BY FS_EmptySet
<1>4. MapsHaveRoom
  <2>1. /\ \A fd \in DOMAIN maps : maps[fd] = EmptyMap
        /\ DOMAIN EmptyMap = {}
    BY DEF Init, EmptyMap
  <2> QED
    BY <1>3, <2>1, MaxEntriesAssumption DEF MapsHaveRoom
<1>5. probes = {} /\ firing.todo = {}
  BY DEF Init, NotFired
<1> QED
  BY <1>1, <1>2, <1>3, <1>4, <1>5 DEF UseInv

\* When the run of a probe is over, so is the call, or there is one probe fewer.
LEMMA ConcludeUses ==
    ASSUME UseInv, Conclude
    PROVE  /\ StepsOK' /\ MapsHaveRoom' /\ IsFiniteSet(firing'.todo)
           /\ \/ ~firing'.active
              \/ Cardinality(firing'.todo) < Cardinality(firing.todo)
<1>1. /\ firing.todo \subseteq Attached /\ firing.todo # {}
      /\ DOMAIN firing = DOMAIN NotFired /\ IsFiniteSet(firing.todo)
  BY DEF UseInv, ProbesInv, ProbesOK, Conclude
<1>2. /\ First(firing.todo) \in firing.todo
      /\ Remaining \subseteq firing.todo
      /\ IsFiniteSet(Remaining)
      /\ Cardinality(Remaining) = Cardinality(firing.todo) - 1
      /\ Cardinality(firing.todo) \in Nat
  <2>1. First(firing.todo) \in firing.todo
    BY <1>1, FirstAttached
  <2> QED
    BY <1>1, <2>1, FS_RemoveElement, FS_CardinalityType DEF Remaining
<1>3. CASE Vetoes \/ Remaining = {}
  <2>1. PICK ran, verdict : firing' = [firing EXCEPT !.active = FALSE, !.todo = {},
                                                    !.ran = ran, !.verdict = verdict]
    BY <1>3 DEF Conclude
  <2>2. ~firing'.active /\ firing'.todo = {}
    BY <1>1, <2>1 DEF NotFired
  <2>3. vm' = NoRun /\ UNCHANGED maps
    BY <1>3 DEF Conclude
  <2>4. StepsOK'
    BY <2>3, MaxInstructionsAssumption DEF NoRun, StepsOK
  <2>5. MapsHaveRoom'
    BY <2>3 DEF UseInv, MapsHaveRoom
  <2> QED
    BY <2>2, <2>4, <2>5, FS_EmptySet
<1>4. CASE ~(Vetoes \/ Remaining = {})
  <2>1. PICK ran : firing' = [firing EXCEPT !.todo = Remaining, !.ran = ran]
    BY <1>4 DEF Conclude
  <2>2. firing'.todo = Remaining
    BY <1>1, <2>1 DEF NotFired
  <2>3. First(Remaining) \in Attached
    BY <1>1, <1>2, <1>4, FirstAttached
  <2>4. Run(First(Remaining))
    BY <1>4 DEF Conclude
  <2>5. StepsOK' /\ UNCHANGED maps
    BY <2>3, <2>4, RunHasSteps
  <2> QED
    BY <1>2, <2>2, <2>5 DEF UseInv, MapsHaveRoom
<1> QED
  BY <1>3, <1>4

LEMMA UseStep == UseInv /\ [Next]_vars => UseInv'
<1> SUFFICES ASSUME UseInv, [Next]_vars PROVE UseInv'
  OBVIOUS
<1>1. ProbesInv'
  BY InvStep DEF UseInv
<1>same. ASSUME UNCHANGED <<vm, maps>> PROVE StepsOK' /\ MapsHaveRoom'
  BY <1>same DEF UseInv, StepsOK, MapsHaveRoom
<1>2. CASE UNCHANGED vars
  BY <1>1, <1>2, <1>same DEF vars, vmVars, regVars, UseInv
<1>3. ASSUME NEW o \in menu, Attach(o) PROVE UseInv'
  <2> DEFINE new == [id |-> probeCounter + 1, options |-> o]
  <2>1. probes' = IF Verified(o.program) THEN probes \cup {new} ELSE probes
    BY <1>3 DEF Attach
  <2>2. IsFiniteSet(probes \cup {new})
    BY FS_AddElement DEF UseInv
  <2>3. UNCHANGED <<vm, maps, firing>>
    BY <1>3 DEF Attach, vmVars
  <2> HIDE DEF new
  <2> QED
    BY <1>1, <1>same, <2>1, <2>2, <2>3 DEF UseInv
<1>4. ASSUME NEW id \in Ids(probes), Detach(id) PROVE UseInv'
  <2>1. probes' \subseteq probes /\ UNCHANGED <<vm, maps, firing>>
    BY <1>4 DEF Detach, vmVars
  <2> QED
    BY <1>1, <1>same, <2>1, FS_Subset DEF UseInv
<1>5. ASSUME NEW t \in Tracepoints, NEW f \in Fields, Fire(t, f) PROVE UseInv'
  <2> DEFINE matching == Matching(t)
  <2>1. matching \subseteq probes /\ matching \subseteq Attached /\ matching # {}
    BY <1>5 DEF Fire, Matching, UseInv, ProbesInv, ProbesOK
  <2>2. /\ Run(First(matching)) /\ probes' = probes
        /\ firing' = [NotFired EXCEPT !.active = TRUE, !.tracepoint = t,
                                      !.todo = matching, !.roster = Ids(matching),
                                      !.fields = f]
    BY <1>5 DEF Fire
  <2> HIDE DEF matching
  <2>3. firing'.todo = matching
    BY <2>2 DEF NotFired
  <2>4. First(matching) \in Attached
    BY <2>1, FirstAttached
  <2>5. StepsOK' /\ UNCHANGED maps
    BY <2>2, <2>4, RunHasSteps
  <2>6. IsFiniteSet(matching)
    BY <2>1, FS_Subset DEF UseInv
  <2> QED
    BY <1>1, <2>2, <2>3, <2>5, <2>6 DEF UseInv, MapsHaveRoom
<1>6. CASE firing.active /\ VmStep /\ UNCHANGED regVars
  <2>1. UNCHANGED <<probes, firing>>
    BY <1>6 DEF regVars
  <2> QED
    BY <1>1, <1>6, <2>1, VmStepUses DEF UseInv, ProbesInv
<1>7. CASE Conclude
  <2>1. UNCHANGED probes
    BY <1>7 DEF Conclude
  <2> QED
    BY <1>1, <1>7, <2>1, ConcludeUses DEF UseInv
<1> QED
  BY <1>2, <1>3, <1>4, <1>5, <1>6, <1>7 DEF Next

\* A run counts its steps within its budget, and no map holds more than its room:
\* the inductive invariant of what runs use up.
THEOREM UseInvariant == Spec => []UseInv
  BY UseInit, UseStep, PTL DEF Spec

\* However many programs share a map, and whatever keys they write, it never holds
\* more than MaxEntries of them.  (EbpfMap.set() and add(), as helpers call them.)
THEOREM MapsKeepTheirRoom == Spec => []MapsHaveRoom
<1>1. UseInv => MapsHaveRoom
  BY DEF UseInv
<1> QED
  BY <1>1, UseInvariant, PTL

\* Nothing but a step of the run, the end of one, or the host inside onLog happens
\* while fire() runs.  The first two bring it nearer to its return; the host leaves
\* it where it is.
NearsItsReturn ==
    /\ VmStep => StepsLeft' \in Nat /\ StepsLeft \in Nat /\ StepsLeft' < StepsLeft
    /\ Conclude => \/ ~firing'.active
                   \/ /\ IsFiniteSet(firing.todo)
                      /\ Cardinality(firing'.todo) < Cardinality(firing.todo)
    /\ firing.active => \/ VmStep /\ UNCHANGED firing
                        \/ Conclude
                        \/ UNCHANGED <<vm, firing>>

LEMMA StepNears == UseInv /\ UseInv' /\ [Next]_vars => [NearsItsReturn]_vars
<1> SUFFICES ASSUME UseInv, UseInv', Next PROVE NearsItsReturn
  OBVIOUS
<1>1. VmStep => StepsLeft' < StepsLeft
  BY VmStepUses DEF UseInv, ProbesInv
<1>2. StepsLeft \in Nat
  BY LeftIsNat DEF UseInv
<1>3. StepsOK' => StepsLeft' \in Nat
  <2>1. StepsOK' => (vm.budget + 1 - vm.steps)' \in Nat
    BY DEF StepsOK
  <2> QED
    BY <2>1 DEF StepsLeft
<1>4. firing.active => \/ VmStep /\ UNCHANGED firing
                       \/ Conclude
                       \/ UNCHANGED <<vm, firing>>
  BY DEF Next, Attach, Detach, Fire, vmVars, regVars
<1> QED
  BY <1>1, <1>2, <1>3, <1>4, ConcludeUses DEF UseInv, NearsItsReturn

\* Whatever the program and its budget, each step of a run leaves fewer steps to it
\* and each run that ends fewer probes to fire(): a descent without end there is not.
\* (The step count of run(), which counts jumps too, and the loop of fire().)
THEOREM FireNearsItsReturn == Spec => [][NearsItsReturn]_vars
  BY UseInvariant, StepNears, PTL DEF Spec
-----------------------------------------------------------------------------
(* The words and bytes of the machine.                                       *)

\* An unsigned number of w bits is below the w-th power of 2.
LEMMA UnsignedIsBelow ==
    ASSUME NEW w \in Nat, NEW x \in Int
    PROVE  Unsigned(w, x) \in 0..(Power(2, w) - 1)
<1>1. Power(2, w) \in Nat \ {0}
  BY Powers
<1>2. \A m \in Nat \ {0} : x % m \in 0..(m - 1)
  OBVIOUS
<1> QED
  BY <1>1, <1>2 DEF Unsigned

\* A byte has ByteBits bits, and 8 of them make a word, of which 4 make a half.
LEMMA Widths ==
    /\ Byte \in Nat \ {0} /\ Word \in Nat \ {0}
    /\ Power(2, 4 * ByteBits) \in Nat /\ Power(2, 4 * ByteBits) <= Word
    /\ Power(2, 4 * ByteBits) * Power(2, 4 * ByteBits) = Word
    /\ Power(2, 8 * ByteBits) = Word
    /\ \A size \in {1, 2, 4, 8} : Power(Byte, size) \in Nat /\ Power(Byte, size) <= Word
<1> DEFINE B == ByteBits
<1>1. B \in Nat \ {0} /\ Word = Power(2, 8 * B)
  BY ByteBitsAssumption
<1>2. /\ B + B = 2 * B /\ 2 * B + 2 * B = 4 * B /\ 4 * B + 4 * B = 8 * B
      /\ 2 * B \in Nat /\ 4 * B \in Nat /\ 8 * B \in Nat /\ B \in Nat
  BY <1>1
<1>3. Byte \in Nat \ {0} /\ Word \in Nat \ {0} /\ Byte = Power(2, B)
  <2>1. \A n \in Nat : Power(2, n) \in Nat \ {0}
    BY Powers
  <2> QED
    BY <1>1, <1>2, <2>1, WordAssumption DEF Byte
<1> HIDE DEF B
<1>4. /\ Power(2, 2 * B) = Byte * Byte
      /\ Power(2, 4 * B) = Power(2, 2 * B) * Power(2, 2 * B)
      /\ Power(2, 8 * B) = Power(2, 4 * B) * Power(2, 4 * B)
      /\ Power(2, 4 * B) <= Power(2, 8 * B) /\ Power(2, 4 * B) \in Nat
  <2>1. /\ Power(2, B + B) = Power(2, B) * Power(2, B)
        /\ Power(2, 2 * B + 2 * B) = Power(2, 2 * B) * Power(2, 2 * B)
        /\ Power(2, 4 * B + 4 * B) = Power(2, 4 * B) * Power(2, 4 * B)
        /\ Power(2, 4 * B) <= Power(2, 4 * B + 4 * B) /\ Power(2, 4 * B) \in Nat
    BY <1>2, Powers, PowersAddUp
  <2> QED
    BY <1>2, <1>3, <2>1
<1>5. /\ Power(Byte, 2) = Byte * Byte
      /\ Power(Byte, 4) = Power(Byte, 2) * Power(Byte, 2)
      /\ Power(Byte, 8) = Power(Byte, 4) * Power(Byte, 4)
      /\ Power(Byte, 1) <= Power(Byte, 8) /\ Power(Byte, 2) <= Power(Byte, 8)
      /\ Power(Byte, 4) <= Power(Byte, 8)
      /\ \A n \in Nat : Power(Byte, n) \in Nat
  <2>1. Power(Byte, 1) = Byte
    <3>1. Power(Byte, 0) = 1 /\ Power(Byte, 0 + 1) = Byte * Power(Byte, 0)
      BY <1>3, Powers
    <3>2. Byte * 1 = Byte /\ 0 + 1 = 1
      BY <1>3
    <3> QED
      BY <3>1, <3>2
  <2>2. ASSUME NEW m \in Nat, NEW n \in Nat, NEW k \in Nat, k = m + n
        PROVE  /\ Power(Byte, k) = Power(Byte, m) * Power(Byte, n)
               /\ Power(Byte, m) <= Power(Byte, k)
    <3>1. /\ Power(Byte, m + n) = Power(Byte, m) * Power(Byte, n)
          /\ Power(Byte, m) <= Power(Byte, m + n)
      BY ZenonT(30), <1>3, PowersAddUp
    <3> QED
      BY <2>2, <3>1
  <2>3. /\ Power(Byte, 2) = Power(Byte, 1) * Power(Byte, 1)
        /\ Power(Byte, 4) = Power(Byte, 2) * Power(Byte, 2)
        /\ Power(Byte, 8) = Power(Byte, 4) * Power(Byte, 4)
        /\ Power(Byte, 4) <= Power(Byte, 8)
    BY <2>2, 2 = 1 + 1, 4 = 2 + 2, 8 = 4 + 4
  <2>5. Power(Byte, 1) <= Power(Byte, 8) /\ Power(Byte, 2) <= Power(Byte, 8)
    BY <2>2, 8 = 1 + 7, 8 = 2 + 6
  <2>4. \A n \in Nat : Power(Byte, n) \in Nat
    BY <1>3, Powers
  <2> QED
    BY <2>1, <2>3, <2>4, <2>5
<1>6. Power(Byte, 8) = Word
  BY <1>1, <1>4, <1>5
<1> QED
  BY <1>1, <1>3, <1>4, <1>5, <1>6 DEF B

\* Either width of an operation is that of a word or of half a word.
LEMMA WidthFits ==
    ASSUME NEW cls
    PROVE  /\ Width(cls) \in Nat \ {0}
           /\ \A x \in Int : Unsigned(Width(cls), x) \in Words
<1>1. Width(cls) \in {4 * ByteBits, 8 * ByteBits} /\ Width(cls) \in Nat \ {0}
  BY ByteBitsAssumption DEF Width
<1>2. Power(2, Width(cls)) \in Nat /\ Power(2, Width(cls)) <= Word /\ Word \in Nat
  BY <1>1, Widths
<1>3. ASSUME NEW x \in Int PROVE Unsigned(Width(cls), x) \in Words
  <2>1. Unsigned(Width(cls), x) \in 0..(Power(2, Width(cls)) - 1)
    BY <1>1, UnsignedIsBelow
  <2> QED
    BY <1>2, <2>1 DEF Words
<1> QED
  BY <1>1, <1>3

\* What an operation makes of its bits is a number.
LEMMA BitsMakeANumber ==
    ASSUME NEW table, NEW w \in Nat, NEW a, NEW b
    PROVE  OnBits(table, w, a, b) \in Int
<1> DEFINE bits == [i \in 0..(w - 1) |-> IF <<Bit(a, i), Bit(b, i)>> \in table THEN 1 ELSE 0]
<1>1. bits \in [0..(w - 1) -> 0..(2 - 1)]
  OBVIOUS
<1>2. Number(2, w, bits) \in 0..(Power(2, w) - 1)
  <2> HIDE DEF bits
  <2> QED BY SMTT(30), <1>1, Numbers
<1>3. Power(2, w) \in Int
  BY Powers
<1> QED
  BY <1>2, <1>3 DEF OnBits

\* An ALU operation the verifier lets through makes a word.
LEMMA AluMakesAWord ==
    ASSUME NEW cls, NEW op \in AluOps, NEW a \in Nat, NEW b \in Nat
    PROVE  Alu(op, Width(cls), a, b) \in Words
<1> DEFINE w == Width(cls)
           s == b % w
           Value == CASE op = "add" -> a + b
                      [] op = "sub" -> a - b
                      [] op = "mul" -> a * b
                      [] op = "div" -> IF b = 0 THEN 0 ELSE a \div b
                      [] op = "or" -> Or(w, a, b)
                      [] op = "and" -> And(w, a, b)
                      [] op = "lsh" -> a * Power(2, s)
                      [] op = "rsh" -> a \div Power(2, s)
                      [] op = "neg" -> -a
                      [] op = "mod" -> IF b = 0 THEN a ELSE a % b
                      [] op = "xor" -> Xor(w, a, b)
                      [] op = "mov" -> b
                      [] op = "arsh" -> Signed(w, a) \div Power(2, s)
<1>1. w \in Nat \ {0} /\ s \in Nat
  <2>1. w \in Nat \ {0}
    BY WidthFits
  <2>2. \A m \in Nat \ {0} : b % m \in Nat
    OBVIOUS
  <2> QED
    BY <2>1, <2>2
<1>2. Alu(op, w, a, b) = Unsigned(w, Value)
  BY DEF Alu
<1> HIDE DEF w, s
<1>3. Or(w, a, b) \in Int /\ And(w, a, b) \in Int /\ Xor(w, a, b) \in Int
  BY <1>1, BitsMakeANumber DEF Or, And, Xor
<1>4. Signed(w, a) \in Int
  <2>1. Unsigned(w, a) \in Int
    <3>1. Unsigned(w, a) \in 0..(Power(2, w) - 1)
      BY <1>1, UnsignedIsBelow
    <3> QED BY <3>1
  <2>2. Power(2, w) \in Int
    BY <1>1, Powers
  <2> QED
    BY <2>1, <2>2 DEF Signed
<1>5. Power(2, s) \in Nat \ {0}
  BY <1>1, Powers
<1>6. /\ a * Power(2, s) \in Int /\ a \div Power(2, s) \in Int
      /\ Signed(w, a) \div Power(2, s) \in Int
  <2>1. \A x \in Int, y \in Nat \ {0} : x * y \in Int /\ x \div y \in Int
    OBVIOUS
  <2> QED
    BY <1>4, <1>5, <2>1
<1>7. a + b \in Int /\ a - b \in Int /\ a * b \in Int /\ -a \in Int /\ a \in Int /\ b \in Int
  OBVIOUS
<1>8. b # 0 => a \div b \in Int /\ a % b \in Int
  OBVIOUS
<1>9. Value \in Int
  BY <1>3, <1>6, <1>7, <1>8, Zenon DEF AluOps
<1> HIDE DEF Value
<1> QED
  BY <1>2, <1>9, WidthFits DEF w

\* The machine's memory holds words and bytes, and so do the maps it can reach.
MemoryOK ==
    /\ regs \in [Registers -> Words] /\ stack \in [0..(StackSize - 1) -> Bytes]
    /\ Cardinality(DOMAIN ctx) \in Nat
    /\ ctx \in [0..(Cardinality(DOMAIN ctx) - 1) -> Bytes]
MapHoldsWords(m) == DOMAIN m \cup Range(m) \subseteq Words
MapsOK ==
    /\ DOMAIN maps = 1..MapCount /\ vm.fds \in 0..MapCount
    /\ \A fd \in DOMAIN maps : MapHoldsWords(maps[fd])

\* What the instruction at hand is made of.
LEMMA InsnIsDecoded ==
    ASSUME RunOK, vm.status \in {"running", "tracing"}
    PROVE  /\ Insn.src \in Registers /\ Insn.imm \in Int /\ Insn.off \in Int
           /\ Insn.size \in {1, 2, 4, 8} /\ Insn.dst \in Nat
           /\ Insn.cls \in {"ALU64", "ALU32"} => Insn.op \in AluOps
           /\ Insn.cls \in {"ALU64", "ALU32", "LDX", "LD"} => Insn.dst \in 0..9
           /\ Insn.cls = "LD" => vm.insns[vm.pc + 1].imm \in Int
<1>1. Sound(vm.insns) /\ vm.pc \in Starts(vm.insns)
  BY DEF RunOK
<1>2. /\ Insn \in Insns /\ CheckInsn(vm.insns, vm.pc) /\ Insn.op \notin {"bad", "slot"}
      /\ Insn.cls \in {"ALU64", "ALU32", "LDX", "LD"} => Insn.dst \in 0..9
      /\ Insn.cls = "LD" => Insn.op = "lddw"
  BY <1>1, Checked DEF Insn
<1>3. /\ Insn.src \in 0..15 /\ Insn.imm \in Int /\ Insn.off \in Int
      /\ Insn.size \in {1, 2, 4, 8} /\ Insn.dst \in Nat
      /\ Insn.op \in OpsOf(Insn.cls) \cup {"bad"}
  BY <1>2 DEF Insns, Decoded
<1>4. Insn.src \in Registers
  BY <1>2, <1>3 DEF CheckInsn, Insn, Registers
<1>5. Insn.cls \in {"ALU64", "ALU32"} => Insn.op \in AluOps
  BY <1>2, <1>3 DEF OpsOf
<1>6. ASSUME Insn.cls = "LD" PROVE vm.insns[vm.pc + 1].imm \in Int
  <2>1. vm.pc \in DOMAIN vm.insns /\ vm.insns \in Seq(Insns)
    BY <1>1 DEF Sound, Starts
  <2>2. vm.pc < Len(vm.insns)
    BY <1>1, <1>2, <1>6, <2>1 DEF Sound, Verified, Insn
  <2>3. vm.pc + 1 \in 1..Len(vm.insns)
    BY <2>1, <2>2
  <2>4. vm.insns[vm.pc + 1] \in Insns
    BY <2>1, <2>3
  <2> QED
    BY <2>4 DEF Insns, Decoded
<1> QED
  BY <1>2, <1>3, <1>4, <1>5, <1>6

\* An operand is a number.
LEMMA OperandIsANumber ==
    ASSUME RunOK, MemoryOK, vm.status = "running"
    PROVE  Operand \in Int
  BY InsnIsDecoded, WordAssumption DEF Operand, MemoryOK, Words

\* An arithmetic instruction makes a word.
LEMMA ArithmeticMakesAWord ==
    ASSUME RunOK, MemoryOK, vm.status = "running", Insn.cls \in {"ALU64", "ALU32"}
    PROVE  AluValue(Insn) \in Words
<1> DEFINE w == Width(Insn.cls)
<1>1. Insn.op \in AluOps /\ regs[Insn.dst] \in Int
  <2>1. Insn.op \in AluOps /\ Insn.dst \in Registers
    BY InsnIsDecoded DEF Registers
  <2> QED
    BY <2>1, WordAssumption DEF MemoryOK, Words
<1>2. Unsigned(w, regs[Insn.dst]) \in Nat /\ Unsigned(w, Operand) \in Nat
  BY <1>1, OperandIsANumber, WidthFits, WordAssumption DEF Words
<1> HIDE DEF w
<1>3. Alu(Insn.op, Width(Insn.cls), Unsigned(w, regs[Insn.dst]), Unsigned(w, Operand)) \in Words
  BY <1>1, <1>2, AluMakesAWord
<1> QED
  BY <1>3 DEF AluValue, w

\* Bytes that are read make a word.
LEMMA BytesMakeAWord ==
    ASSUME NEW n \in Int, NEW bytes \in [0..(n - 1) -> Bytes], NEW offset \in Int,
           NEW size \in {1, 2, 4, 8}, 0 <= offset, offset + size <= n
    PROVE  ReadBytes(bytes, offset, size) \in Words
<1> DEFINE d == [i \in 0..(size - 1) |-> bytes[offset + i]]
<1>1. d \in [0..(size - 1) -> 0..(Byte - 1)]
  BY DEF Bytes
<1>2. Number(Byte, size, d) \in 0..(Power(Byte, size) - 1)
  <2> HIDE DEF d
  <2> QED BY <1>1, Numbers, Widths
<1>3. Power(Byte, size) \in Nat /\ Power(Byte, size) <= Word /\ Word \in Nat
  BY Widths
<1> QED
  BY <1>2, <1>3 DEF ReadBytes, Words

\* What is written is bytes.
LEMMA WritesBytes ==
    ASSUME NEW n \in Int, NEW bytes \in [0..(n - 1) -> Bytes], NEW offset \in Int,
           NEW size \in {1, 2, 4, 8}, NEW value \in Int
    PROVE  WriteBytes(bytes, offset, size, value) \in [0..(n - 1) -> Bytes]
<1>1. ASSUME NEW i \in offset..(offset + size - 1)
      PROVE  (value \div Power(Byte, i - offset)) % Byte \in Bytes
  <2>1. i - offset \in Nat
    OBVIOUS
  <2>2. Power(Byte, i - offset) \in Nat \ {0} /\ Byte \in Nat \ {0}
    BY <2>1, Powers, Widths
  <2>3. \A y, b \in Nat \ {0} : (value \div y) % b \in 0..(b - 1)
    OBVIOUS
  <2> QED
    BY <2>2, <2>3 DEF Bytes
<1> QED
  BY <1>1 DEF WriteBytes

\* A map that takes a key and a value holds them as words.
LEMMA PutHoldsWords ==
    ASSUME NEW m, NEW k \in Words, NEW v \in Int, MapHoldsWords(m)
    PROVE  MapHoldsWords(Put(m, k, v))
<1>1. v % Word \in Words
  BY WordAssumption DEF Words
<1>2. \A x \in DOMAIN m : x \in Words /\ m[x] \in Words
  BY DEF MapHoldsWords, Range
<1>3. DOMAIN Put(m, k, v) \subseteq Words
  BY <1>2 DEF Put
<1>4. \A x \in DOMAIN Put(m, k, v) : Put(m, k, v)[x] \in Words
  BY <1>1, <1>2 DEF Put
<1> QED
  BY <1>3, <1>4 DEF MapHoldsWords, Range

LEMMA LookupIsAWord ==
    ASSUME NEW m, NEW k, MapHoldsWords(m)
    PROVE  Lookup(m, k) \in Words
  BY WordAssumption DEF Lookup, MapHoldsWords, Range, Words

\* The registers and the stack a run starts with.
LEMMA EntryHoldsWords ==
    AtEntry \in [Registers -> Words] /\ EmptyStack \in [0..(StackSize - 1) -> Bytes]
<1>1. CtxBase \in Words /\ StackTop \in Words /\ 0 \in Words
  BY LayoutAssumption, WordAssumption DEF Words, StackTop
<1>2. 0 \in Bytes
  BY Widths DEF Bytes
<1> QED
  BY <1>1, <1>2 DEF AtEntry, EmptyStack

\* An event is encoded in bytes.
LEMMA EventIsBytes ==
    ASSUME NEW f \in Seq(Int)
    PROVE  /\ Cardinality(DOMAIN Encoded(f)) = 8 * Len(f)
           /\ Encoded(f) \in [0..(8 * Len(f) - 1) -> Bytes]
<1> DEFINE n == 8 * Len(f)
<1>1. n \in Nat /\ DOMAIN Encoded(f) = 0..(n - 1)
  BY DEF Encoded
<1>2. Cardinality(0..(n - 1)) = n
  <2>1. Cardinality(0..(n - 1)) = IF 0 > n - 1 THEN 0 ELSE (n - 1) - 0 + 1
    <3>1. 0 \in Int /\ n - 1 \in Int
      BY <1>1
    <3> HIDE DEF n
    <3> QED BY <3>1, FS_Interval
  <2> QED
    BY <1>1, <2>1
<1>3. ASSUME NEW i \in 0..(n - 1)
      PROVE  (f[(i \div 8) + 1] \div Power(Byte, i % 8)) % Byte \in Bytes
  <2>1. (i \div 8) + 1 \in 1..Len(f) /\ i % 8 \in Nat
    OBVIOUS
  <2>2. f[(i \div 8) + 1] \in Int
    BY <2>1
  <2>3. Power(Byte, i % 8) \in Nat \ {0} /\ Byte \in Nat \ {0}
    BY <2>1, Powers, Widths
  <2>4. \A x \in Int, y, b \in Nat \ {0} : (x \div y) % b \in 0..(b - 1)
    OBVIOUS
  <2> QED
    BY <2>2, <2>3, <2>4 DEF Bytes
<1> QED
  BY <1>1, <1>2, <1>3 DEF Encoded

WordsOK == MemoryOK /\ MapsOK

\* What a run does leaves its maps to it.
LEMMA RunKeepsItsMaps ==
    ASSUME RunOK
    PROVE  /\ \A pc : Continue(pc) => vm'.fds = vm.fds
           /\ \A how : Stop(how) => vm'.fds = vm.fds
           /\ CallTrace => vm'.fds = vm.fds
  BY DEF Continue, Stop, CallTrace, RunOK, RunFields

LEMMA CallMapKeepsWords ==
    ASSUME RunOK, WordsOK, vm.status = "running", CallMap
    PROVE  WordsOK'
<1> DEFINE fd == regs[1] + 1
           key == regs[2]
<1>1. CASE regs[1] >= vm.fds
  BY <1>1, RunKeepsItsMaps DEF CallMap, Stop, WordsOK, MemoryOK, MapsOK
<1>2. CASE ~(regs[1] >= vm.fds)
  <2>1. regs[1] \in Words /\ key \in Words /\ regs[3] \in Words /\ \A r \in Registers : regs[r] \in Words
    BY DEF WordsOK, MemoryOK, Registers
  <2>2. fd \in DOMAIN maps /\ MapHoldsWords(maps[fd])
    <3>1. regs[1] \in Nat /\ vm.fds \in 0..MapCount
      BY <2>1, WordAssumption DEF Words, WordsOK, MapsOK
    <3> QED
      BY <1>2, <3>1, MapCountAssumption DEF WordsOK, MapsOK
  <2>3. /\ \A r \in Registers : r # 0 => AfterCall(0)[r] \in Words
        /\ \A v \in Words : AfterCall(v) \in [Registers -> Words]
    BY <2>1, WordAssumption DEF AfterCall, Words
  <2>4. /\ vm'.fds = vm.fds /\ UNCHANGED <<stack, ctx>>
    BY <1>2, RunKeepsItsMaps DEF CallMap
  <2>5. 0 \in Words /\ Word - 1 \in Words
    BY WordAssumption DEF Words
  <2>6. regs' \in [Registers -> Words]
    <3>1. Lookup(maps[fd], key) \in Words
      BY <2>2, LookupIsAWord
    <3>2. \E v \in Words : regs' = AfterCall(v)
      BY <1>2, <2>5, <3>1 DEF CallMap
    <3> QED
      BY <2>3, <3>2
  <2>7. ASSUME NEW v \in Int, maps' = [maps EXCEPT ![fd] = Put(@, key, v)]
        PROVE  MapsOK'
    <3>1. DOMAIN maps' = DOMAIN maps /\ MapHoldsWords(Put(maps[fd], key, v))
      BY <2>1, <2>2, <2>7, PutHoldsWords
    <3>2. ASSUME NEW f \in DOMAIN maps PROVE MapHoldsWords(maps'[f])
      <4>1. maps'[f] = IF f = fd THEN Put(maps[fd], key, v) ELSE maps[f]
        BY <2>7
      <4>2. MapHoldsWords(maps[f])
        BY DEF WordsOK, MapsOK
      <4> QED
        BY <3>1, <4>1, <4>2
    <3> QED
      BY <2>4, <3>1, <3>2 DEF WordsOK, MapsOK
  <2>8. \/ UNCHANGED maps
        \/ \E v \in Int : maps' = [maps EXCEPT ![fd] = Put(@, key, v)]
    <3>1. regs[3] \in Int /\ Lookup(maps[fd], key) + regs[3] \in Int
      BY <2>1, <2>2, LookupIsAWord, WordAssumption DEF Words
    <3>2. \/ UNCHANGED maps
          \/ maps' = [maps EXCEPT ![fd] = Put(@, key, regs[3])]
          \/ maps' = [maps EXCEPT ![fd] = Add(@, key, regs[3])]
      BY <1>2 DEF CallMap
    <3>3. [maps EXCEPT ![fd] = Add(@, key, regs[3])]
          = [maps EXCEPT ![fd] = Put(@, key, Lookup(maps[fd], key) + regs[3])]
      BY DEF Add
    <3> QED
      BY <3>1, <3>2, <3>3
  <2>9. MapsOK'
    BY <2>4, <2>7, <2>8 DEF WordsOK, MapsOK
  <2> QED
    BY <2>4, <2>6, <2>9 DEF WordsOK, MemoryOK
<1> QED
  BY <1>1, <1>2

LEMMA LoadKeepsWords ==
    ASSUME RunOK, WordsOK, vm.status = "running", LoadMemory
    PROVE  WordsOK'
<1> DEFINE addr == regs[Insn.src] + Insn.off
           size == Insn.size
           n == Cardinality(DOMAIN ctx)
<1>1. /\ Insn.cls = "LDX" /\ Insn.dst \in 0..9 /\ size \in {1, 2, 4, 8}
      /\ addr \in Int
  <2>1. Insn.cls = "LDX"
    BY DEF LoadMemory
  <2>2. regs[Insn.src] \in Int
    BY InsnIsDecoded, WordAssumption DEF WordsOK, MemoryOK, Words
  <2> QED
    BY <2>1, <2>2, InsnIsDecoded
<1>2. CASE Stop("bounds")
  BY <1>2, RunKeepsItsMaps DEF Stop, WordsOK, MemoryOK, MapsOK
<1>3. ASSUME NEW bytes, NEW offset, ReadBytes(bytes, offset, size) \in Words,
             LoadFrom(bytes, offset)
      PROVE  WordsOK'
  <2>1. regs' \in [Registers -> Words]
    BY <1>1, <1>3 DEF LoadFrom, SetReg, WordsOK, MemoryOK, Registers
  <2>2. vm'.fds = vm.fds /\ UNCHANGED <<stack, ctx, maps>>
    BY <1>3, RunKeepsItsMaps DEF LoadFrom
  <2> QED
    BY <2>1, <2>2 DEF WordsOK, MemoryOK, MapsOK
<1>4. CASE InCtx(addr)
  <2>1. n \in Int /\ ctx \in [0..(n - 1) -> Bytes]
    BY DEF WordsOK, MemoryOK
  <2>2. /\ addr - CtxBase \in Int /\ 0 <= addr - CtxBase
        /\ (addr - CtxBase) + size <= n
    BY SMTT(30), <1>1, <1>4, <2>1, LayoutAssumption DEF InCtx, Within
  <2>3. ReadBytes(ctx, addr - CtxBase, size) \in Words
    <3> HIDE DEF addr, size, n
    <3> QED BY <1>1, <2>1, <2>2, BytesMakeAWord
  <2>4. LoadFrom(ctx, addr - CtxBase)
    BY <1>4 DEF LoadMemory
  <2> QED
    BY <1>3, <2>3, <2>4
<1>5. CASE ~InCtx(addr) /\ InStack(addr)
  <2>1. StackSize \in Int /\ stack \in [0..(StackSize - 1) -> Bytes]
    BY LayoutAssumption DEF WordsOK, MemoryOK
  <2>2. /\ addr - StackBase \in Int /\ 0 <= addr - StackBase
        /\ (addr - StackBase) + size <= StackSize
    <3>1. Within(addr, size, StackBase, StackSize)
      BY <1>5 DEF InStack
    <3> HIDE DEF addr, size
    <3> QED
      BY <1>1, <2>1, <3>1, LayoutAssumption DEF Within
  <2>3. ReadBytes(stack, addr - StackBase, size) \in Words
    <3> HIDE DEF addr, size
    <3> QED BY <1>1, <2>1, <2>2, BytesMakeAWord
  <2>4. LoadFrom(stack, addr - StackBase)
    BY <1>5 DEF LoadMemory
  <2> QED
    BY <1>3, <2>3, <2>4
<1>6. CASE ~InCtx(addr) /\ ~InStack(addr)
  BY <1>2, <1>6 DEF LoadMemory
<1> QED
  BY <1>4, <1>5, <1>6

LEMMA StoreKeepsWords ==
    ASSUME RunOK, WordsOK, vm.status = "running", StoreMemory
    PROVE  WordsOK'
<1>1. ASSUME NEW how, Stop(how) PROVE WordsOK'
  BY <1>1, RunKeepsItsMaps DEF Stop, WordsOK, MemoryOK, MapsOK
<1>2. ASSUME NEW addr \in Int, NEW value \in Int, StoreOnStack(addr, value)
      PROVE  WordsOK'
  <2>1. StackSize \in Int /\ addr - StackBase \in Int /\ Insn.size \in {1, 2, 4, 8}
    BY LayoutAssumption, InsnIsDecoded
  <2>2. stack' \in [0..(StackSize - 1) -> Bytes]
    BY <1>2, <2>1, WritesBytes DEF StoreOnStack, WordsOK, MemoryOK
  <2>3. vm'.fds = vm.fds /\ UNCHANGED <<regs, ctx, maps>>
    BY <1>2, RunKeepsItsMaps DEF StoreOnStack
  <2> QED
    BY <2>2, <2>3 DEF WordsOK, MemoryOK, MapsOK
<1> DEFINE addr == regs[Insn.dst] + Insn.off
           value == IF Insn.cls = "ST" THEN Unsigned(8 * ByteBits, Insn.imm) ELSE regs[Insn.src]
<1>3. value \in Int
  <2>1. Unsigned(8 * ByteBits, Insn.imm) \in Int
    <3>1. 8 * ByteBits \in Nat /\ Insn.imm \in Int
      BY InsnIsDecoded, ByteBitsAssumption
    <3>2. Unsigned(8 * ByteBits, Insn.imm) \in 0..(Power(2, 8 * ByteBits) - 1)
      BY <3>1, UnsignedIsBelow
    <3> QED
      BY <3>2
  <2>2. regs[Insn.src] \in Int
    BY InsnIsDecoded, WordAssumption DEF WordsOK, MemoryOK, Words
  <2> QED
    BY <2>1, <2>2
<1>4. CASE Insn.dst \notin Registers
  BY <1>1, <1>4 DEF StoreMemory
<1>5. CASE Insn.dst \in Registers
  <2>1. addr \in Int
    BY <1>5, InsnIsDecoded, WordAssumption DEF WordsOK, MemoryOK, Words
  <2>2. Store(addr, value)
    BY <1>5 DEF StoreMemory
  <2> HIDE DEF addr, value
  <2>3. Stop("readonly") \/ StoreOnStack(addr, value) \/ Stop("bounds")
    BY <2>2 DEF Store
  <2> QED
    BY <1>1, <1>2, <1>3, <2>1, <2>3
<1> QED
  BY <1>4, <1>5

\* Every step of the interpreter leaves words in its registers and its maps, and
\* bytes in its memory.
LEMMA VmStepKeepsWords ==
    ASSUME RunOK, WordsOK, VmStep
    PROVE  WordsOK'
<1>stop. ASSUME NEW how, Stop(how) PROVE WordsOK'
  BY <1>stop, RunKeepsItsMaps DEF Stop, WordsOK, MemoryOK, MapsOK
<1>set. ASSUME vm.status = "running", Insn.cls \in {"ALU64", "ALU32", "LDX", "LD"},
               NEW value \in Words, SetReg(Insn.dst, value), UNCHANGED <<stack, ctx, maps>>,
               NEW pc, Continue(pc)
        PROVE  WordsOK'
  <2>1. Insn.dst \in Registers
    BY <1>set, InsnIsDecoded DEF Registers
  <2>2. regs' \in [Registers -> Words]
    BY <1>set, <2>1 DEF SetReg, WordsOK, MemoryOK
  <2> QED
    BY <1>set, <2>2, RunKeepsItsMaps DEF WordsOK, MemoryOK, MapsOK
<1>call. ASSUME NEW value \in Words, regs' = AfterCall(value),
                UNCHANGED <<stack, ctx, maps>>, NEW pc, Continue(pc)
         PROVE  WordsOK'
  <2>1. regs' \in [Registers -> Words]
    BY <1>call, WordAssumption DEF AfterCall, WordsOK, MemoryOK, Words
  <2> QED
    BY <1>call, <2>1, RunKeepsItsMaps DEF WordsOK, MemoryOK, MapsOK
<1> USE DEF Executing
<1>1. CASE OutOfSteps
  BY <1>1, <1>stop DEF OutOfSteps
<1>2. CASE Arithmetic
  BY <1>2, <1>set, ArithmeticMakesAWord DEF Arithmetic, WordsOK
<1>3. CASE Jump
  <2>1. \/ Stop("register")
        \/ UNCHANGED <<regs, stack, ctx, maps>> /\ \E pc : Continue(pc)
    BY <1>3 DEF Jump
  <2> QED
    BY <2>1, <1>stop, RunKeepsItsMaps DEF WordsOK, MemoryOK, MapsOK
<1>4. CASE CallMap
  BY <1>4, CallMapKeepsWords DEF CallMap, Calls
<1>5. CASE CallTime
  <2>1. \A t \in Times : t % Word \in Words
    BY TimesAssumption, WordAssumption DEF Words
  <2> QED
    BY <1>5, <2>1, <1>call DEF CallTime
<1>6. CASE CallTrace
  <2>1. UNCHANGED <<regs, stack, ctx, maps>>
    BY <1>6 DEF CallTrace
  <2> QED
    BY <1>6, <2>1, RunKeepsItsMaps DEF WordsOK, MemoryOK, MapsOK
<1>7. CASE TraceReturns
  <2>1. 0 \in Words
    BY WordAssumption DEF Words
  <2> QED
    BY <1>7, <2>1, <1>call DEF TraceReturns
<1>8. CASE Exit
  BY <1>8, <1>stop DEF Exit
<1>9. CASE LoadDoubleWord
  <2> DEFINE half == 4 * ByteBits
             low == Unsigned(half, Insn.imm)
             high == Unsigned(half, vm.insns[vm.pc + 1].imm)
  <2>1. vm.status = "running" /\ Insn.cls = "LD"
    BY <1>9 DEF LoadDoubleWord
  <2>2. half \in Nat
    BY ByteBitsAssumption
  <2>3. /\ low \in 0..(Power(2, half) - 1) /\ high \in 0..(Power(2, half) - 1)
        /\ Power(2, half) \in Nat /\ Power(2, half) * Power(2, half) = Word
    <3>1. Insn.imm \in Int /\ vm.insns[vm.pc + 1].imm \in Int
      BY <2>1, InsnIsDecoded
    <3>2. Power(2, half) \in Nat /\ Power(2, half) * Power(2, half) = Word
      BY Widths
    <3> HIDE DEF half
    <3> QED
      BY <2>2, <3>1, <3>2, UnsignedIsBelow
  <2>4. SetReg(Insn.dst, low + high * Power(2, half)) /\ Continue(vm.pc + 2)
        /\ UNCHANGED <<stack, ctx, maps>>
    BY <1>9 DEF LoadDoubleWord
  <2>5. low + high * Power(2, half) \in Words
    <3>1. \A p \in Nat : \A l, h \in 0..(p - 1) : l + h * p \in 0..(p * p - 1)
      <4> SUFFICES ASSUME NEW p \in Nat, NEW l \in 0..(p - 1), NEW h \in 0..(p - 1)
                   PROVE  l + h * p \in 0..(p * p - 1)
        OBVIOUS
      <4>1. h * p <= (p - 1) * p /\ h * p \in Nat /\ (p - 1) * p = p * p - p
        OBVIOUS
      <4> QED
        BY <4>1
    <3> HIDE DEF low, high, half
    <3> QED
      BY <2>3, <3>1 DEF Words
  <2> HIDE DEF low, high, half
  <2> QED
    BY <2>1, <2>4, <2>5, <1>set
<1>10. CASE LoadMemory
  BY <1>10, LoadKeepsWords DEF LoadMemory
<1>11. CASE StoreMemory
  BY <1>11, StoreKeepsWords DEF StoreMemory
<1> QED
  BY <1>1, <1>2, <1>3, <1>4, <1>5, <1>6, <1>7, <1>8, <1>9, <1>10, <1>11 DEF VmStep

\* Nothing but numbers of their width is ever where the machine keeps numbers.
TypesInv == UseInv /\ WordsOK /\ fires \in 0..MaxFires

\* A new run has words in its registers, bytes on its stack, and maps that exist.
LEMMA RunHasWords ==
    ASSUME NEW p \in Attached, Run(p), DOMAIN maps = 1..MapCount,
           \A fd \in DOMAIN maps : MapHoldsWords(maps[fd])
    PROVE  /\ regs' \in [Registers -> Words] /\ stack' \in [0..(StackSize - 1) -> Bytes]
           /\ MapsOK'
<1>1. p.options.fds \in 0..MapCount
  BY DEF Attached, Options
<1>2. vm'.fds = p.options.fds
  BY DEF Run, Load, NoRun
<1> QED
  BY <1>1, <1>2, EntryHoldsWords DEF Run, MapsOK

\* No run has no maps.
LEMMA NoRunHasWords ==
    ASSUME vm' = NoRun, regs' = AtEntry, stack' = EmptyStack, UNCHANGED maps,
           DOMAIN maps = 1..MapCount, \A fd \in DOMAIN maps : MapHoldsWords(maps[fd])
    PROVE  /\ regs' \in [Registers -> Words] /\ stack' \in [0..(StackSize - 1) -> Bytes]
           /\ MapsOK'
<1>1. vm'.fds = 0
  BY DEF NoRun
<1> QED
  BY <1>1, EntryHoldsWords, MapCountAssumption DEF MapsOK

LEMMA TypesInit == Init => TypesInv
<1> SUFFICES ASSUME Init PROVE TypesInv
  OBVIOUS
<1>1. UseInv
  BY UseInit
<1>2. ctx = [i \in {} |-> 0] /\ DOMAIN ctx = {} /\ Cardinality(DOMAIN ctx) = 0
  BY FS_EmptySet DEF Init
<1>3. ctx \in [0..(0 - 1) -> Bytes]
  BY <1>2
<1>4. regs \in [Registers -> Words] /\ stack \in [0..(StackSize - 1) -> Bytes]
  BY EntryHoldsWords DEF Init
<1>5. vm.fds = 0 /\ maps = [fd \in 1..MapCount |-> EmptyMap]
  BY DEF Init, NoRun
<1>6. MapHoldsWords(EmptyMap)
  BY DEF MapHoldsWords, EmptyMap, Range
<1>7. MapsOK
  BY <1>5, <1>6, MapCountAssumption DEF MapsOK
<1>8. fires \in 0..MaxFires
  BY MaxFiresAssumption DEF Init
<1> QED
  BY <1>1, <1>2, <1>3, <1>4, <1>7, <1>8 DEF TypesInv, WordsOK, MemoryOK

LEMMA FireKeepsWords ==
    ASSUME TypesInv, NEW t \in Tracepoints, NEW f \in Fields, Fire(t, f)
    PROVE  WordsOK'
<1> DEFINE matching == Matching(t)
<1>1. matching \subseteq Attached /\ matching # {} /\ Run(First(matching))
  BY DEF Fire, Matching, TypesInv, UseInv, ProbesInv, ProbesOK
<1>2. First(matching) \in Attached
  <2> HIDE DEF matching
  <2> QED BY <1>1, FirstAttached
<1>3. /\ regs' \in [Registers -> Words] /\ stack' \in [0..(StackSize - 1) -> Bytes]
      /\ MapsOK'
  <2> HIDE DEF matching
  <2> QED BY <1>1, <1>2, RunHasWords DEF TypesInv, WordsOK, MapsOK
<1>4. ctx' = Encoded(f) /\ f \in Seq(Int)
  BY FieldsAssumption DEF Fire
<1>5. /\ Cardinality(DOMAIN ctx') \in Nat
      /\ ctx' \in [0..(Cardinality(DOMAIN ctx') - 1) -> Bytes]
  <2>1. Len(f) \in Nat
    BY <1>4
  <2> QED
    BY <1>4, <2>1, EventIsBytes
<1> QED
  BY <1>3, <1>5 DEF WordsOK, MemoryOK

LEMMA ConcludeKeepsWords ==
    ASSUME TypesInv, Conclude
    PROVE  WordsOK'
<1>1. /\ firing.todo \subseteq Attached
      /\ DOMAIN maps = 1..MapCount /\ \A fd \in DOMAIN maps : MapHoldsWords(maps[fd])
  BY DEF TypesInv, UseInv, ProbesInv, ProbesOK, WordsOK, MapsOK
<1>2. /\ regs' \in [Registers -> Words] /\ stack' \in [0..(StackSize - 1) -> Bytes]
      /\ MapsOK'
  <2>1. CASE Vetoes \/ Remaining = {}
    BY <1>1, <2>1, NoRunHasWords DEF Conclude
  <2>2. CASE ~(Vetoes \/ Remaining = {})
    <3>1. Remaining \subseteq Attached /\ Remaining # {} /\ Run(First(Remaining))
      BY <1>1, <2>2 DEF Conclude, Remaining
    <3>2. First(Remaining) \in Attached
      BY <3>1, FirstAttached
    <3> QED
      BY <1>1, <3>1, <3>2, RunHasWords
  <2> QED
    BY <2>1, <2>2
<1>3. ctx' = ctx
  BY DEF Conclude
<1> QED
  BY <1>2, <1>3 DEF TypesInv, WordsOK, MemoryOK

LEMMA TypesStep == TypesInv /\ [Next]_vars => TypesInv'
<1> SUFFICES ASSUME TypesInv, [Next]_vars PROVE TypesInv'
  OBVIOUS
<1>1. UseInv'
  BY UseStep DEF TypesInv
<1>same. ASSUME UNCHANGED vmVars, UNCHANGED fires PROVE TypesInv'
  BY <1>1, <1>same DEF TypesInv, WordsOK, MemoryOK, MapsOK, vmVars
<1>2. CASE UNCHANGED vars
  BY <1>2, <1>same DEF vars, regVars
<1>3. ASSUME NEW o \in menu, Attach(o) PROVE TypesInv'
  BY <1>3, <1>same DEF Attach
<1>4. ASSUME NEW id \in Ids(probes), Detach(id) PROVE TypesInv'
  BY <1>4, <1>same DEF Detach
<1>5. ASSUME NEW t \in Tracepoints, NEW f \in Fields, Fire(t, f) PROVE TypesInv'
  <2>1. fires' \in 0..MaxFires
    BY <1>5, MaxFiresAssumption DEF Fire, TypesInv
  <2> QED
    BY <1>1, <1>5, <2>1, FireKeepsWords DEF TypesInv
<1>6. CASE firing.active /\ VmStep /\ UNCHANGED regVars
  BY <1>1, <1>6, VmStepKeepsWords DEF TypesInv, UseInv, ProbesInv, regVars
<1>7. CASE Conclude
  <2>1. fires' = fires
    BY <1>7 DEF Conclude
  <2> QED
    BY <1>1, <1>7, <2>1, ConcludeKeepsWords DEF TypesInv
<1> QED
  BY <1>2, <1>3, <1>4, <1>5, <1>6, <1>7 DEF Next

LEMMA InvHasTypes == TypesInv => TypeOK
<1> SUFFICES ASSUME TypesInv PROVE TypeOK
  OBVIOUS
<1>1. VmTypeOK
  BY SMTT(30) DEF TypesInv, UseInv, StepsOK, WordsOK, MemoryOK, VmTypeOK
<1>2. \A fd \in DOMAIN maps :
        /\ DOMAIN maps[fd] \cup Range(maps[fd]) \subseteq Words
        /\ Cardinality(DOMAIN maps[fd]) <= MaxEntries
  BY DEF TypesInv, UseInv, MapsHaveRoom, WordsOK, MapsOK, MapHoldsWords
<1>3. probeCounter \in Nat /\ fires \in 0..MaxFires
  BY DEF TypesInv, UseInv, ProbesInv, ProbesOK
<1> QED
  BY <1>1, <1>2, <1>3 DEF TypeOK

\* Whatever the verified program computes, loads, stores or is given, its registers
\* and the maps it shares hold unsigned words, its stack and its event bytes, and its
\* steps stay within one of its budget.  (asUintN() and asIntN() in run(), load() and
\* store(), and set() of a map; a result that was not wrapped would show here.)
THEOREM WordsAreWords == Spec => []TypeOK
<1>1. Spec => []TypesInv
  BY TypesInit, TypesStep, PTL DEF Spec
<1> QED
  BY <1>1, InvHasTypes, PTL
-----------------------------------------------------------------------------
(* What the verifier would have to check besides.                            *)

\* The jumps and stores of p, whose destination the verifier does not bound, name
\* registers; and so do those of every program the host has.
NamesRegisters(p) ==
    \A i \in DOMAIN p : p[i].cls \in {"JMP", "JMP32", "ST", "STX"} => p[i].dst \in Registers
DestinationsExist == \A m \in Menus : \A o \in m : NamesRegisters(o.program)

RegistersInv ==
    /\ ProbesInv
    /\ \A o \in menu : NamesRegisters(o.program)
    /\ \A p \in probes \cup firing.todo : NamesRegisters(p.options.program)
    /\ vm.status \in {"running", "tracing"} => NamesRegisters(vm.insns)
    /\ RegistersExist

LEMMA RegistersInit == DestinationsExist /\ Init => RegistersInv
<1> SUFFICES ASSUME DestinationsExist, Init PROVE RegistersInv
  OBVIOUS
<1>1. /\ menu \in Menus /\ probes = {} /\ firing.todo = {} /\ vm.status = "idle"
  BY DEF Init, NotFired, NoRun
<1> QED
  BY <1>1, InitInv DEF RegistersInv, RegistersExist, DestinationsExist

\* A run of such a program starts on it.
LEMMA RunNamesRegisters ==
    ASSUME NEW p, NamesRegisters(p.options.program), Run(p)
    PROVE  NamesRegisters(vm'.insns) /\ vm'.status = "running"
  BY DEF Run, Load, NoRun

\* The interpreter leaves the program as it is, and reads no register past r10.
LEMMA VmStepNamesRegisters ==
    ASSUME RunOK, VmStep,
           vm.status \in {"running", "tracing"} => NamesRegisters(vm.insns)
    PROVE  vm'.insns = vm.insns /\ vm'.status # "register"
<1> DEFINE Goal == vm'.insns = vm.insns /\ vm'.status # "register"
<1>1. ASSUME NEW how \in Ended \ {"register"}, Stop(how) PROVE Goal
  BY <1>1 DEF Stop, RunOK, RunFields
<1>2. ASSUME NEW pc, Continue(pc) PROVE Goal
  BY <1>2 DEF Continue, RunOK, RunFields
<1>3. ASSUME vm.status = "running", Insn.cls \in {"JMP", "JMP32", "ST", "STX"}
      PROVE  Insn.dst \in Registers
  BY <1>3 DEF RunOK, NamesRegisters, Insn, Starts
<1>4. CASE OutOfSteps
  BY <1>4, <1>1 DEF OutOfSteps, Ended, Faults
<1>5. CASE Jump
  BY <1>5, <1>2, <1>3 DEF Jump, Executing
<1>6. CASE CallMap
  BY <1>6, <1>1, <1>2 DEF CallMap, Ended, Faults
<1>7. CASE CallTrace
  BY <1>7 DEF CallTrace, RunOK, RunFields
<1>8. CASE Exit
  BY <1>8, <1>1 DEF Exit, Ended, Faults
<1>9. CASE LoadMemory
  <2>1. Stop("bounds") \/ \E bytes, offset : LoadFrom(bytes, offset)
    BY <1>9 DEF LoadMemory
  <2> QED
    BY <2>1, <1>1, <1>2 DEF LoadFrom, Ended, Faults
<1>10. CASE StoreMemory
  <2>1. \/ Stop("readonly") \/ Stop("bounds")
        \/ \E addr, value : StoreOnStack(addr, value)
    BY <1>10, <1>3 DEF StoreMemory, Store, Executing
  <2> QED
    BY <2>1, <1>1, <1>2 DEF StoreOnStack, Ended, Faults
<1>11. CASE Arithmetic \/ CallTime \/ TraceReturns \/ LoadDoubleWord
  BY <1>11, <1>2 DEF Arithmetic, CallTime, TraceReturns, LoadDoubleWord
<1> QED
  BY <1>4, <1>5, <1>6, <1>7, <1>8, <1>9, <1>10, <1>11 DEF VmStep

LEMMA RegistersStep == RegistersInv /\ [Next]_vars => RegistersInv'
<1> SUFFICES ASSUME RegistersInv, [Next]_vars PROVE RegistersInv'
  OBVIOUS
<1> DEFINE Rest ==
             /\ \A o \in menu : NamesRegisters(o.program)
             /\ \A p \in probes \cup firing.todo : NamesRegisters(p.options.program)
             /\ vm.status \in {"running", "tracing"} => NamesRegisters(vm.insns)
             /\ vm.status # "register"
<1>1. ProbesInv /\ ProbesInv' /\ Rest
  BY InvStep DEF RegistersInv, RegistersExist
<1>2. ASSUME UNCHANGED vars PROVE Rest'
  BY <1>1, <1>2 DEF vars, vmVars, regVars
<1>3. ASSUME NEW o \in menu, Attach(o) PROVE Rest'
  <2> DEFINE new == [id |-> probeCounter + 1, options |-> o]
  <2>1. new.options = o /\ probes' \subseteq probes \cup {new}
    BY <1>3 DEF Attach
  <2>2. UNCHANGED <<vm, firing>> /\ menu' \subseteq menu
    BY <1>3 DEF Attach, vmVars
  <2> HIDE DEF new
  <2>3. \A p \in probes' \cup firing'.todo : NamesRegisters(p.options.program)
    BY <1>1, <2>1, <2>2
  <2> QED
    BY <1>1, <2>2, <2>3
<1>4. ASSUME NEW id, Detach(id) PROVE Rest'
  BY <1>1, <1>4 DEF Detach, vmVars
<1>5. ASSUME NEW t, NEW f, Fire(t, f) PROVE Rest'
  <2> DEFINE matching == Matching(t)
             p == First(matching)
  <2>1. matching # {} /\ matching \subseteq probes /\ matching \subseteq Attached
    BY <1>1, <1>5 DEF Fire, Matching, ProbesInv, ProbesOK
  <2>2. /\ firing' = [NotFired EXCEPT !.active = TRUE, !.tracepoint = t,
                                      !.todo = matching, !.roster = Ids(matching),
                                      !.fields = f]
        /\ Run(p) /\ UNCHANGED <<menu, probes>>
    BY <1>5 DEF Fire
  <2>3. p \in probes
    <3> HIDE DEF matching
    <3> QED BY <2>1, FirstAttached
  <2>4. firing'.todo = matching
    <3> HIDE DEF matching
    <3> QED BY <2>2 DEF NotFired
  <2> HIDE DEF matching, p
  <2>5. NamesRegisters(vm'.insns) /\ vm'.status = "running"
    BY <1>1, <2>2, <2>3, RunNamesRegisters
  <2> QED
    BY <1>1, <2>1, <2>2, <2>4, <2>5
<1>6. ASSUME VmStep, UNCHANGED regVars PROVE Rest'
  <2>1. vm'.insns = vm.insns /\ vm'.status # "register"
    BY <1>1, <1>6, VmStepNamesRegisters DEF ProbesInv
  <2>2. vm.status \in {"running", "tracing"}
    BY <1>6 DEF VmStep, OutOfSteps, Arithmetic, Jump, CallMap, CallTime, CallTrace,
                TraceReturns, Exit, LoadDoubleWord, LoadMemory, StoreMemory, Calls, Executing
  <2> QED
    BY <1>1, <1>6, <2>1, <2>2 DEF regVars
<1>7. ASSUME Conclude PROVE Rest'
  <2>1. DOMAIN firing = DOMAIN NotFired /\ firing.todo \subseteq Attached
    BY <1>1 DEF ProbesInv, ProbesOK
  <2>2. UNCHANGED <<menu, probes>>
    BY <1>7 DEF Conclude
  <2>3. CASE Vetoes \/ Remaining = {}
    <3>1. PICK ran, verdict : firing' = [firing EXCEPT !.active = FALSE, !.todo = {},
                                                      !.ran = ran, !.verdict = verdict]
      BY <1>7, <2>3 DEF Conclude
    <3>2. firing'.todo = {}
      BY <2>1, <3>1 DEF NotFired
    <3>3. vm'.status = "idle"
      BY <1>7, <2>3 DEF Conclude, NoRun
    <3> QED
      BY <1>1, <2>2, <3>2, <3>3
  <2>4. CASE ~(Vetoes \/ Remaining = {})
    <3>1. PICK ran : firing' = [firing EXCEPT !.todo = Remaining, !.ran = ran]
      BY <1>7, <2>4 DEF Conclude
    <3>2. firing'.todo = Remaining
      BY <2>1, <3>1 DEF NotFired
    <3>3. Remaining \subseteq firing.todo /\ Remaining # {}
      BY <2>4 DEF Remaining
    <3>4. First(Remaining) \in firing.todo
      BY <2>1, <3>3, FirstAttached
    <3>5. NamesRegisters(vm'.insns) /\ vm'.status = "running"
      BY <1>1, <1>7, <2>4, <3>4, RunNamesRegisters DEF Conclude
    <3> QED
      BY <1>1, <2>2, <3>2, <3>3, <3>5
  <2> QED
    BY <2>3, <2>4
<1>8. Rest'
  <2> HIDE DEF Rest
  <2> QED BY <1>2, <1>3, <1>4, <1>5, <1>6, <1>7 DEF Next, vars
<1> QED
  BY <1>1, <1>8 DEF RegistersInv, RegistersExist

\* The one check that is missing is the whole of it: where no jump and no store names
\* r11 to r15, no verified program ever reads a register that does not exist, with any
\* probes and whatever the host does inside onLog.  (checkInsn(), which bounds src and
\* the dst of what writes a register; probes_registers shows that it takes the check.)
THEOREM RegistersExistIfChecked == DestinationsExist => (Spec => []RegistersExist)
<1> SUFFICES ASSUME DestinationsExist PROVE Spec => []RegistersExist
  OBVIOUS
<1>1. Init => RegistersInv
  BY RegistersInit
<1>2. RegistersInv => RegistersExist
  BY DEF RegistersInv
<1> QED
  BY <1>1, <1>2, RegistersStep, PTL DEF Spec
=============================================================================
