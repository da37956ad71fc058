------------------------------ MODULE MCProbes ------------------------------
(* Probes with every short program over a set of instructions, one at a time,
   and with menus of a few probes that share a map.                         *)
EXTENDS Probes

I(cls, op, reg, size, dst, src, off, imm) ==
    [cls |-> cls, op |-> op, reg |-> reg, size |-> size, dst |-> dst, src |-> src,
     off |-> off, imm |-> imm]
K(cls, op, dst, imm) == I(cls, op, FALSE, 1, dst, 0, 0, imm)
X(cls, op, dst, src) == I(cls, op, TRUE, 1, dst, src, 0, 0)
JumpIf(cls, op, dst, imm, off) == I(cls, op, FALSE, 1, dst, 0, off, imm)
Ja(off) == JumpIf("JMP", "ja", 0, 0, off)
Call(helper) == K("JMP", "call", 0, helper)
Mem(cls, size, dst, src, off) == I(cls, "mem", FALSE, size, dst, src, off, 1)
ExitInsn == K("JMP", "exit", 0, 0)

\* Instructions the verifier lets through, some of which fault when they run.
Sound == {
    K("ALU64", "mov", 0, 1), K("ALU32", "add", 2, -1), K("ALU64", "add", 1, 7),
    X("ALU64", "mov", 3, 10), X("ALU64", "sub", 0, 1), K("ALU64", "arsh", 0, 9),
    Mem("LDX", 8, 0, 1, 0), Mem("LDX", 4, 0, 10, -2),
    Mem("STX", 1, 10, 1, -8), Mem("ST", 8, 10, 0, -8), Mem("ST", 1, 1, 0, 0),
    Mem("ST", 1, 11, 0, 0),
    Ja(-1), Ja(1), JumpIf("JMP", "jeq", 0, 0, 1), JumpIf("JMP32", "jsgt", 1, -1, -2),
    JumpIf("JMP", "jne", 12, 0, 1),
    Call(MAP_ADD), Call(TRACE), Call(KTIME_GET_NS),
    K("LD", "lddw", 2, -1), K("LD", "slot", 0, 3)}

\* Instructions it has to refuse, and forms that are rare.
Odd == {
    K("ALU64", "mov", 10, 0), K("ALU64", "bad", 0, 0), X("ALU64", "mov", 0, 11),
    Mem("LDX", 2, 10, 1, 0), I("STX", "bad", FALSE, 8, 10, 0, -8, 0),
    JumpIf("JMP", "bad", 0, 0, 0), JumpIf("JMP32", "call", 0, 1, 0), Call(9),
    JumpIf("JMP", "jset", 1, 1, 2), K("LD", "bad", 0, 0), X("JMP", "exit", 0, 0),
    Call(MAP_GET), Call(MAP_SET), ExitInsn}

Programs ==
    LET upTo(n, S) == UNION {[1..k -> S] : k \in 0..n}
    IN  {Append(p, ExitInsn) : p \in upTo(3, Sound)}
        \cup upTo(2, Sound \cup Odd)
        \cup {Append(p, ExitInsn) : p \in upTo(2, Sound \cup Odd)}

\* Every operation of the two widths, and every condition.
Sums == {<<K("ALU64", "mov", 0, a), K(cls, op, 0, b), ExitInsn>> :
            cls \in {"ALU64", "ALU32"}, op \in AluOps, a \in {-3, 5}, b \in {-8, 0, 3}}
Tests == {<<K("ALU64", "mov", 0, a), JumpIf(cls, op, 0, b, 1), K("ALU64", "mov", 0, 0), ExitInsn>> :
            cls \in {"JMP", "JMP32"}, op \in Conditions, a \in {-3, 5}, b \in {-3, 3}}

Probe(p, t, closed) ==
    [program |-> p, tracepoint |-> t, budget |-> 5, fds |-> 1, failClosed |-> closed]

\* Probes of a fleet: they count, trace, veto or fault, and one is refused.
Counts == <<K("ALU64", "mov", 3, 7), Call(MAP_ADD), ExitInsn>>
Traces == <<Call(TRACE), ExitInsn>>
Denies == <<K("ALU64", "mov", 0, -1), ExitInsn>>
Spins == <<Ja(-1), ExitInsn>>
Fleet == {Probe(Counts, "run:start", FALSE), Probe(Traces, "run:start", FALSE),
          Probe(Traces, "run:start", TRUE), Probe(Denies, "run:start", FALSE),
          [Probe(Spins, "run:start", FALSE) EXCEPT !.budget = 9],
          [Probe(Spins, "run:start", TRUE) EXCEPT !.budget = 0],
          Probe(Traces, "log", FALSE), Probe(<<Ja(0)>>, "log", FALSE)}

FleetMenus == {m \in SUBSET Fleet : Cardinality(m) = 3}
ProgramMenus == {{Probe(p, "run:start", FALSE)} : p \in Programs \cup Sums \cup Tests}
AllMenus == FleetMenus \cup ProgramMenus
JumpMenus == {{Probe(p, "run:start", FALSE)} : p \in {<<i, ExitInsn, ExitInsn>> : i \in Sound}}
Events == {<<3, 200>>}
=============================================================================
