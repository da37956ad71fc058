-------------------------------- MODULE Ebpf --------------------------------
(***************************************************************************)
(* The instructions of src/src/ebpf/vm.ts: their static verification, and   *)
(* their arithmetic and memory.  A program is a sequence of decoded         *)
(* instructions; positions count from 1.  The widths are those of the code  *)
(* scaled by the size of a byte, which has 8 bits there and ByteBits here:  *)
(* a register has 8 bytes, an imm has 4, and a stack or a context is an     *)
(* array of bytes, least significant first.                                 *)
(***************************************************************************)
EXTENDS EbpfMap, Integers, Sequences

CONSTANTS
    ByteBits,
    CtxBase, StackBase,     \* CTX_BASE and STACK_BASE
    StackSize               \* STACK_SIZE, in bytes

\* The n-th power of b, and the number whose n digits to the base b are
\* d[0], d[1] .., the least significant first.
Power(b, n) ==
    LET power[k \in Nat] == IF k = 0 THEN 1 ELSE b * power[k - 1]
    IN  power[n]
Number(b, n, d) ==
    LET value[k \in 0..n] == IF k = 0 THEN 0 ELSE value[k - 1] + d[k - 1] * Power(b, k - 1)
    IN  value[n]

Byte == Power(2, ByteBits)
ASSUME ByteBitsAssumption == ByteBits \in Nat \ {0} /\ Word = Power(2, 8 * ByteBits)
ASSUME LayoutAssumption ==
    /\ CtxBase \in 0..(Word - 1) /\ StackBase \in Nat /\ StackSize \in Nat
    /\ StackBase + StackSize < Word

\* decode(): cls is the class and op the operation the opcode stands for ("bad"
\* one that is not supported, for LD "slot" the opcode 0); reg says that the
\* operand is a register, size is the width of a load or a store.
Classes == {"ALU64", "ALU32", "JMP", "JMP32", "LDX", "ST", "STX", "LD"}
AluOps == {"add", "sub", "mul", "div", "or", "and", "lsh", "rsh", "neg", "mod", "xor",
           "mov", "arsh"}
Conditions == {"jeq", "jgt", "jge", "jset", "jne", "jsgt", "jsge", "jlt", "jle", "jslt",
               "jsle"}
OpsOf(cls) ==
    CASE cls \in {"ALU64", "ALU32"} -> AluOps
      [] cls \in {"JMP", "JMP32"} -> Conditions \cup {"ja", "call", "exit"}
      [] cls = "LD" -> {"lddw", "slot"}
      [] OTHER -> {"mem"}
Decoded == [cls : Classes, op : STRING, reg : BOOLEAN, size : {1, 2, 4, 8},
            dst : 0..15, src : 0..15, off : Int, imm : Int]
Insns == {insn \in Decoded : insn.op \in OpsOf(insn.cls) \cup {"bad"}}

MAP_GET == 1
MAP_SET == 2
MAP_ADD == 3
TRACE == 4
KTIME_GET_NS == 5
KnownHelpers == {MAP_GET, MAP_SET, MAP_ADD, TRACE, KTIME_GET_NS}
-----------------------------------------------------------------------------
(* The verifier.                                                            *)

\* The positions that hold the second half of an lddw.
SecondSlots(p) == {i \in DOMAIN p : i > 1 /\ p[i - 1].op = "lddw"}

\* Mutant: a jump past the last instruction is accepted.
JumpsInsideOrPast(p, i) ==
    LET target == i + 1 + p[i].off
    IN  target \in (DOMAIN p \cup {Len(p) + 1}) \ SecondSlots(p)

JumpsInside(p, i) == i + 1 + p[i].off \in DOMAIN p \ SecondSlots(p)

\* Mutant: only what an ALU operation writes is checked.
WritableByLoad(insn) == insn.dst <= 9 \/ insn.cls = "LDX"

\* r10 is read-only.
Writable(insn) == insn.dst <= 9

\* checkInsn().  The destination of a jump or a store is not bounded.
CheckInsn(p, i) ==
    LET insn == p[i]
    IN  /\ insn.src <= 10
        /\ CASE insn.cls \in {"ALU64", "ALU32"} -> insn.op # "bad" /\ Writable(insn)
             [] insn.cls = "JMP" ->
                    /\ insn.op # "bad"
                    /\ insn.op = "call" => insn.imm \in KnownHelpers
                    /\ insn.op \notin {"call", "exit"} => JumpsInside(p, i)
             [] insn.cls = "JMP32" -> /\ insn.op \notin {"bad", "ja", "call", "exit"}
                                      /\ JumpsInside(p, i)
             [] insn.cls = "LDX" -> insn.op = "mem" /\ Writable(insn)
             [] insn.cls \in {"ST", "STX"} -> insn.op = "mem"
             [] OTHER -> insn.op = "lddw" /\ Writable(insn)

\* verifyProgram().
Verified(p) ==
    /\ p # <<>>
    /\ \A i \in DOMAIN p : p[i].op = "lddw" => i < Len(p) /\ p[i + 1].op = "slot"
    /\ \A i \in DOMAIN p \ SecondSlots(p) : CheckInsn(p, i)
    /\ Len(p) \notin SecondSlots(p)
    /\ p[Len(p)].cls = "JMP" /\ p[Len(p)].op = "exit" /\ ~p[Len(p)].reg
-----------------------------------------------------------------------------
(* Arithmetic, as BigInt.asUintN and BigInt.asIntN wrap it.                 *)

Width(cls) == IF cls \in {"ALU64", "JMP"} THEN 8 * ByteBits ELSE 4 * ByteBits
Unsigned(w, x) == x % Power(2, w)
Signed(w, x) ==
    IF Unsigned(w, x) >= Power(2, w - 1) THEN Unsigned(w, x) - Power(2, w)
                                         ELSE Unsigned(w, x)

\* A bit of the result is 1 when those of a and b are a pair of the table.
Bit(x, i) == (x \div Power(2, i)) % 2
OnBits(table, w, a, b) ==
    Number(2, w, [i \in 0..(w - 1) |-> IF <<Bit(a, i), Bit(b, i)>> \in table THEN 1 ELSE 0])
And(w, a, b) == OnBits({<<1, 1>>}, w, a, b)
Or(w, a, b) == OnBits({<<0, 1>>, <<1, 0>>, <<1, 1>>}, w, a, b)
Xor(w, a, b) == OnBits({<<0, 1>>, <<1, 0>>}, w, a, b)

\* The value of an ALU operation on a and b, both unsigned of width w.
Alu(op, w, a, b) ==
    LET shift == b % w
    IN  Unsigned(w,
        CASE op = "add" -> a + b
          [] op = "sub" -> a - b
          [] op = "mul" -> a * b
          [] op = "div" -> IF b = 0 THEN 0 ELSE a \div b
          [] op = "or" -> Or(w, a, b)
          [] op = "and" -> And(w, a, b)
          [] op = "lsh" -> a * Power(2, shift)
          [] op = "rsh" -> a \div Power(2, shift)
          [] op = "neg" -> -a
          [] op = "mod" -> IF b = 0 THEN a ELSE a % b
          [] op = "xor" -> Xor(w, a, b)
          [] op = "mov" -> b
          [] op = "arsh" -> Signed(w, a) \div Power(2, shift))

\* Whether a conditional jump is taken.
Taken(op, w, a, b) ==
    LET sa == Signed(w, a)
        sb == Signed(w, b)
    IN  CASE op = "jeq" -> a = b
          [] op = "jgt" -> a > b
          [] op = "jge" -> a >= b
          [] op = "jset" -> And(w, a, b) # 0
          [] op = "jne" -> a # b
          [] op = "jsgt" -> sa > sb
          [] op = "jsge" -> sa >= sb
          [] op = "jlt" -> a < b
          [] op = "jle" -> a <= b
          [] op = "jslt" -> sa < sb
          [] op = "jsle" -> sa <= sb
-----------------------------------------------------------------------------
(* Memory: the context and the stack.  Addresses do not wrap.               *)

Within(addr, size, base, length) == addr >= base /\ addr + size <= base + length

ReadBytes(bytes, offset, size) ==
    Number(Byte, size, [i \in 0..(size - 1) |-> bytes[offset + i]])

WriteBytes(bytes, offset, size, value) ==
    [i \in DOMAIN bytes |->
        IF i \in offset..(offset + size - 1) THEN (value \div Power(Byte, i - offset)) % Byte
                                             ELSE bytes[i]]
=============================================================================
