------------------------------- MODULE EbpfVm -------------------------------
(***************************************************************************)
(* EbpfVm.run() of src/src/ebpf/vm.ts: one instruction a step, in the order *)
(* of the interpreter's loop, with the steps it spends and every way it can *)
(* stop.  A run is synchronous but for the trace callback, in which the     *)
(* host may do what it likes; there the run waits.                          *)
(***************************************************************************)
EXTENDS Ebpf

CONSTANTS
    Times,              \* what KTIME_GET_NS may read
    MaxInstructions     \* HARD_MAX_INSTRUCTIONS, the most steps a run is allowed
ASSUME TimesAssumption == Times \subseteq Nat
ASSUME MaxInstructionsAssumption == MaxInstructions \in Nat \ {0}

VARIABLES
    vm,                 \* the run: its program, budget and number of maps,
                        \* where it is and how it ended
    regs, stack, ctx,
    maps                \* the contents of each map, at fd + 1

vmVars == <<vm, regs, stack, ctx, maps>>

Registers == 0..10
Words == 0..(Word - 1)
Bytes == 0..(Byte - 1)
StackTop == StackBase + StackSize

\* How a run that does not return ends.  "register" is the TypeError of reading
\* r11 to r15.
Faults == {"limit", "bounds", "readonly", "nomap", "register"}
Ended == {"returned"} \cup Faults

EmptyStack == [i \in 0..(StackSize - 1) |-> 0]
AtEntry ==
    [r \in Registers |-> CASE r = 1 -> CtxBase [] r = 10 -> StackTop [] OTHER -> 0]

\* The constructor clamps the budget it is given to 1..MaxInstructions.
Clamped(budget) ==
    CASE budget < 1 -> 1
      [] budget > MaxInstructions -> MaxInstructions
      [] OTHER -> budget

\* new EbpfVm(), and the beginning of run().
NoRun == [insns |-> <<>>, budget |-> 0, fds |-> 0, pc |-> 1, steps |-> 0, status |-> "idle"]
Load(insns, budget, fds) ==
    [NoRun EXCEPT !.insns = insns, !.budget = Clamped(budget), !.fds = fds,
                  !.status = "running"]
-----------------------------------------------------------------------------
(* What every instruction does to the run.                                  *)

Insn == vm.insns[vm.pc]
Executing == vm.status = "running" /\ vm.steps < vm.budget

\* Mutant: a jump costs no step.
ContinueFreely(pc) ==
    vm' = [vm EXCEPT !.pc = pc, !.steps = IF Insn.cls = "JMP" THEN @ ELSE @ + 1,
                     !.status = "running"]

Continue(pc) == vm' = [vm EXCEPT !.pc = pc, !.steps = @ + 1, !.status = "running"]

Stop(how) ==
    /\ vm' = [vm EXCEPT !.steps = @ + 1, !.status = how]
    /\ UNCHANGED <<regs, stack, ctx, maps>>

SetReg(r, value) == regs' = [regs EXCEPT ![r] = value]
Operand == IF Insn.reg THEN regs[Insn.src] ELSE Insn.imm
-----------------------------------------------------------------------------
(* The instructions.                                                        *)

OutOfSteps == vm.status = "running" /\ vm.steps >= vm.budget /\ Stop("limit")

\* Mutant: a 32-bit result keeps its carry.
AluValueUnwrapped(insn) ==
    LET w == Width(insn.cls)
    IN  IF insn.op = "add"
        THEN Unsigned(w, regs[insn.dst]) + Unsigned(w, Operand)
        ELSE Alu(insn.op, w, Unsigned(w, regs[insn.dst]), Unsigned(w, Operand))

AluValue(insn) ==
    LET w == Width(insn.cls)
    IN  Alu(insn.op, w, Unsigned(w, regs[insn.dst]), Unsigned(w, Operand))

Arithmetic ==
    /\ Executing /\ Insn.cls \in {"ALU64", "ALU32"}
    /\ SetReg(Insn.dst, AluValue(Insn))
    /\ Continue(vm.pc + 1)
    /\ UNCHANGED <<stack, ctx, maps>>

Jump ==
    /\ Executing /\ Insn.cls \in {"JMP", "JMP32"} /\ Insn.op \notin {"call", "exit"}
    /\ LET w == Width(Insn.cls)
           taken == Insn.op = "ja" \/ Taken(Insn.op, w, Unsigned(w, regs[Insn.dst]),
                                                        Unsigned(w, Operand))
       IN  IF Insn.op # "ja" /\ Insn.dst \notin Registers
           THEN Stop("register")
           ELSE /\ Continue(IF taken THEN vm.pc + 1 + Insn.off ELSE vm.pc + 1)
                /\ UNCHANGED <<regs, stack, ctx, maps>>

\* A call leaves its value in r0 and clobbers r1 to r5.
AfterCall(value) ==
    [r \in Registers |-> CASE r = 0 -> value [] r \in 1..5 -> 0 [] OTHER -> regs[r]]
Calls(helpers) == Executing /\ Insn.cls = "JMP" /\ Insn.op = "call" /\ Insn.imm \in helpers

CallMap ==
    /\ Calls({MAP_GET, MAP_SET, MAP_ADD})
    /\ LET fd == regs[1] + 1
           key == regs[2]
           room == HasRoom(maps[fd], key)
       IN  IF regs[1] >= vm.fds
           THEN Stop("nomap")
           ELSE /\ IF Insn.imm = MAP_GET
                   THEN regs' = AfterCall(Lookup(maps[fd], key)) /\ UNCHANGED maps
                   ELSE /\ regs' = AfterCall(IF room THEN 0 ELSE Word - 1)
                        /\ maps' = [maps EXCEPT ![fd] =
                                IF Insn.imm = MAP_SET THEN Put(@, key, regs[3])
                                                      ELSE Add(@, key, regs[3])]
                /\ Continue(vm.pc + 1)
                /\ UNCHANGED <<stack, ctx>>

CallTime ==
    /\ Calls({KTIME_GET_NS})
    /\ \E t \in Times : regs' = AfterCall(t % Word)
    /\ Continue(vm.pc + 1)
    /\ UNCHANGED <<stack, ctx, maps>>

\* The trace callback is the host's; the call returns when the host does.
CallTrace ==
    /\ Calls({TRACE})
    /\ vm' = [vm EXCEPT !.status = "tracing"]
    /\ UNCHANGED <<regs, stack, ctx, maps>>
TraceReturns ==
    /\ vm.status = "tracing"
    /\ regs' = AfterCall(0)
    /\ Continue(vm.pc + 1)
    /\ UNCHANGED <<stack, ctx, maps>>

Exit == Executing /\ Insn.cls = "JMP" /\ Insn.op = "exit" /\ Stop("returned")

\* The instruction takes two slots, and its value half of its imm from each.
LoadDoubleWord ==
    /\ Executing /\ Insn.cls = "LD"
    /\ LET half == 4 * ByteBits
       IN  SetReg(Insn.dst, Unsigned(half, Insn.imm)
                            + Unsigned(half, vm.insns[vm.pc + 1].imm) * Power(2, half))
    /\ Continue(vm.pc + 2)
    /\ UNCHANGED <<stack, ctx, maps>>

InCtx(addr) == Within(addr, Insn.size, CtxBase, Cardinality(DOMAIN ctx))
InStack(addr) == Within(addr, Insn.size, StackBase, StackSize)

LoadFrom(bytes, offset) ==
    /\ SetReg(Insn.dst, ReadBytes(bytes, offset, Insn.size))
    /\ Continue(vm.pc + 1)
    /\ UNCHANGED <<stack, ctx, maps>>

LoadMemory ==
    /\ Executing /\ Insn.cls = "LDX"
    /\ LET addr == regs[Insn.src] + Insn.off
       IN  CASE InCtx(addr) -> LoadFrom(ctx, addr - CtxBase)
             [] ~InCtx(addr) /\ InStack(addr) -> LoadFrom(stack, addr - StackBase)
             [] OTHER -> Stop("bounds")

StoreOnStack(addr, value) ==
    /\ stack' = WriteBytes(stack, addr - StackBase, Insn.size, value)
    /\ Continue(vm.pc + 1)
    /\ UNCHANGED <<regs, ctx, maps>>

\* Mutant: the context can be written.
StoreInContext(addr, value) ==
    CASE InCtx(addr) -> /\ ctx' = WriteBytes(ctx, addr - CtxBase, Insn.size, value)
                        /\ Continue(vm.pc + 1)
                        /\ UNCHANGED <<regs, stack, maps>>
      [] ~InCtx(addr) /\ InStack(addr) -> StoreOnStack(addr, value)
      [] OTHER -> Stop("bounds")

Store(addr, value) ==
    CASE InCtx(addr) -> Stop("readonly")
      [] ~InCtx(addr) /\ InStack(addr) -> StoreOnStack(addr, value)
      [] OTHER -> Stop("bounds")

StoreMemory ==
    /\ Executing /\ Insn.cls \in {"ST", "STX"}
    /\ LET value == IF Insn.cls = "ST" THEN Unsigned(8 * ByteBits, Insn.imm)
                                       ELSE regs[Insn.src]
       IN  IF Insn.dst \notin Registers THEN Stop("register")
           ELSE Store(regs[Insn.dst] + Insn.off, value)

VmStep ==
    \/ OutOfSteps \/ Arithmetic \/ Jump \/ CallMap \/ CallTime \/ CallTrace
    \/ TraceReturns \/ Exit \/ LoadDoubleWord \/ LoadMemory \/ StoreMemory
-----------------------------------------------------------------------------
VmTypeOK ==
    /\ vm.status \in {"idle", "running", "tracing"} \cup Ended
    /\ vm.budget \in 0..MaxInstructions
    /\ vm.steps \in 0..(vm.budget + 1)
    /\ regs \in [Registers -> Words]
    /\ \A i \in DOMAIN stack : stack[i] \in Bytes
    /\ \A i \in DOMAIN ctx : ctx[i] \in Bytes

\* A program that passed the verifier never leaves its instructions: it runs
\* neither past them, nor into the second slot of an lddw, nor into one the
\* interpreter does not know.  (verifyProgram() and the loop of run(), which
\* checks none of it.)
StaysInProgram ==
    vm.status \in {"running", "tracing"} =>
        /\ vm.pc \in DOMAIN vm.insns \ SecondSlots(vm.insns)
        /\ Insn.op \notin {"bad", "slot"}
=============================================================================
