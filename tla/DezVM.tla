------------------------------- MODULE DezVM --------------------------------
(***************************************************************************)
(* The Dez virtual machine: dez_vm_run and dez_vm_step (src/core/dez_vm.c) *)
(* with one action per handler of src/core/dez_instruction_table.c.        *)
(*                                                                         *)
(* A behavior starts with a program already in memory (module DezLoader    *)
(* models how it got there) and follows one call of dez_vm_run:            *)
(*                                                                         *)
(*     while (state == RUNNING) { dez_vm_step; count the step; }           *)
(*                                                                         *)
(* The variable "at" is the control point of that loop.  A handler is one  *)
(* action together with the fetch before it and the pc update after it.    *)
(* What the program prints is not modelled; DEZ_VALIDATE_REGISTER and      *)
(* DEZ_VALIDATE_MEMORY_ADDRESS on immediates cannot fire (VMAssumption).   *)
(***************************************************************************)
EXTENDS DezISA, DezMemory, Sequences, FiniteSets

CONSTANTS
    MaxSteps,   \* MAX_STEPS of dez_vm_run (100000, or 10000 in debug mode)
    Images      \* the programs considered, as sequences of words

ASSUME VMAssumption ==
    \* An immediate is always a memory address.
    /\ ImmSpan <= MemWords
    /\ MaxSteps \in Nat
    /\ \A image \in Images : image \in Seq(Word) /\ Len(image) \in 1 .. CodeEnd + 1

VARIABLES
    regs,       \* vm->cpu.regs
    pc,         \* vm->cpu.pc
    sp,         \* vm->cpu.sp, the next free slot of a stack growing down
    flags,      \* vm->cpu.flags, as the set of flags that are set
    state,      \* vm->cpu.state
    step_count, \* step_count of dez_vm_run
    at          \* control point of dez_vm_run

vars == <<mem, protection, regs, pc, sp, flags, state, step_count, at>>

Flag    == {"ZERO", "LESS", "GREATER", "EQUAL"}
VMState == {"RUNNING", "HALTED", "ERROR"}
Control == {"while", "step", "count", "done"}

\* Registers and memory keep their width, whatever an instruction computes;
\* the pc may leave memory (a RET to any word), which the next fetch notices.
TypeOK ==
    /\ mem \in [Address -> Word]
    /\ protection \in Protections
    /\ regs \in [Register -> Word]
    /\ pc \in Nat
    /\ sp \in Nat
    /\ flags \in SUBSET Flag
    /\ state \in VMState
    /\ step_count \in Nat
    /\ at \in Control

\* dez_vm_init for the CPU.
ResetCPU ==
    /\ regs = [r \in Register |-> 0]
    /\ pc = 0
    /\ sp = MemWords - 1
    /\ flags = {}
    /\ state = "RUNNING"

\* Memory after a program was loaded into a fresh VM.
MemoryImage(image) ==
    [a \in Address |-> IF a < Len(image) THEN image[a + 1] ELSE 0]

Init ==
    /\ ResetCPU
    /\ \E image \in Images : mem = MemoryImage(image)
    /\ protection = PowerOnProtection
    /\ step_count = 0
    /\ at = "while"

----------------------------------------------------------------------------
(* Fetch, dispatch, and the pc update of dez_vm_step. *)

instruction == mem[pc]

r1  == Reg1(instruction)
imm == Imm(instruction)
R2  == regs[Reg2(instruction)]
R3  == regs[Reg3(instruction)]

Executing(op) ==
    /\ at = "step"
    /\ state = "RUNNING"
    /\ pc \in Address
    /\ Opcode(instruction) = op

\* dez_vm_step after the handler left "next" in the pc: the pc is advanced
\* only when the handler left it where it was.
Retire(next) ==
    /\ pc' = IF next = pc THEN pc + PcIncrement(Opcode(instruction)) ELSE next
    /\ at' = "count"
    /\ UNCHANGED <<protection, step_count>>

\* The shapes handlers share.
SetRegister(op, v) ==
    /\ Executing(op)
    /\ regs' = [regs EXCEPT ![r1] = v]
    /\ Retire(pc)
    /\ UNCHANGED <<mem, sp, flags, state>>

\* A handler that reports an error and returns.
Trap ==
    /\ state' = "ERROR"
    /\ Retire(pc)
    /\ UNCHANGED <<mem, regs, sp, flags>>

\* A conditional or unconditional jump.
Jump(op, taken) ==
    /\ Executing(op)
    /\ Retire(IF taken THEN imm ELSE pc)
    /\ UNCHANGED <<mem, regs, sp, flags, state>>

\* The address check of the indirect and indexed instructions.
BadAddress(op, a) == Executing(op) /\ a \notin Address /\ Trap

----------------------------------------------------------------------------
(* Data movement and arithmetic. *)

Mov  == SetRegister(Op.MOV, imm)
Load == SetRegister(Op.LOAD, ReadWord(imm))

\* STORE writes the array directly, not through memory_write_word.
Store ==
    /\ Executing(Op.STORE)
    /\ mem' = [mem EXCEPT ![imm] = regs[r1]]
    /\ Retire(pc)
    /\ UNCHANGED <<regs, sp, flags, state>>

\* The last operand of ADD, SUB, MUL and DIV.
Operand == IF ImmediateMode(instruction) THEN ExtImm(instruction) ELSE R3

Add == SetRegister(Op.ADD, Wrap(R2 + Operand))
Sub == SetRegister(Op.SUB, Wrap(R2 - Operand))
Mul == SetRegister(Op.MUL, Wrap(R2 * Operand))

Div       == Executing(Op.DIV) /\ Operand # 0 /\ SetRegister(Op.DIV, R2 \div Operand)
DivByZero == Executing(Op.DIV) /\ Operand = 0 /\ Trap

And == SetRegister(Op.AND, BitAnd(R2, R3))
Or  == SetRegister(Op.OR, BitOr(R2, R3))
Xor == SetRegister(Op.XOR, BitXor(R2, R3))
Not == SetRegister(Op.NOT, BitNot(R2))
Shl == Executing(Op.SHL) /\ \E n \in ShiftCounts(R3) : SetRegister(Op.SHL, ShiftLeft(R2, n))
Shr == Executing(Op.SHR) /\ \E n \in ShiftCounts(R3) : SetRegister(Op.SHR, ShiftRight(R2, n))
Inc == SetRegister(Op.INC, Wrap(regs[r1] + 1))
Dec == SetRegister(Op.DEC, Wrap(regs[r1] - 1))

----------------------------------------------------------------------------
(* Indirect and indexed memory access. *)

LoadFrom(op, a) == Executing(op) /\ a \in Address /\ SetRegister(op, ReadWord(a))

\* The result of memory_write_word is ignored.
StoreTo(op, a) ==
    /\ Executing(op)
    /\ a \in Address
    /\ WriteWord(a, regs[r1])
    /\ Retire(pc)
    /\ UNCHANGED <<regs, sp, flags, state>>

Indexed == Wrap(R2 + R3)

LoadIndirect  == LoadFrom(Op.LOAD_INDIRECT, R2) \/ BadAddress(Op.LOAD_INDIRECT, R2)
StoreIndirect == StoreTo(Op.STORE_INDIRECT, R2) \/ BadAddress(Op.STORE_INDIRECT, R2)
LoadIndexed   == LoadFrom(Op.LOAD_INDEXED, Indexed) \/ BadAddress(Op.LOAD_INDEXED, Indexed)
StoreIndexed  == StoreTo(Op.STORE_INDEXED, Indexed) \/ BadAddress(Op.STORE_INDEXED, Indexed)

----------------------------------------------------------------------------
(* Compare and jump. *)

\* Register field 0 selects the immediate, so R0 is never the second operand.
Comparand == IF Reg2(instruction) # 0 THEN R2 ELSE imm

\* Mutant: the flags of the previous comparison are not cleared first.
ComparisonNoClear(a, b) ==
    flags \union (IF a = b THEN {"EQUAL", "ZERO"} ELSE IF a < b THEN {"LESS"} ELSE {"GREATER"})

Comparison(a, b) ==
    IF a = b THEN {"EQUAL", "ZERO"} ELSE IF a < b THEN {"LESS"} ELSE {"GREATER"}

Cmp ==
    /\ Executing(Op.CMP)
    /\ flags' = Comparison(regs[r1], Comparand)
    /\ Retire(pc)
    /\ UNCHANGED <<mem, regs, sp, state>>

Jmp == Jump(Op.JMP, TRUE)
Jz  == Jump(Op.JZ, "ZERO" \in flags)
Jnz == Jump(Op.JNZ, "ZERO" \notin flags)
Jl  == Jump(Op.JL, "LESS" \in flags)
Jg  == Jump(Op.JG, "GREATER" \in flags)
Jle == Jump(Op.JLE, flags \intersect {"LESS", "EQUAL"} # {})
Jge == Jump(Op.JGE, flags \intersect {"GREATER", "EQUAL"} # {})

----------------------------------------------------------------------------
(* The stack. *)

\* Mutant: the overflow test lets the stack grow one slot into the data segment.
StackFullLate == sp < StackStart - 1

\* DEZ_VALIDATE_STACK_OVERFLOW
StackFull == sp < StackStart

\* DEZ_VALIDATE_STACK_UNDERFLOW
StackEmpty == sp >= StackEnd

\* Mutant: the word goes to the slot POP reads, as if the pointer named the
\* top of the stack.
PushWordAbove(v) == WriteWord(sp + 1, v) /\ sp' = sp - 1

\* Mutant: the stack pointer is moved before the write.
PushWordPreDecrement(v) == WriteWord(sp - 1, v) /\ sp' = sp - 1

PushWord(v) == WriteWord(sp, v) /\ sp' = sp - 1

\* Mutant: the slot is read before the stack pointer moves.
TopStale == ReadWord(sp)

\* The word POP and RET read: the slot above the stack pointer.
Top == ReadWord(sp + 1)

Push ==
    /\ Executing(Op.PUSH)
    /\ ~StackFull
    /\ PushWord(regs[r1])
    /\ Retire(pc)
    /\ UNCHANGED <<regs, flags, state>>

Pop ==
    /\ Executing(Op.POP)
    /\ ~StackEmpty
    /\ sp' = sp + 1
    /\ regs' = [regs EXCEPT ![r1] = Top]
    /\ Retire(pc)
    /\ UNCHANGED <<mem, flags, state>>

Call ==
    /\ Executing(Op.CALL)
    /\ ~StackFull
    /\ PushWord(pc + 1)
    /\ Retire(imm)
    /\ UNCHANGED <<regs, flags, state>>

\* The return address is not validated; the next fetch checks it.
Ret ==
    /\ Executing(Op.RET)
    /\ ~StackEmpty
    /\ sp' = sp + 1
    /\ Retire(Top)
    /\ UNCHANGED <<mem, regs, flags, state>>

StackOverflow  == (Executing(Op.PUSH) \/ Executing(Op.CALL)) /\ StackFull /\ Trap

\* Mutant: the stack pointer moves before the test.
StackUnderflowAfterMove ==
    /\ Executing(Op.POP) \/ Executing(Op.RET)
    /\ StackEmpty
    /\ state' = "ERROR"
    /\ sp' = sp + 1
    /\ Retire(pc)
    /\ UNCHANGED <<mem, regs, flags>>

StackUnderflow == (Executing(Op.POP) \/ Executing(Op.RET)) /\ StackEmpty /\ Trap

----------------------------------------------------------------------------
(* The rest of the instruction set. *)

Nop == Executing(Op.NOP) /\ Retire(pc) /\ UNCHANGED <<mem, regs, sp, flags, state>>

Halted ==
    /\ state' = "HALTED"
    /\ Retire(pc)
    /\ UNCHANGED <<mem, regs, sp, flags>>

Halt    == Executing(Op.HALT) /\ Halted
SysStop == Executing(Op.SYS) /\ imm = SysExit /\ Halted

\* Printing calls, and numbers that are no system call: output only.
SysPrint ==
    /\ Executing(Op.SYS)
    /\ imm # SysExit
    /\ Retire(pc)
    /\ UNCHANGED <<mem, regs, sp, flags, state>>

Unknown == \E op \in 0 .. OpSpan - 1 : op \notin Opcodes /\ Executing(op) /\ Trap

\* The pc check at the head of dez_vm_step.
PcOutOfBounds ==
    /\ at = "step"
    /\ state = "RUNNING"
    /\ pc \notin Address
    /\ state' = "ERROR"
    /\ at' = "count"
    /\ UNCHANGED <<mem, protection, regs, pc, sp, flags, step_count>>

DataStep ==
    \/ Mov \/ Load \/ Store
    \/ Add \/ Sub \/ Mul \/ Div \/ DivByZero
    \/ And \/ Or \/ Xor \/ Not \/ Shl \/ Shr \/ Inc \/ Dec
    \/ LoadIndirect \/ StoreIndirect \/ LoadIndexed \/ StoreIndexed
    \/ Cmp

ControlStep ==
    \/ Jmp \/ Jz \/ Jnz \/ Jl \/ Jg \/ Jle \/ Jge
    \/ Nop \/ Halt \/ SysStop \/ SysPrint \/ Unknown \/ PcOutOfBounds

StackStep == Push \/ Pop \/ Call \/ Ret \/ StackOverflow \/ StackUnderflow

\* dez_vm_step
Step == DataStep \/ ControlStep \/ StackStep

----------------------------------------------------------------------------
(* The loop of dez_vm_run. *)

LoopTest ==
    /\ at = "while"
    /\ at' = IF state = "RUNNING" THEN "step" ELSE "done"
    /\ UNCHANGED <<mem, protection, regs, pc, sp, flags, state, step_count>>

\* Mutant: the limit is tested one step late.
LimitHitLate(n) == n > MaxSteps + 1

LimitHit(n) == n > MaxSteps

\* Mutant: steps are not counted.
CountStepForgets ==
    /\ at = "count"
    /\ at' = "while"
    /\ UNCHANGED <<mem, protection, regs, pc, sp, flags, state, step_count>>

\* The step limit, tested after the step whatever the step did.
CountStep ==
    /\ at = "count"
    /\ step_count' = step_count + 1
    /\ IF LimitHit(step_count')
         THEN state' = "ERROR" /\ at' = "done"
         ELSE state' = state /\ at' = "while"
    /\ UNCHANGED <<mem, protection, regs, pc, sp, flags>>

\* dez_vm_run has returned.
Returned == at = "done" /\ UNCHANGED vars

Next == LoopTest \/ Step \/ CountStep \/ Returned

\* The loop is sequential code: it goes on for as long as it can.
Spec == Init /\ [][Next]_vars /\ WF_vars(Next)

----------------------------------------------------------------------------
(* Correctness. *)

\* The stack pointer never leaves the stack segment by more than the one slot
\* below it that a full stack needs, whatever sequence of PUSH, POP, CALL and
\* RET a program makes (the tests before them in dez_instruction_table.h).
StackBounds == sp \in StackStart - 1 .. StackEnd

\* The code segment stays as it was loaded except for the word a STORE
\* instruction names: neither the stack instructions nor the indirect and
\* indexed stores ever reach it.
CodeIntegrity ==
    [][\A a \in CodeSegment :
          mem'[a] # mem[a] => Executing(Op.STORE) /\ imm = a]_vars

\* An instruction that fails has no effect: registers, flags, stack pointer
\* and memory are those of the instruction's start.  (The step limit may
\* turn a finished instruction into an error, at "count".)
PreciseErrors ==
    [][state' = "ERROR" /\ at = "step" => UNCHANGED <<mem, regs, sp, flags>>]_vars

\* Between two comparisons the flags say exactly one of less, equal and
\* greater (or nothing, before the first): JZ is never taken together with JL
\* or JG, and one of JL and JGE always is.
FlagsTrichotomy ==
    flags \in {{}, {"EQUAL", "ZERO"}, {"LESS"}, {"GREATER"}}

\* A run makes at most MaxSteps + 1 steps, and one that makes the last of
\* them ends in ERROR.
StepBound ==
    /\ step_count <= MaxSteps + 1
    /\ step_count > MaxSteps => at = "done" /\ state = "ERROR"

\* dez_vm_run returns, whatever the program, and never in state RUNNING.
Termination == <>[](at = "done" /\ state # "RUNNING")

\* The words on the stack, first pushed first.
StackContents == [i \in 1 .. StackEnd - sp |-> mem[StackEnd + 1 - i]]

\* The machine's stack, seen through StackContents, is a bounded LIFO stack:
\* PUSH and CALL add a word at its end, POP and RET take the last word off, a
\* full stack refuses the push, and only stores to memory touch its inside.
Stack == INSTANCE BoundedStack
           WITH Values <- Word, Capacity <- MemWords - 1 - DataEnd, stack <- StackContents

ImplementsStack == Stack!Spec

\* PUSH puts its register, and CALL the address after it, at the end of the
\* sequence; POP hands over the word at the end, and RET goes back to it.
LastInFirstOut ==
    [][/\ sp' < sp =>
            \/ Executing(Op.PUSH) /\ StackContents'[StackEnd - sp'] = regs[r1]
            \/ Executing(Op.CALL) /\ StackContents'[StackEnd - sp'] = pc + 1
       /\ sp' > sp =>
            \/ Executing(Op.POP) /\ regs'[r1] = StackContents[StackEnd - sp]
            \/ Executing(Op.RET) /\ pc' = StackContents[StackEnd - sp]]_vars

----------------------------------------------------------------------------
(* Claims of the repository's documents and comments that the code refutes. *)

\* "Code Segment: 0x0000 - 0x0FFF (4KB, read-only)" (README.md:24).
CodeReadOnly ==
    [][protection.code_readonly => \A a \in CodeSegment : mem'[a] = mem[a]]_vars

\* "JZ label - Jump if zero flag set" (README.md:131).
TakenJumpLands ==
    [][Executing(Op.JZ) /\ "ZERO" \in flags => pc' = imm]_vars
=============================================================================
