-------------------------- MODULE DezMachineProofs -------------------------
(***************************************************************************)
(* Proofs about the virtual machine (DezVM) for every memory layout, word  *)
(* width, step limit and set of programs that the assumptions of its       *)
(* modules allow, and about the loader and its callers (DezHost) for every *)
(* set of files.                                                           *)
(*                                                                         *)
(* First the types of what the instructions compute, the inductive         *)
(* invariant of a run, the action properties, and the refinement of        *)
(* BoundedStack; then the invariant of loading and running in any order.   *)
(***************************************************************************)
EXTENDS DezHost, DezISALemmas, DezMemoryProofs


\* The memory layout of the assumptions, in the form the steps below use.
LEMMA Layout ==
    /\ MemWords \in Nat /\ CodeEnd \in Nat /\ DataEnd \in Nat
    /\ WordSpan \in Nat \ {0}
    /\ StackStart = DataEnd + 1 /\ StackEnd = MemWords - 1
    /\ CodeEnd < DataEnd /\ DataEnd < MemWords - 1 /\ MemWords < WordSpan
    /\ \A a \in Address : a \in Word
    /\ 0 \in Word
  BY MemoryAssumption, WordAssumption DEF StackStart, StackEnd, Address, Word

\* Every register field names a register and every immediate an address.
LEMMA Fields ==
    ASSUME NEW w \in Word
    PROVE  /\ Reg1(w) \in Register /\ Reg2(w) \in Register /\ Reg3(w) \in Register
           /\ Imm(w) \in Address /\ Imm(w) \in Word
           /\ ExtImm(w) \in Word
<1>1. NReg \in Nat \ {0} /\ ImmSpan \in Nat \ {0}
  BY ISAAssumption
<1>2. NReg * ImmSpan \in Nat \ {0}
  BY <1>1, ProductPositive
<1>3. NReg * (NReg * ImmSpan) \in Nat \ {0}
  BY <1>1, <1>2, ProductPositive
<1>4. w \in Nat
  BY Layout DEF Word
<1>5. /\ w \div (NReg * (NReg * ImmSpan)) \in Nat
      /\ w \div (NReg * ImmSpan) \in Nat
      /\ w \div ImmSpan \in Nat
  BY <1>1, <1>2, <1>3, <1>4, DivNat
<1>6. Reg1(w) \in Register /\ Reg2(w) \in Register /\ Reg3(w) \in Register
  <2>1. \A a \in Nat : a % NReg \in 0 .. NReg - 1
    BY <1>1, ModRange
  <2>. QED
    BY <1>5, <2>1 DEF Reg1, Reg2, Reg3, Register
<1>7. Imm(w) \in 0 .. ImmSpan - 1
  BY <1>1, <1>4, ModRange DEF Imm
<1>8. Imm(w) \in Address /\ Imm(w) \in Word
  BY <1>1, <1>7, ISAAssumption, VMAssumption, Layout DEF Address
<1>9. ImmSpan \div 2 \in Nat \ {0} /\ ImmSpan \div 2 <= ImmSpan
  BY ISAAssumption
<1>10. ExtImm(w) \in 0 .. (ImmSpan \div 2) - 1
  <2>1. \A a \in Nat : a % (ImmSpan \div 2) \in 0 .. (ImmSpan \div 2) - 1
    BY <1>9, ModRange
  <2>2. Imm(w) \in Nat
    BY <1>1, <1>7
  <2>. QED
    BY <2>1, <2>2 DEF ExtImm
<1>11. ExtImm(w) \in Word
  BY <1>1, <1>9, <1>10, ISAAssumption, VMAssumption, Layout DEF Word
<1>. QED
  BY <1>6, <1>8, <1>11

----------------------------------------------------------------------------
(* The inductive invariant.  A push lands in the stack segment because the  *)
(* stack pointer is bounded; the code segment is out of reach of WriteWord   *)
(* because its protection is never lifted during a run; and the step bound   *)
(* needs to know where in the loop the machine is.                          *)

Protected == protection = PowerOnProtection

StepCountInLoop == at # "done" => step_count <= MaxSteps

IInv ==
    /\ TypeOK
    /\ StackBounds
    /\ Protected
    /\ FlagsTrichotomy
    /\ StepCountInLoop
    /\ StepBound

\* What every instruction finds when its handler starts.
LEMMA Operands ==
    ASSUME TypeOK, pc \in Address
    PROVE  /\ instruction \in Word
           /\ r1 \in Register /\ regs[r1] \in Word
           /\ imm \in Address /\ imm \in Word
           /\ R2 \in Word /\ R3 \in Word
           /\ Operand \in Word /\ Comparand \in Word
<1>1. instruction \in Word
  BY DEF TypeOK, instruction
<1>2. /\ Reg1(instruction) \in Register /\ Reg2(instruction) \in Register
      /\ Reg3(instruction) \in Register
      /\ Imm(instruction) \in Address /\ Imm(instruction) \in Word
      /\ ExtImm(instruction) \in Word
  BY <1>1, Fields
<1>3. R2 \in Word /\ R3 \in Word /\ regs[r1] \in Word
  BY <1>2 DEF TypeOK, R2, R3, r1
<1>. QED
  BY <1>1, <1>2, <1>3 DEF r1, imm, Operand, Comparand

LEMMA ReadWordType == ASSUME TypeOK, NEW a PROVE ReadWord(a) \in Word
  BY Layout DEF TypeOK, ReadWord

LEMMA WriteWordType ==
    ASSUME TypeOK, NEW a, NEW v \in Word, WriteWord(a, v)
    PROVE  mem' \in [Address -> Word]
  BY DEF TypeOK, WriteWord, WriteAccepted

\* dez_vm_step always leaves a natural number in the pc.
LEMMA RetireType ==
    ASSUME TypeOK, NEW next \in Nat, Retire(next)
    PROVE  /\ pc' \in Nat
           /\ at' = "count" /\ protection' = protection /\ step_count' = step_count
<1>1. PcIncrement(Opcode(instruction)) \in Nat
  BY DEF PcIncrement
<1>2. pc + PcIncrement(Opcode(instruction)) \in Nat
  BY <1>1 DEF TypeOK
<1>. QED
  BY <1>2 DEF Retire
\* What one instruction has to preserve, and what it leaves to the loop.
MachineOK == TypeOK /\ StackBounds /\ Protected /\ FlagsTrichotomy

StepOK == MachineOK' /\ at' = "count" /\ step_count' = step_count

\* The shapes handlers share.
LEMMA SetRegisterOK ==
    ASSUME MachineOK, pc \in Address, NEW op, NEW v \in Word, SetRegister(op, v)
    PROVE  StepOK
<1>1. regs' \in [Register -> Word]
  BY Operands DEF MachineOK, SetRegister, TypeOK
<1>2. pc' \in Nat /\ at' = "count" /\ protection' = protection /\ step_count' = step_count
  BY RetireType DEF MachineOK, SetRegister, TypeOK
<1>3. mem' = mem /\ sp' = sp /\ flags' = flags /\ state' = state
  BY DEF SetRegister
<1>. QED
  BY <1>1, <1>2, <1>3
     DEF MachineOK, StepOK, TypeOK, StackBounds, Protected, FlagsTrichotomy, Control

LEMMA TrapOK ==
    ASSUME MachineOK, Trap
    PROVE  StepOK
<1>1. pc' \in Nat /\ at' = "count" /\ protection' = protection /\ step_count' = step_count
  BY RetireType DEF MachineOK, Trap, TypeOK
<1>2. mem' = mem /\ regs' = regs /\ sp' = sp /\ flags' = flags /\ state' = "ERROR"
  BY DEF Trap
<1>. QED
  BY <1>1, <1>2
     DEF MachineOK, StepOK, TypeOK, StackBounds, Protected, FlagsTrichotomy, Control, VMState

LEMMA JumpOK ==
    ASSUME MachineOK, pc \in Address, NEW op, NEW taken, Jump(op, taken)
    PROVE  StepOK
<1>1. (IF taken THEN imm ELSE pc) \in Nat
  BY Operands DEF Address, MachineOK, TypeOK
<1>2. pc' \in Nat /\ at' = "count" /\ protection' = protection /\ step_count' = step_count
  BY <1>1, RetireType DEF MachineOK, Jump, TypeOK
<1>3. mem' = mem /\ regs' = regs /\ sp' = sp /\ flags' = flags /\ state' = state
  BY DEF Jump
<1>. QED
  BY <1>2, <1>3
     DEF MachineOK, StepOK, TypeOK, StackBounds, Protected, FlagsTrichotomy, Control

LEMMA StoreToOK ==
    ASSUME MachineOK, pc \in Address, NEW op, NEW a, StoreTo(op, a)
    PROVE  StepOK
<1>1. mem' \in [Address -> Word]
  BY Operands, WriteWordType DEF StoreTo, MachineOK
<1>2. pc' \in Nat /\ at' = "count" /\ protection' = protection /\ step_count' = step_count
  BY RetireType DEF MachineOK, StoreTo, TypeOK
<1>3. regs' = regs /\ sp' = sp /\ flags' = flags /\ state' = state
  BY DEF StoreTo
<1>. QED
  BY <1>1, <1>2, <1>3
     DEF MachineOK, StepOK, TypeOK, StackBounds, Protected, FlagsTrichotomy, Control

\* A step that changes neither the registers nor the stack, and ends the run
\* or goes on.
LEMMA QuietOK ==
    ASSUME MachineOK, Retire(pc), UNCHANGED <<mem, regs, sp, flags>>, state' \in VMState
    PROVE  StepOK
<1>1. pc' \in Nat /\ at' = "count" /\ protection' = protection /\ step_count' = step_count
  BY RetireType DEF MachineOK, TypeOK
<1>. QED
  BY <1>1
     DEF MachineOK, StepOK, TypeOK, StackBounds, Protected, FlagsTrichotomy, Control

LEMMA DataStepOK == ASSUME MachineOK, DataStep PROVE StepOK
<1>. TypeOK
  BY DEF MachineOK
<1>1. pc \in Address
  BY DEF DataStep, Executing, SetRegister, Mov, Load, Store, Add, Sub, Mul, Div, DivByZero,
         And, Or, Xor, Not, Shl, Shr, Inc, Dec, LoadIndirect, StoreIndirect,
         LoadIndexed, StoreIndexed, LoadFrom, StoreTo, BadAddress, Cmp
<1>2. /\ R2 \in Word /\ R3 \in Word /\ regs[r1] \in Word
      /\ Operand \in Word /\ Comparand \in Word /\ imm \in Word
      /\ r1 \in Register /\ imm \in Address
  BY <1>1, Operands
<1>3. /\ R2 \in Nat /\ R3 \in Nat /\ regs[r1] \in Nat /\ Operand \in Nat
  BY <1>2, Layout DEF Word
<1>4. CASE Mov
  BY <1>1, <1>2, <1>4, SetRegisterOK DEF Mov
<1>5. CASE Load
  BY <1>1, <1>5, ReadWordType, SetRegisterOK DEF Load
<1>6. CASE Store
  <2>1. mem' \in [Address -> Word]
    BY <1>2, <1>6 DEF Store, TypeOK
  <2>2. pc' \in Nat /\ at' = "count" /\ protection' = protection /\ step_count' = step_count
    BY <1>6, RetireType DEF Store, TypeOK
  <2>3. regs' = regs /\ sp' = sp /\ flags' = flags /\ state' = state
    BY <1>6 DEF Store
  <2>. QED
    BY <2>1, <2>2, <2>3
       DEF MachineOK, StepOK, TypeOK, StackBounds, Protected, FlagsTrichotomy, Control
<1>7. CASE Add
  <2>1. Wrap(R2 + Operand) \in Word
    BY <1>3, WrapWord
  <2>. QED
    BY <1>1, <1>7, <2>1, SetRegisterOK DEF Add
<1>8. CASE Sub
  <2>1. Wrap(R2 - Operand) \in Word
    BY <1>3, WrapWord
  <2>. QED
    BY <1>1, <1>8, <2>1, SetRegisterOK DEF Sub
<1>9. CASE Mul
  <2>1. Wrap(R2 * Operand) \in Word
    BY <1>3, WrapWord
  <2>. QED
    BY <1>1, <1>9, <2>1, SetRegisterOK DEF Mul
<1>10. CASE Div
  <2>1. R2 \div Operand \in Word
    BY <1>2, <1>3, <1>10, DivWord DEF Div
  <2>. QED
    BY <1>1, <1>10, <2>1, SetRegisterOK DEF Div
<1>11. CASE DivByZero
  BY <1>11, TrapOK DEF DivByZero
<1>12. CASE And \/ Or \/ Xor \/ Not
  <2>1. /\ BitAnd(R2, R3) \in Word /\ BitOr(R2, R3) \in Word
        /\ BitXor(R2, R3) \in Word /\ BitNot(R2) \in Word
    BY <1>2, BitwiseWord
  <2>. QED
    BY <1>1, <1>12, <2>1, SetRegisterOK DEF And, Or, Xor, Not
<1>13. CASE Shl
  <2>1. PICK n \in ShiftCounts(R3) : SetRegister(Op.SHL, ShiftLeft(R2, n))
    BY <1>13 DEF Shl
  <2>2. n \in Nat
    BY <1>2, <1>3, ShiftWord
  <2>3. ShiftLeft(R2, n) \in Word
    BY <1>2, <2>2, ShiftWord
  <2>. QED
    BY <1>1, <2>1, <2>3, SetRegisterOK
<1>14. CASE Shr
  <2>1. PICK n \in ShiftCounts(R3) : SetRegister(Op.SHR, ShiftRight(R2, n))
    BY <1>14 DEF Shr
  <2>2. n \in Nat
    BY <1>2, <1>3, ShiftWord
  <2>3. ShiftRight(R2, n) \in Word
    BY <1>2, <2>2, ShiftWord
  <2>. QED
    BY <1>1, <2>1, <2>3, SetRegisterOK
<1>15. CASE Inc
  <2>1. Wrap(regs[r1] + 1) \in Word
    BY <1>3, WrapWord
  <2>. QED
    BY <1>1, <1>15, <2>1, SetRegisterOK DEF Inc
<1>16. CASE Dec
  <2>1. Wrap(regs[r1] - 1) \in Word
    BY <1>3, WrapWord
  <2>. QED
    BY <1>1, <1>16, <2>1, SetRegisterOK DEF Dec
<1>17. CASE LoadIndirect
  BY <1>1, <1>17, ReadWordType, SetRegisterOK, TrapOK DEF LoadIndirect, LoadFrom, BadAddress
<1>18. CASE StoreIndirect
  BY <1>1, <1>18, StoreToOK, TrapOK DEF StoreIndirect, BadAddress
<1>19. CASE LoadIndexed
  BY <1>1, <1>19, ReadWordType, SetRegisterOK, TrapOK DEF LoadIndexed, LoadFrom, BadAddress
<1>20. CASE StoreIndexed
  BY <1>1, <1>20, StoreToOK, TrapOK DEF StoreIndexed, BadAddress
<1>21. CASE Cmp
  <2>1. flags' \in {{"EQUAL", "ZERO"}, {"LESS"}, {"GREATER"}}
    BY <1>21 DEF Cmp, Comparison
  <2>2. flags' \in SUBSET Flag
    BY <2>1 DEF Flag
  <2>3. pc' \in Nat /\ at' = "count" /\ protection' = protection /\ step_count' = step_count
    BY <1>21, RetireType DEF Cmp, TypeOK
  <2>4. mem' = mem /\ regs' = regs /\ sp' = sp /\ state' = state
    BY <1>21 DEF Cmp
  <2>. QED
    BY <2>1, <2>2, <2>3, <2>4
       DEF MachineOK, StepOK, TypeOK, StackBounds, Protected, FlagsTrichotomy, Control
<1>. QED
  BY <1>4, <1>5, <1>6, <1>7, <1>8, <1>9, <1>10, <1>11, <1>12, <1>13, <1>14,
     <1>15, <1>16, <1>17, <1>18, <1>19, <1>20, <1>21 DEF DataStep
LEMMA ControlStepOK == ASSUME MachineOK, ControlStep PROVE StepOK
<1>. TypeOK
  BY DEF MachineOK
<1>1. CASE Jmp \/ Jz \/ Jnz \/ Jl \/ Jg \/ Jle \/ Jge
  <2>1. pc \in Address
    BY <1>1 DEF Jmp, Jz, Jnz, Jl, Jg, Jle, Jge, Jump, Executing
  <2>. QED
    BY <1>1, <2>1, JumpOK DEF Jmp, Jz, Jnz, Jl, Jg, Jle, Jge
<1>2. CASE Nop
  BY <1>2, QuietOK DEF Nop, TypeOK
<1>3. CASE Halt \/ SysStop
  BY <1>3, QuietOK DEF Halt, SysStop, Halted, VMState
<1>4. CASE SysPrint
  BY <1>4, QuietOK DEF SysPrint, TypeOK
<1>5. CASE Unknown
  BY <1>5, TrapOK DEF Unknown
<1>6. CASE PcOutOfBounds
  BY <1>6
     DEF PcOutOfBounds, MachineOK, StepOK, TypeOK, StackBounds, Protected, FlagsTrichotomy,
         Control, VMState
<1>. QED
  BY <1>1, <1>2, <1>3, <1>4, <1>5, <1>6 DEF ControlStep

LEMMA StackStepOK == ASSUME MachineOK, StackStep PROVE StepOK
<1>. TypeOK
  BY DEF MachineOK
<1>1. sp \in Nat /\ StackStart - 1 <= sp /\ sp <= StackEnd
  BY Layout DEF MachineOK, StackBounds, TypeOK
<1>2. CASE Push \/ Call
  <2>1. pc \in Address
    BY <1>2 DEF Push, Call, Executing
  <2>2. regs[r1] \in Word /\ pc + 1 \in Word /\ imm \in Nat
    BY <2>1, Operands, Layout DEF Address, Word
  <2>3. mem' \in [Address -> Word]
    BY <1>2, <2>2, WriteWordType DEF Push, Call, PushWord
  <2>4. sp' \in StackStart - 1 .. StackEnd /\ sp' \in Nat
    BY <1>1, <1>2, Layout DEF Push, Call, PushWord, StackFull
  <2>5. pc' \in Nat /\ at' = "count" /\ protection' = protection /\ step_count' = step_count
    BY <1>2, <2>2, RetireType DEF Push, Call, TypeOK
  <2>6. regs' = regs /\ flags' = flags /\ state' = state
    BY <1>2 DEF Push, Call
  <2>. QED
    BY <2>3, <2>4, <2>5, <2>6, Layout
       DEF MachineOK, StepOK, TypeOK, StackBounds, Protected, FlagsTrichotomy, Control
<1>3. CASE Pop \/ Ret
  <2>1. pc \in Address
    BY <1>3 DEF Pop, Ret, Executing
  <2>2. Top \in Word /\ Top \in Nat
    BY ReadWordType, Layout DEF Top, Word
  <2>3. regs' \in [Register -> Word]
    BY <1>3, <2>1, <2>2, Operands DEF Pop, Ret, TypeOK
  <2>4. sp' \in StackStart - 1 .. StackEnd /\ sp' \in Nat
    BY <1>1, <1>3, Layout DEF Pop, Ret, StackEmpty
  <2>5. pc' \in Nat /\ at' = "count" /\ protection' = protection /\ step_count' = step_count
    BY <1>3, <2>2, RetireType DEF Pop, Ret, TypeOK
  <2>6. mem' = mem /\ flags' = flags /\ state' = state
    BY <1>3 DEF Pop, Ret
  <2>. QED
    BY <2>3, <2>4, <2>5, <2>6, Layout
       DEF MachineOK, StepOK, TypeOK, StackBounds, Protected, FlagsTrichotomy, Control
<1>4. CASE StackOverflow \/ StackUnderflow
  BY <1>4, TrapOK DEF StackOverflow, StackUnderflow
<1>. QED
  BY <1>2, <1>3, <1>4 DEF StackStep

LEMMA StepIsOK == ASSUME MachineOK, Step PROVE StepOK
  BY DataStepOK, ControlStepOK, StackStepOK DEF Step

\* An instruction is only executed inside the loop.
LEMMA StepInLoop == ASSUME Step PROVE at = "step" /\ state = "RUNNING"
  BY DEF Step, DataStep, ControlStep, StackStep, Executing, SetRegister, Mov, Load, Store,
         Add, Sub, Mul, Div, DivByZero, And, Or, Xor, Not, Shl, Shr, Inc, Dec,
         LoadIndirect, StoreIndirect, LoadIndexed, StoreIndexed, LoadFrom, StoreTo,
         BadAddress, Cmp, Jump, Jmp, Jz, Jnz, Jl, Jg, Jle, Jge, Nop, Halt, SysStop,
         SysPrint, Unknown, PcOutOfBounds, Push, Pop, Call, Ret, StackOverflow, StackUnderflow

LEMMA InitIInv == Init => IInv
<1>. SUFFICES ASSUME Init PROVE IInv
  OBVIOUS
<1>1. PICK image \in Images : mem = MemoryImage(image)
  BY DEF Init
<1>2. image \in Seq(Word)
  BY VMAssumption
<1>3. mem \in [Address -> Word]
  <2>1. ASSUME NEW a \in Address, a < Len(image)
        PROVE  image[a + 1] \in Word
    <3>1. a + 1 \in 1 .. Len(image)
      BY <1>2, <2>1, Layout DEF Address
    <3>. QED
      BY <1>2, <3>1
  <2>. QED
    BY <1>1, <2>1, Layout DEF MemoryImage
<1>4. TypeOK
  BY <1>3, Layout
     DEF Init, ResetCPU, TypeOK, PowerOnProtection, Protections, VMState, Control, Flag
<1>5. StackBounds /\ FlagsTrichotomy /\ Protected
  BY Layout DEF Init, ResetCPU, StackBounds, FlagsTrichotomy, Protected
<1>6. StepCountInLoop /\ StepBound
  BY VMAssumption DEF Init, StepCountInLoop, StepBound
<1>. QED
  BY <1>4, <1>5, <1>6 DEF IInv

LEMMA NextIInv == IInv /\ [Next]_vars => IInv'
<1>. SUFFICES ASSUME IInv, [Next]_vars PROVE IInv'
  OBVIOUS
<1>. USE VMAssumption
<1>1. MachineOK /\ step_count \in Nat
  BY DEF IInv, MachineOK, TypeOK
<1>2. CASE LoopTest
  BY <1>2
     DEF LoopTest, IInv, TypeOK, StackBounds, Protected, FlagsTrichotomy, StepCountInLoop,
         StepBound, Control
<1>3. CASE Step
  <2>1. StepOK /\ at = "step"
    BY <1>1, <1>3, StepIsOK, StepInLoop
  <2>2. step_count' <= MaxSteps /\ step_count' \in Nat
    BY <1>1, <2>1 DEF IInv, StepCountInLoop, StepOK
  <2>. QED
    BY <2>1, <2>2 DEF StepOK, MachineOK, IInv, StepCountInLoop, StepBound
<1>4. CASE CountStep
  <2>1. step_count <= MaxSteps /\ step_count' = step_count + 1
    BY <1>4 DEF CountStep, IInv, StepCountInLoop
  <2>2. StepCountInLoop' /\ StepBound'
    BY <1>1, <1>4, <2>1 DEF CountStep, StepCountInLoop, StepBound, LimitHit
  <2>3. TypeOK'
    BY <1>4, <2>1, <1>1 DEF CountStep, IInv, TypeOK, VMState, Control
  <2>. QED
    BY <1>4, <2>2, <2>3 DEF CountStep, IInv, StackBounds, Protected, FlagsTrichotomy
<1>5. CASE Returned \/ UNCHANGED vars
  BY <1>5
     DEF Returned, vars, IInv, TypeOK, StackBounds, Protected, FlagsTrichotomy,
         StepCountInLoop, StepBound
<1>. QED
  BY <1>2, <1>3, <1>4, <1>5 DEF Next

\* The inductive invariant holds of every state the machine reaches.
THEOREM Invariance == Spec => []IInv
  BY InitIInv, NextIInv, PTL DEF Spec

----------------------------------------------------------------------------
(* The invariants of the runs. *)

\* Registers and memory words never exceed the width of a word and the pc,
\* the flags and the loop's control point stay in their ranges: every handler
\* of the instruction table returns a machine of the right type.
THEOREM TypeCorrect == Spec => []TypeOK
  BY Invariance, PTL DEF IInv

\* The two stack tests of dez_instruction_table.h keep the stack pointer in
\* the stack segment, or one slot below it, for every program.
THEOREM StackStaysInBounds == Spec => []StackBounds
  BY Invariance, PTL DEF IInv

\* JL, JG and JZ exclude each other at every point of every program.
THEOREM FlagsAreExclusive == Spec => []FlagsTrichotomy
  BY Invariance, PTL DEF IInv

\* No run makes more than MaxSteps + 1 steps, whatever the step limit.
THEOREM RunIsBounded == Spec => []StepBound
  BY Invariance, PTL DEF IInv
----------------------------------------------------------------------------
(* What a step does to memory. *)

\* Instructions that leave memory alone.
LEMMA MemoryKept ==
    ASSUME Step, ~Store, ~StoreIndirect, ~StoreIndexed, ~Push, ~Call
    PROVE  mem' = mem
  BY DEF Step, DataStep, ControlStep, StackStep, SetRegister, Mov, Load,
         Add, Sub, Mul, Div, DivByZero, And, Or, Xor, Not, Shl, Shr, Inc, Dec,
         LoadIndirect, LoadIndexed, LoadFrom, BadAddress, Trap, Cmp, Jump, Jmp, Jz, Jnz,
         Jl, Jg, Jle, Jge, Nop, Halted, Halt, SysStop, SysPrint, Unknown, PcOutOfBounds,
         Pop, Ret, StackOverflow, StackUnderflow

\* A protected code segment is out of reach of memory_write_word.
LEMMA WriteWordKeepsCode ==
    ASSUME TypeOK, Protected, NEW a, NEW v, WriteWord(a, v), NEW c \in CodeSegment
    PROVE  mem'[c] = mem[c]
  BY DEF TypeOK, Protected, PowerOnProtection, WriteWord, WriteAccepted

LEMMA CodeIntegrityStep ==
    ASSUME IInv, [Next]_vars, NEW a \in CodeSegment, mem'[a] # mem[a]
    PROVE  Executing(Op.STORE) /\ imm = a
<1>. TypeOK /\ Protected
  BY DEF IInv
<1>1. Step
  BY DEF Next, LoopTest, CountStep, Returned, vars
<1>2. CASE Store
  <2>1. Executing(Op.STORE) /\ mem' = [mem EXCEPT ![imm] = regs[r1]]
    BY <1>2 DEF Store
  <2>. QED
    BY <2>1, Layout DEF TypeOK, CodeSegment, Address
<1>3. CASE StoreIndirect \/ StoreIndexed
  BY <1>3, WriteWordKeepsCode DEF StoreIndirect, StoreIndexed, StoreTo, BadAddress, Trap
<1>4. CASE Push \/ Call
  BY <1>4, WriteWordKeepsCode DEF Push, Call, PushWord
<1>. QED
  BY <1>1, <1>2, <1>3, <1>4, MemoryKept

\* The code segment changes by direct STORE instructions only.
THEOREM CodeIsKept == Spec => CodeIntegrity
<1>1. IInv /\ [Next]_vars =>
        [\A a \in CodeSegment : mem'[a] # mem[a] => Executing(Op.STORE) /\ imm = a]_vars
  BY CodeIntegrityStep
<1>. QED
  BY <1>1, Invariance, PTL DEF Spec, CodeIntegrity

\* A failing instruction leaves registers, flags, stack and memory as they
\* were, whichever of the instruction set's error paths it took.
THEOREM ErrorsArePrecise == Spec => PreciseErrors
<1>1. ASSUME Step, state' = "ERROR"
      PROVE  UNCHANGED <<mem, regs, sp, flags>>
  <2>1. state = "RUNNING"
    BY <1>1, StepInLoop
  <2>. QED
    BY <1>1, <2>1
       DEF Step, DataStep, ControlStep, StackStep, SetRegister, Mov, Load, Store,
           Add, Sub, Mul, Div, DivByZero, And, Or, Xor, Not, Shl, Shr, Inc, Dec,
           LoadIndirect, StoreIndirect, LoadIndexed, StoreIndexed, LoadFrom, StoreTo,
           BadAddress, Trap, Cmp, Jump, Jmp, Jz, Jnz, Jl, Jg, Jle, Jge, Nop, Halted, Halt,
           SysStop, SysPrint, Unknown, PcOutOfBounds, Push, Pop, Call, Ret,
           StackOverflow, StackUnderflow
<1>2. ASSUME Next, state' = "ERROR", at = "step"
      PROVE  UNCHANGED <<mem, regs, sp, flags>>
  BY <1>1, <1>2 DEF Next, LoopTest, CountStep, Returned, vars
<1>3. [Next]_vars => [state' = "ERROR" /\ at = "step" => UNCHANGED <<mem, regs, sp, flags>>]_vars
  BY <1>2
<1>. QED
  BY <1>3, PTL DEF Spec, PreciseErrors

----------------------------------------------------------------------------
(* The stack instructions implement a bounded LIFO stack (BoundedStack).   *)

\* The part of a memory m above a stack pointer s, seen as a sequence.
View(m, s) == [i \in 1 .. StackEnd - s |-> m[StackEnd + 1 - i]]

LEMMA ViewShape ==
    ASSUME NEW m \in [Address -> Word], NEW s \in StackStart - 1 .. StackEnd
    PROVE  /\ StackEnd - s \in Nat
           /\ View(m, s) \in Seq(Word)
           /\ Len(View(m, s)) = StackEnd - s
           /\ \A i \in 1 .. StackEnd - s : /\ StackEnd + 1 - i \in Address
                                           /\ View(m, s)[i] = m[StackEnd + 1 - i]
<1>. DEFINE n == StackEnd - s
<1>1. s \in Int /\ StackEnd \in Int /\ n \in Nat
  BY Layout
<1>2. \A i \in 1 .. n : StackEnd + 1 - i \in Address
  BY <1>1, Layout DEF Address
<1>3. View(m, s) \in [1 .. n -> Word]
  BY <1>2 DEF View
<1>4. View(m, s) \in Seq(Word) /\ Len(View(m, s)) = n
  <2>. HIDE DEF n
  <2>. QED
    BY <1>1, <1>3
<1>. QED
  BY <1>1, <1>2, <1>4 DEF View

\* What the refinement needs of the invariant, before and after a step.
LEMMA ContentsAreView ==
    ASSUME IInv, IInv'
    PROVE  /\ mem \in [Address -> Word] /\ mem' \in [Address -> Word]
           /\ sp \in StackStart - 1 .. StackEnd /\ sp' \in StackStart - 1 .. StackEnd
           /\ sp \in Int /\ sp' \in Int
           /\ StackContents = View(mem, sp) /\ StackContents' = View(mem', sp')
  BY DEF IInv, TypeOK, StackBounds, StackContents, View

\* A push writes the slot the stack pointer names, which becomes the last word.
LEMMA PushedLast ==
    ASSUME IInv, IInv', NEW v \in Word, ~StackFull, PushWord(v)
    PROVE  /\ StackContents'[StackEnd - sp'] = v
           /\ Stack!Push
<1>1. sp \in StackStart .. StackEnd /\ sp' = sp - 1
  BY ContentsAreView, Layout DEF StackFull, PushWord
<1>2. sp \in Address /\ sp \notin CodeSegment
  BY <1>1, Layout DEF Address, CodeSegment
<1>3. mem' = [mem EXCEPT ![sp] = v]
  BY <1>2 DEF PushWord, WriteWord, WriteAccepted
<1>. DEFINE n == StackEnd - sp
<1>4. n \in Nat /\ StackEnd - sp' = n + 1 /\ n < MemWords - 1 - DataEnd
  BY <1>1, Layout
<1>5. /\ Len(StackContents) = n
      /\ \A i \in 1 .. n : /\ StackEnd + 1 - i \in Address
                           /\ StackContents[i] = mem[StackEnd + 1 - i]
  BY ContentsAreView, ViewShape
<1>6. /\ Len(StackContents') = n + 1
      /\ \A i \in 1 .. n + 1 : StackContents'[i] = mem'[StackEnd + 1 - i]
  BY <1>4, ContentsAreView, ViewShape
<1>7. StackContents'[n + 1] = v
  <2>1. n + 1 \in 1 .. n + 1 /\ StackEnd + 1 - (n + 1) = sp
    BY <1>1, <1>4, Layout
  <2>2. mem'[sp] = v
    BY <1>2, <1>3, ContentsAreView
  <2>. QED
    BY <1>6, <2>1, <2>2
<1>8. ASSUME NEW i \in 1 .. n
      PROVE  StackContents'[i] = StackContents[i]
  <2>1. i \in 1 .. n + 1 /\ StackEnd + 1 - i # sp
    BY <1>1, <1>4, Layout
  <2>2. mem'[StackEnd + 1 - i] = mem[StackEnd + 1 - i]
    BY <1>3, <1>5, <2>1, ContentsAreView
  <2>. QED
    BY <1>5, <1>6, <2>1, <2>2
<1>. QED
  BY <1>4, <1>5, <1>6, <1>7, <1>8 DEF Stack!Push

\* POP and RET take the last word off.
LEMMA PopRefines ==
    ASSUME IInv, IInv', ~StackEmpty, sp' = sp + 1, mem' = mem
    PROVE  Stack!Pop
<1>. DEFINE n == StackEnd - sp
<1>1. n \in Nat \ {0} /\ StackEnd - sp' = n - 1
  BY ContentsAreView, Layout DEF StackEmpty
<1>2. /\ Len(StackContents) = n /\ StackContents \in Seq(Word)
      /\ \A i \in 1 .. n : StackContents[i] = mem[StackEnd + 1 - i]
  BY ContentsAreView, ViewShape
<1>3. /\ Len(StackContents') = n - 1 /\ StackContents' \in Seq(Word)
      /\ \A i \in 1 .. n - 1 : StackContents'[i] = mem[StackEnd + 1 - i]
  BY <1>1, ContentsAreView, ViewShape
<1>4. StackContents # <<>>
  BY <1>1, <1>2
<1>5. StackContents' = SubSeq(StackContents, 1, Len(StackContents) - 1)
  BY <1>1, <1>2, <1>3
<1>. QED
  BY <1>4, <1>5 DEF Stack!Pop

\* A store that leaves the stack pointer alone overwrites at most one word of
\* the stack.
LEMMA StoreRefines ==
    ASSUME IInv, IInv', sp' = sp, NEW a \in Address, NEW v \in Word,
           mem' = [mem EXCEPT ![a] = v]
    PROVE  Stack!Overwrite \/ UNCHANGED StackContents
<1>. DEFINE n == StackEnd - sp
<1>1. /\ n \in Nat /\ Len(StackContents) = n /\ StackContents \in Seq(Word)
      /\ \A i \in 1 .. n : /\ StackEnd + 1 - i \in Address
                           /\ StackContents[i] = mem[StackEnd + 1 - i]
  BY ContentsAreView, ViewShape
<1>2. /\ Len(StackContents') = n /\ StackContents' \in Seq(Word)
      /\ \A i \in 1 .. n : StackContents'[i] = mem'[StackEnd + 1 - i]
  <2>1. /\ Len(View(mem', sp')) = StackEnd - sp' /\ View(mem', sp') \in Seq(Word)
        /\ \A i \in 1 .. StackEnd - sp' : View(mem', sp')[i] = mem'[StackEnd + 1 - i]
    <3>. DEFINE m == mem' s == sp'
    <3>1. m \in [Address -> Word] /\ s \in StackStart - 1 .. StackEnd
      BY ContentsAreView
    <3>. HIDE DEF m, s
    <3>2. /\ Len(View(m, s)) = StackEnd - s /\ View(m, s) \in Seq(Word)
          /\ \A i \in 1 .. StackEnd - s : View(m, s)[i] = m[StackEnd + 1 - i]
      BY <3>1, ViewShape
    <3>. QED
      BY <3>2 DEF m, s
  <2>2. StackEnd - sp' = n
    OBVIOUS
  <2>. QED
    BY <2>1, <2>2, ContentsAreView
<1>3. \A b \in Address : b # a => mem'[b] = mem[b]
  BY ContentsAreView
<1>4. CASE StackEnd + 1 - a \in 1 .. n
  <2>. DEFINE i == StackEnd + 1 - a
  <2>1. a \in Int /\ StackEnd \in Int /\ StackEnd + 1 - i = a
    BY Layout DEF Address
  <2>2. StackContents'[i] \in Word
    BY <1>2, <1>4, <2>1, ContentsAreView
  <2>3. ASSUME NEW j \in 1 .. n, j # i
        PROVE  StackContents'[j] = StackContents[j]
    <3>1. StackEnd + 1 - j # a
      BY <2>1, <2>3
    <3>. QED
      BY <1>1, <1>2, <1>3, <3>1
  <2>. QED
    BY <1>1, <1>2, <1>4, <2>2, <2>3 DEF Stack!Overwrite
<1>5. CASE StackEnd + 1 - a \notin 1 .. n
  <2>1. ASSUME NEW i \in 1 .. n
        PROVE  StackContents'[i] = StackContents[i]
    <3>1. StackEnd + 1 - i # a
      BY <1>5, Layout
    <3>. QED
      BY <1>1, <1>2, <1>3, <3>1
  <2>. QED
    BY <1>1, <1>2, <2>1
<1>. QED
  BY <1>4, <1>5

LEMMA StepRefines ==
    ASSUME IInv, IInv', [Next]_vars
    PROVE  [Stack!Next]_StackContents
<1>. TypeOK /\ Protected
  BY DEF IInv
<1>1. CASE Push \/ Call
  <2>1. pc \in Address
    BY <1>1 DEF Push, Call, Executing
  <2>2. regs[r1] \in Word /\ pc + 1 \in Word
    BY <2>1, Operands, Layout DEF Address, Word
  <2>. QED
    BY <1>1, <2>2, PushedLast DEF Push, Call, Stack!Next
<1>2. CASE Pop \/ Ret
  BY <1>2, PopRefines DEF Pop, Ret, Stack!Next
<1>3. CASE Store
  <2>1. pc \in Address
    BY <1>3 DEF Store, Executing
  <2>2. regs[r1] \in Word /\ imm \in Address
    BY <2>1, Operands
  <2>3. mem' = [mem EXCEPT ![imm] = regs[r1]] /\ sp' = sp
    BY <1>3 DEF Store
  <2>. QED
    BY <2>2, <2>3, StoreRefines DEF Stack!Next
<1>4. CASE StoreIndirect \/ StoreIndexed
  <2>1. pc \in Address
    BY <1>4 DEF StoreIndirect, StoreIndexed, StoreTo, BadAddress, Executing
  <2>2. regs[r1] \in Word
    BY <2>1, Operands
  <2>3. CASE mem' = mem /\ sp' = sp
    BY <2>3 DEF StackContents
  <2>4. ASSUME NEW op, NEW a, StoreTo(op, a), mem' # mem
        PROVE  [Stack!Next]_StackContents
    <3>1. a \in Address /\ mem' = [mem EXCEPT ![a] = regs[r1]] /\ sp' = sp
      BY <2>4 DEF StoreTo, WriteWord
    <3>. QED
      BY <2>2, <3>1, StoreRefines DEF Stack!Next
  <2>5. sp' = sp
    BY <1>4 DEF StoreIndirect, StoreIndexed, StoreTo, BadAddress, Trap
  <2>. QED
    BY <1>4, <2>3, <2>4, <2>5 DEF StoreIndirect, StoreIndexed, BadAddress, Trap
<1>5. CASE Step /\ ~Push /\ ~Call /\ ~Pop /\ ~Ret /\ ~Store /\ ~StoreIndirect /\ ~StoreIndexed
  <2>1. mem' = mem
    BY <1>5, MemoryKept
  <2>2. sp' = sp
    BY <1>5
       DEF Step, DataStep, ControlStep, StackStep, SetRegister, Mov, Load,
           Add, Sub, Mul, Div, DivByZero, And, Or, Xor, Not, Shl, Shr, Inc, Dec,
           LoadIndirect, LoadIndexed, LoadFrom, BadAddress, Trap, Cmp, Jump, Jmp, Jz, Jnz,
           Jl, Jg, Jle, Jge, Nop, Halted, Halt, SysStop, SysPrint, Unknown, PcOutOfBounds,
           StackOverflow, StackUnderflow
  <2>. QED
    BY <2>1, <2>2 DEF StackContents
<1>6. CASE LoopTest \/ CountStep \/ Returned \/ UNCHANGED vars
  BY <1>6 DEF LoopTest, CountStep, Returned, vars, StackContents
<1>. QED
  BY <1>1, <1>2, <1>3, <1>4, <1>5, <1>6 DEF Next

\* PUSH, POP, CALL and RET together are a LIFO stack that holds as many words
\* as the stack segment has, and no instruction but a store to one of its
\* slots reaches inside it.
THEOREM StackRefinement == Spec => ImplementsStack
<1>1. Init => Stack!Init
  BY Layout DEF Init, ResetCPU, Stack!Init, StackContents
<1>2. IInv /\ IInv' /\ [Next]_vars => [Stack!Next]_StackContents
  BY StepRefines
<1>. QED
  BY <1>1, <1>2, Invariance, PTL DEF Spec, Stack!Spec, ImplementsStack

\* PUSH and CALL put their word at the end of that sequence; POP hands over,
\* and RET goes to, the word at its end.
THEOREM StackOrder == Spec => LastInFirstOut
<1>1. ASSUME IInv, IInv', [Next]_vars, sp' > sp
      PROVE  \/ Executing(Op.POP) /\ regs'[r1] = StackContents[StackEnd - sp]
             \/ Executing(Op.RET) /\ pc' = StackContents[StackEnd - sp]
  <2>. TypeOK
    BY <1>1 DEF IInv
  <2>1. Pop \/ Ret
    BY <1>1, ContentsAreView
       DEF Next, LoopTest, CountStep, Returned, vars, Step, DataStep, ControlStep, StackStep,
           SetRegister, Mov, Load, Store, StoreIndirect, StoreIndexed, StoreTo,
           Add, Sub, Mul, Div, DivByZero, And, Or, Xor, Not, Shl, Shr, Inc, Dec,
           LoadIndirect, LoadIndexed, LoadFrom, BadAddress, Trap, Cmp, Jump, Jmp, Jz, Jnz,
           Jl, Jg, Jle, Jge, Nop, Halted, Halt, SysStop, SysPrint, Unknown, PcOutOfBounds,
           Push, Call, PushWord, StackOverflow, StackUnderflow
  <2>2. sp < StackEnd /\ sp + 1 \in Address
    BY <2>1, <1>1, ContentsAreView, Layout DEF Pop, Ret, StackEmpty, Address
  <2>3. Top = StackContents[StackEnd - sp]
    <3>1. StackEnd - sp \in 1 .. StackEnd - sp /\ StackEnd + 1 - (StackEnd - sp) = sp + 1
      BY <1>1, <2>2, ContentsAreView, Layout
    <3>2. StackContents[StackEnd - sp] = mem[sp + 1]
      BY <1>1, <3>1, ContentsAreView, ViewShape
    <3>. QED
      BY <2>2, <3>2 DEF Top, ReadWord
  <2>4. CASE Pop
    <3>1. r1 \in Register
      BY <2>4, Operands DEF Pop, Executing
    <3>. QED
      BY <2>3, <2>4, <3>1 DEF Pop, TypeOK
  <2>5. CASE Ret
    \* pc_increment of RET is 0: a return to the RET itself stays there.
    <3>1. Executing(Op.RET) /\ Retire(Top)
      BY <2>5 DEF Ret
    <3>2. PcIncrement(Opcode(instruction)) = 0
      BY <3>1 DEF Executing, PcIncrement
    <3>3. pc' = Top
      BY <3>1, <3>2 DEF Retire, TypeOK
    <3>. QED
      BY <2>3, <3>1, <3>3
  <2>. QED
    BY <2>1, <2>4, <2>5
<1>2. ASSUME IInv, IInv', [Next]_vars, sp' < sp
      PROVE  \/ Executing(Op.PUSH) /\ StackContents'[StackEnd - sp'] = regs[r1]
             \/ Executing(Op.CALL) /\ StackContents'[StackEnd - sp'] = pc + 1
  <2>. TypeOK /\ Protected
    BY <1>2 DEF IInv
  <2>1. Push \/ Call
    BY <1>2, ContentsAreView
       DEF Next, LoopTest, CountStep, Returned, vars, Step, DataStep, ControlStep, StackStep,
           SetRegister, Mov, Load, Store, StoreIndirect, StoreIndexed, StoreTo,
           Add, Sub, Mul, Div, DivByZero, And, Or, Xor, Not, Shl, Shr, Inc, Dec,
           LoadIndirect, LoadIndexed, LoadFrom, BadAddress, Trap, Cmp, Jump, Jmp, Jz, Jnz,
           Jl, Jg, Jle, Jge, Nop, Halted, Halt, SysStop, SysPrint, Unknown, PcOutOfBounds,
           Pop, Ret, StackOverflow, StackUnderflow
  <2>2. pc \in Address
    BY <2>1 DEF Push, Call, Executing
  <2>3. regs[r1] \in Word /\ pc + 1 \in Word
    BY <2>2, Operands, Layout DEF Address, Word
  <2>. QED
    BY <1>2, <2>1, <2>3, PushedLast DEF Push, Call
<1>. QED
  BY <1>1, <1>2, Invariance, PTL DEF Spec, LastInFirstOut

----------------------------------------------------------------------------
(* The inductive invariant.                                                *)

\* The protection flags while the loader writes instructions and strings.
OpenedProtection ==
    [code_readonly |-> FALSE, data_writable |-> TRUE, stack_writable |-> TRUE]

Writing == {"code", "strings", "protect"}

\* The code segment is open while the loader writes.  Only an error leaves it
\* open afterwards.
ProtectionInv ==
    /\ protection \in {PowerOnProtection, OpenedProtection}
    /\ phase \in Writing => protection = OpenedProtection
    /\ phase \notin Writing /\ state # "ERROR" => protection = PowerOnProtection

\* The history names files of the host, the one being loaded last.
LoadsInv ==
    /\ file \in Files
    /\ loads \in Seq(Files)
    /\ Loading => loads # <<>> /\ loads[Len(loads)] = file

\* What the loader knows of the file in each phase.
ProgressInv ==
    /\ phase \in {"header", "size"} \union Writing => file.exists
    /\ phase \in {"size"} \union Writing => file.header # NoHeader /\ program_size = file.header
    /\ phase \in Writing => program_size \in 1 .. MaxProgramSize
    /\ phase \in {"open", "header", "size"} => position = 0
    /\ phase \in {"open", "header", "size", "code"} => current_addr = StringBase
    /\ phase = "code" => position = 4 * InstructionsRead /\ InstructionsRead <= program_size
    /\ phase \in {"strings", "protect"} =>
          position = 4 * program_size + (current_addr - StringBase)
    /\ phase = "protect" => ~MoreStringBytes

\* A run is recorded when it begins, and it leaves the machine stopped.
RunInv ==
    /\ phase = "run" => ran
    /\ calls = 0 /\ phase \notin {"run", "exit"} => ~ran /\ at = "while" /\ step_count = 0
    /\ phase = "run" /\ at = "done" => state # "RUNNING"

\* What the state says of the loads made so far, the current one not included
\* until it has ended.
CompleteUpTo(n) == \A k \in 1 .. n : Complete(loads[k])

OutcomeInv ==
    /\ phase = "main" => (state = "RUNNING" <=> ~ran /\ CompleteUpTo(Len(loads)))
    /\ Loading => (state = "RUNNING" <=> ~ran /\ CompleteUpTo(Len(loads) - 1))

ResetState ==
    /\ pc = 0 /\ sp = MemWords - 1 /\ flags = {}
    /\ \A r \in Register : regs[r] = 0

\* The machine was reset and nothing was executed since.
Ready == state = "RUNNING" /\ (phase = "main" \/ Loading \/ RunBegins)

ResetInv == Ready => ResetState

HostInv ==
    /\ HostTypeOK
    /\ StackBounds
    /\ FlagsTrichotomy
    /\ ProtectionInv
    /\ LoadsInv
    /\ ProgressInv
    /\ RunInv
    /\ OutcomeInv
    /\ ResetInv

\* The part of it about the machine.
MachineInv == TypeOK /\ StackBounds /\ FlagsTrichotomy

----------------------------------------------------------------------------
(* Facts about the constants and the files. *)

LEMMA LoaderConstants ==
    /\ MaxProgramSize \in Nat \ {0} /\ MaxProgramSize <= CodeEnd + 1
    /\ StringBase \in Nat /\ StringLimit \in Nat
    /\ StringBase < StringLimit /\ StringLimit <= 4 * (CodeEnd + 1)
    /\ StringBase \in ByteAddress /\ StringLimit \in ByteAddress
  BY LoaderAssumption, Layout DEF ByteAddress

LEMMA FileTyped ==
    ASSUME NEW f \in Files
    PROVE  IsFile(f) /\ Len(f.body) \in Nat
<1>1. IsFile(f)
  BY LoaderAssumption
<1>. QED
  BY <1>1 DEF IsFile

\* The machine is as it was, up to its state.
LEMMA MachineKept ==
    ASSUME MachineInv, UNCHANGED <<mem, protection, cpuVars>>, state' \in VMState
    PROVE  MachineInv'
  BY DEF MachineInv, TypeOK, StackBounds, FlagsTrichotomy, cpuVars

\* A change of the code segment's protection by the loader.
LEMMA ProtectionSet ==
    ASSUME protection \in {PowerOnProtection, OpenedProtection}, NEW readonly \in BOOLEAN,
           SetProtection("code", readonly)
    PROVE  protection' = IF readonly THEN PowerOnProtection ELSE OpenedProtection
<1>1. /\ protection \in Protections
      /\ protection.data_writable = TRUE /\ protection.stack_writable = TRUE
  <2>1. /\ PowerOnProtection \in Protections /\ OpenedProtection \in Protections
        /\ PowerOnProtection.data_writable = TRUE /\ PowerOnProtection.stack_writable = TRUE
        /\ OpenedProtection.data_writable = TRUE /\ OpenedProtection.stack_writable = TRUE
    BY DEF PowerOnProtection, OpenedProtection, Protections
  <2>. QED
    BY <2>1
<1>2. protection' = [code_readonly  |-> readonly,
                     data_writable  |-> protection.data_writable,
                     stack_writable |-> protection.stack_writable]
  <2>1. protection' = [protection EXCEPT !.code_readonly = readonly]
    BY DEF SetProtection
  <2>. QED
    BY <1>1, <2>1 DEF Protections
<1>3. CASE readonly = TRUE
  BY <1>1, <1>2, <1>3 DEF PowerOnProtection
<1>4. CASE readonly = FALSE
  BY <1>1, <1>2, <1>4 DEF OpenedProtection
<1>. QED
  BY <1>3, <1>4

\* An early return of the loader: the file was not complete.
LEMMA LoadErrorOK ==
    ASSUME HostInv, Loading, LoadError, UNCHANGED <<program_size, hostVars>>, ~Complete(file)
    PROVE  HostInv'
<1>. MachineInv /\ HostTypeOK /\ ProtectionInv /\ LoadsInv /\ RunInv /\ OutcomeInv
  BY DEF HostInv, MachineInv, HostTypeOK, LoaderTypeOK
<1>1. MachineInv'
  BY MachineKept DEF LoadError, VMState
<1>2. /\ phase' = "main" /\ state' = "ERROR" /\ protection' = protection
      /\ file' = file /\ position' = position /\ current_addr' = current_addr
      /\ program_size' = program_size /\ calls' = calls /\ loads' = loads /\ ran' = ran
      /\ at' = at /\ step_count' = step_count
  BY DEF LoadError, hostVars, cpuVars
<1>3. HostTypeOK'
  BY <1>1, <1>2 DEF HostTypeOK, LoaderTypeOK, MachineInv, Phase
<1>4. ProtectionInv' /\ LoadsInv' /\ ProgressInv' /\ ResetInv'
  BY <1>2 DEF ProtectionInv, LoadsInv, ProgressInv, ResetInv, Ready, Writing, Loading, RunBegins
<1>5. RunInv'
  BY <1>2 DEF RunInv, Loading
<1>6. ~CompleteUpTo(Len(loads))
  <2>1. Len(loads) \in 1 .. Len(loads) /\ loads[Len(loads)] = file
    BY DEF LoadsInv
  <2>. QED
    BY <2>1 DEF CompleteUpTo
<1>7. OutcomeInv'
  BY <1>2, <1>6 DEF OutcomeInv, Loading, CompleteUpTo
<1>. QED
  BY <1>1, <1>3, <1>4, <1>5, <1>7 DEF HostInv, MachineInv

\* A step inside a load changes nothing of the CPU and the history.
LEMMA LoadGoesOn ==
    ASSUME HostInv, Loading, phase' \in {"open", "header", "size", "code", "strings", "protect"},
           UNCHANGED <<cpuVars, state, hostVars, file>>
    PROVE  LoadsInv' /\ RunInv' /\ OutcomeInv' /\ ResetInv'
<1>1. LoadsInv'
  BY DEF HostInv, LoadsInv, Loading, hostVars
<1>2. RunInv'
  BY DEF HostInv, RunInv, Loading, hostVars, cpuVars
<1>3. OutcomeInv'
  BY DEF HostInv, OutcomeInv, Loading, hostVars, CompleteUpTo
<1>4. ResetInv'
  BY DEF HostInv, ResetInv, Ready, RunBegins, ResetState, Loading, cpuVars
<1>. QED
  BY <1>1, <1>2, <1>3, <1>4

LEMMA OpenFileOK == ASSUME HostInv, OpenFile, UNCHANGED hostVars PROVE HostInv'
<1>1. CASE ~file.exists
  BY <1>1, LoadErrorOK DEF OpenFile, Loading, Complete
<1>2. CASE file.exists
  <2>1. /\ phase = "open" /\ phase' = "header" /\ UNCHANGED <<vars, hostVars>>
        /\ UNCHANGED <<file, program_size, position, current_addr>>
    BY <1>2 DEF OpenFile, LoadError
  <2>. QED
    BY <1>2, <2>1
       DEF HostInv, HostTypeOK, LoaderTypeOK, TypeOK, StackBounds, FlagsTrichotomy,
           ProtectionInv, LoadsInv, ProgressInv, RunInv, OutcomeInv, ResetInv, Ready, Loading,
           Writing, RunBegins, vars, hostVars, Phase, CompleteUpTo, ResetState
<1>. QED
  BY <1>1, <1>2

LEMMA ReadHeaderOK == ASSUME HostInv, ReadHeader, UNCHANGED hostVars PROVE HostInv'
<1>1. CASE file.header = NoHeader
  BY <1>1, LoadErrorOK DEF ReadHeader, Loading, Complete
<1>2. CASE file.header # NoHeader
  <2>1. /\ phase = "header" /\ phase' = "size" /\ program_size' = file.header
        /\ UNCHANGED <<vars, hostVars, file, position, current_addr>>
    BY <1>2 DEF ReadHeader, LoadError
  <2>2. program_size' \in Word
    BY <1>2, <2>1 DEF HostInv, HostTypeOK, LoaderTypeOK, IsFile
  <2>. QED
    BY <1>2, <2>1, <2>2
       DEF HostInv, HostTypeOK, LoaderTypeOK, TypeOK, StackBounds, FlagsTrichotomy,
           ProtectionInv, LoadsInv, ProgressInv, RunInv, OutcomeInv, ResetInv, Ready, Loading,
           Writing, RunBegins, vars, hostVars, Phase, CompleteUpTo, ResetState
<1>. QED
  BY <1>1, <1>2

LEMMA CheckSizeOK == ASSUME HostInv, CheckSize, UNCHANGED hostVars PROVE HostInv'
<1>. phase = "size"
  BY DEF CheckSize
<1>. MachineInv /\ HostTypeOK /\ ProtectionInv /\ LoadsInv /\ ProgressInv /\ RunInv /\ OutcomeInv
  BY DEF HostInv, MachineInv, HostTypeOK, LoaderTypeOK
<1>1. program_size = file.header /\ file.header # NoHeader /\ program_size \in Nat
  BY Layout DEF ProgressInv, Writing, HostTypeOK, LoaderTypeOK, Word
<1>2. ValidSize(program_size) <=> program_size \in 1 .. MaxProgramSize
  BY <1>1, LoaderConstants DEF ValidSize
<1>3. CASE ~ValidSize(program_size)
  <2>1. ~Complete(file)
    BY <1>1, <1>2, <1>3 DEF Complete
  <2>. QED
    BY <1>3, <2>1, LoadErrorOK DEF CheckSize, Loading
<1>4. CASE ValidSize(program_size)
  <2>1. /\ phase' = "code" /\ SetProtection("code", FALSE)
        /\ UNCHANGED <<mem, cpuVars, state, hostVars>>
        /\ UNCHANGED <<file, program_size, position, current_addr>>
    BY <1>4 DEF CheckSize
  <2>2. protection' = OpenedProtection
    BY <2>1, ProtectionSet DEF ProtectionInv
  <2>3. OpenedProtection \in Protections
    BY DEF OpenedProtection, PowerOnProtection, Protections
  <2>4. HostTypeOK' /\ StackBounds' /\ FlagsTrichotomy'
    BY <2>1, <2>2, <2>3
       DEF HostTypeOK, LoaderTypeOK, MachineInv, TypeOK, StackBounds, FlagsTrichotomy, cpuVars,
           hostVars, Phase
  <2>5. ProgressInv'
    <3>1. position = 0 /\ current_addr = StringBase /\ file.exists
      BY DEF ProgressInv, Writing
    <3>2. InstructionsRead' = 0 /\ position' = 4 * InstructionsRead'
      BY <2>1, <3>1 DEF InstructionsRead
    <3>. QED
      BY <1>1, <1>2, <1>4, <2>1, <3>1, <3>2 DEF ProgressInv, Writing
  <2>. QED
    BY <2>1, <2>2, <2>4, <2>5, LoadGoesOn DEF HostInv, ProtectionInv, Loading, Writing
<1>. QED
  BY <1>3, <1>4

\* The word the instruction loop puts into memory.
LEMMA LittleEndian ==
    ASSUME NEW s \in Seq(Byte), NEW p \in Nat, p + 4 <= Len(s)
    PROVE  /\ LittleEndianWord(s, p) \in Word
           /\ \A b \in Nat : ByteOf(LittleEndianWord(s, p), b) = s[p + (4 - (b % 4))]
<1>. DEFINE d == [k \in 0 .. 3 |-> s[p + (4 - k)]]
<1>1. d \in Bytes
  BY DEF Bytes
<1>2. d[0] = s[p + 4] /\ d[1] = s[p + 3] /\ d[2] = s[p + 2] /\ d[3] = s[p + 1]
  OBVIOUS
<1>3. /\ s[p + 4] \in Nat /\ s[p + 3] \in Nat /\ s[p + 2] \in Nat /\ s[p + 1] \in Nat
  BY ByteWidths DEF Byte
<1>4. LittleEndianWord(s, p) = WordOf(d)
  <2>. DEFINE x == s[p + 4] y == s[p + 3] z == s[p + 2] t == s[p + 1]
  <2>1. /\ LittleEndianWord(s, p) = t + ByteSpan * (z + ByteSpan * (y + ByteSpan * x))
        /\ WordOf(d) = ByteSpan * (ByteSpan * (ByteSpan * x + y) + z) + t
    BY <1>2 DEF LittleEndianWord, WordOf, Compose
  <2>2. x \in Nat /\ y \in Nat /\ z \in Nat /\ t \in Nat /\ ByteSpan \in Nat
    BY <1>3, ByteWidths
  <2>. HIDE DEF x, y, z, t, d
  <2>. QED
    BY <2>1, <2>2
<1>5. ASSUME NEW b \in Nat
      PROVE  ByteOf(WordOf(d), b) = s[p + (4 - (b % 4))]
  <2>1. ByteOf(WordOf(d), b) = d[b % 4]
    <3>. HIDE DEF d
    <3>. QED
      BY <1>1, ByteOfWord
  <2>. QED
    BY <2>1, ByteOffset
<1>6. WordOf(d) \in Word
  <2>. HIDE DEF d
  <2>. QED
    BY <1>1, ByteOfWord
<1>. QED
  BY <1>4, <1>5, <1>6

LEMMA ReadInstructionOK == ASSUME HostInv, ReadInstruction, UNCHANGED hostVars PROVE HostInv'
<1>. phase = "code" /\ InstructionsRead < program_size
  BY DEF ReadInstruction
<1>. MachineInv /\ HostTypeOK /\ ProtectionInv /\ LoadsInv /\ ProgressInv /\ RunInv /\ OutcomeInv
  BY DEF HostInv, MachineInv, HostTypeOK, LoaderTypeOK
<1>1. /\ program_size = file.header /\ program_size \in 1 .. MaxProgramSize
      /\ position = 4 * InstructionsRead /\ InstructionsRead \in Nat /\ position \in Nat
      /\ file.body \in Seq(Byte) /\ Len(file.body) \in Nat
  BY FileTyped DEF ProgressInv, Writing, HostTypeOK, LoaderTypeOK, InstructionsRead, IsFile
<1>2. CASE position + 4 > Len(file.body)
  <2>1. ~Complete(file)
    BY <1>1, <1>2, LoaderConstants DEF Complete
  <2>2. LoadError /\ UNCHANGED program_size
    BY <1>1, <1>2 DEF ReadInstruction
  <2>. QED
    BY <2>1, <2>2, LoadErrorOK DEF Loading
<1>3. CASE position + 4 <= Len(file.body)
  <2>1. /\ WriteWord(InstructionsRead, LittleEndianWord(file.body, position))
        /\ position' = position + 4
        /\ UNCHANGED <<protection, cpuVars, state, hostVars>>
        /\ UNCHANGED <<file, phase, program_size, current_addr>>
    BY <1>1, <1>3 DEF ReadInstruction, LoadError
  <2>2. mem' \in [Address -> Word]
    BY <1>1, <1>3, <2>1, LittleEndian, WriteWordType DEF MachineInv
  <2>3. HostTypeOK' /\ StackBounds' /\ FlagsTrichotomy'
    BY <1>1, <1>3, <2>1, <2>2
       DEF HostTypeOK, LoaderTypeOK, MachineInv, TypeOK, StackBounds, FlagsTrichotomy, cpuVars,
           hostVars
  <2>4. ProgressInv'
    <3>1. InstructionsRead' = InstructionsRead + 1
      BY <1>1, <2>1 DEF InstructionsRead
    <3>2. position' = 4 * InstructionsRead' /\ InstructionsRead' <= program_size
      BY <1>1, <2>1, <3>1, LoaderConstants
    <3>. QED
      BY <2>1, <3>2 DEF ProgressInv, Writing
  <2>. QED
    BY <2>1, <2>3, <2>4, LoadGoesOn DEF HostInv, ProtectionInv, Loading, Writing
<1>. QED
  BY <1>1, <1>2, <1>3

LEMMA InstructionsDoneOK == ASSUME HostInv, InstructionsDone, UNCHANGED hostVars PROVE HostInv'
<1>. phase = "code" /\ InstructionsRead = program_size
  BY DEF InstructionsDone
<1>. HostTypeOK /\ ProgressInv
  BY DEF HostInv
<1>1. /\ phase' = IF Len(file.body) > position THEN "strings" ELSE "protect"
      /\ UNCHANGED <<vars, hostVars, file, program_size, position, current_addr>>
  BY DEF InstructionsDone
<1>2. /\ position = 4 * program_size /\ current_addr = StringBase
      /\ position \in Nat /\ StringBase \in Nat /\ Len(file.body) \in Nat
  BY LoaderConstants DEF ProgressInv, HostTypeOK, LoaderTypeOK, IsFile
<1>3. ProgressInv'
  <2>1. position = 4 * program_size + (current_addr - StringBase)
    BY <1>2
  <2>. QED
    BY <1>1, <1>2, <2>1 DEF ProgressInv, Writing, MoreStringBytes
<1>. QED
  BY <1>1, <1>3
     DEF HostInv, HostTypeOK, LoaderTypeOK, TypeOK, StackBounds, FlagsTrichotomy,
         ProtectionInv, LoadsInv, RunInv, OutcomeInv, ResetInv, Ready, Loading,
         Writing, RunBegins, vars, hostVars, Phase, CompleteUpTo, ResetState

LEMMA ReadStringByteOK == ASSUME HostInv, ReadStringByte, UNCHANGED hostVars PROVE HostInv'
<1>. phase = "strings"
  BY DEF ReadStringByte
<1>. MachineInv /\ HostTypeOK /\ ProtectionInv /\ LoadsInv /\ ProgressInv /\ RunInv /\ OutcomeInv
  BY DEF HostInv, MachineInv, HostTypeOK, LoaderTypeOK
<1>1. /\ position \in 0 .. Len(file.body) /\ Len(file.body) \in Nat /\ file.body \in Seq(Byte)
      /\ current_addr \in StringBase .. StringLimit /\ current_addr \in Nat
      /\ program_size \in Nat
      /\ position = 4 * program_size + (current_addr - StringBase)
  BY FileTyped, LoaderConstants, Layout
     DEF HostTypeOK, LoaderTypeOK, IsFile, ProgressInv, Word
<1>2. CASE MoreStringBytes
  <2>1. /\ WriteByte(current_addr, file.body[position + 1])
        /\ position' = position + 1 /\ current_addr' = current_addr + 1
        /\ UNCHANGED <<protection, cpuVars, state, file, phase, program_size, hostVars>>
    BY <1>2 DEF ReadStringByte
  <2>2. position < Len(file.body) /\ current_addr < StringLimit
    BY <1>2 DEF MoreStringBytes
  <2>3. file.body[position + 1] \in Byte
    BY <1>1, <2>2
  <2>4. mem' \in [Address -> Word]
    BY <1>1, <2>1, <2>3, WrittenByte DEF MachineInv, TypeOK
  <2>5. HostTypeOK' /\ StackBounds' /\ FlagsTrichotomy'
    BY <1>1, <2>1, <2>2, <2>4, LoaderConstants
       DEF HostTypeOK, LoaderTypeOK, MachineInv, TypeOK, StackBounds, FlagsTrichotomy, cpuVars,
           hostVars
  <2>6. ProgressInv'
    <3>1. position' = 4 * program_size' + (current_addr' - StringBase)
      BY <1>1, <2>1, LoaderConstants
    <3>. QED
      BY <2>1, <3>1 DEF ProgressInv, Writing
  <2>. QED
    BY <2>1, <2>5, <2>6, LoadGoesOn DEF HostInv, ProtectionInv, Loading, Writing
<1>3. CASE ~MoreStringBytes
  <2>1. /\ phase' = "protect"
        /\ UNCHANGED <<vars, hostVars, file, program_size, position, current_addr>>
    BY <1>3 DEF ReadStringByte
  <2>2. ProgressInv'
    BY <1>1, <1>3, <2>1 DEF ProgressInv, Writing, MoreStringBytes
  <2>. QED
    BY <2>1, <2>2
       DEF HostInv, HostTypeOK, LoaderTypeOK, TypeOK, StackBounds, FlagsTrichotomy,
           ProtectionInv, LoadsInv, RunInv, OutcomeInv, ResetInv, Ready, Loading,
           Writing, RunBegins, vars, hostVars, Phase, CompleteUpTo, ResetState
<1>. QED
  BY <1>2, <1>3

\* The end of a load that found everything it looked for: the file was
\* complete.
LEMMA ProtectOK == ASSUME HostInv, Protect, UNCHANGED hostVars PROVE HostInv'
<1>. phase = "protect"
  BY DEF Protect
<1>. MachineInv /\ HostTypeOK /\ ProtectionInv /\ LoadsInv /\ ProgressInv /\ RunInv /\ OutcomeInv
  BY DEF HostInv, MachineInv, HostTypeOK, LoaderTypeOK
<1>1. /\ phase' = "main" /\ SetProtection("code", TRUE)
      /\ UNCHANGED <<mem, cpuVars, state, hostVars>>
      /\ UNCHANGED <<file, program_size, position, current_addr>>
  BY DEF Protect
<1>2. protection' = PowerOnProtection
  BY <1>1, ProtectionSet DEF ProtectionInv
<1>3. PowerOnProtection \in Protections
  BY DEF PowerOnProtection, Protections
<1>4. HostTypeOK' /\ StackBounds' /\ FlagsTrichotomy'
  BY <1>1, <1>2, <1>3
     DEF HostTypeOK, LoaderTypeOK, MachineInv, TypeOK, StackBounds, FlagsTrichotomy, cpuVars,
         hostVars, Phase
<1>5. Complete(file)
  <2>1. /\ file.exists /\ file.header # NoHeader /\ file.header \in 1 .. MaxProgramSize
        /\ position = 4 * file.header + (current_addr - StringBase)
    BY DEF ProgressInv, Writing
  <2>2. /\ position \in 0 .. Len(file.body) /\ Len(file.body) \in Nat
        /\ current_addr \in StringBase .. StringLimit
    BY FileTyped DEF HostTypeOK, LoaderTypeOK, LoadsInv
  <2>3. Len(file.body) >= 4 * file.header
    BY <2>1, <2>2, LoaderConstants
  <2>. QED
    BY <2>1, <2>3 DEF Complete
<1>6. CompleteUpTo(Len(loads) - 1) <=> CompleteUpTo(Len(loads))
  <2>1. Len(loads) \in Nat /\ loads[Len(loads)] = file
    BY DEF LoadsInv, Loading
  <2>2. \A k \in 1 .. Len(loads) : k \in 1 .. Len(loads) - 1 \/ k = Len(loads)
    BY <2>1
  <2>3. \A k \in 1 .. Len(loads) - 1 : k \in 1 .. Len(loads)
    BY <2>1
  <2>. QED
    BY <1>5, <2>1, <2>2, <2>3 DEF CompleteUpTo
<1>7. OutcomeInv'
  <2>1. state = "RUNNING" <=> ~ran /\ CompleteUpTo(Len(loads))
    BY <1>6 DEF OutcomeInv, Loading
  <2>. QED
    BY <1>1, <2>1 DEF OutcomeInv, Loading, hostVars, CompleteUpTo
<1>. QED
  BY <1>1, <1>2, <1>4, <1>7
     DEF HostInv, ProtectionInv, LoadsInv, ProgressInv, RunInv, ResetInv, Ready,
         Loading, Writing, RunBegins, cpuVars, hostVars, ResetState

----------------------------------------------------------------------------
(* The run, and the calls of the host. *)

\* One step of dez_vm_run, made by whatever instruction is next.
LEMMA RunStep ==
    ASSUME HostInv, Run
    PROVE  /\ MachineInv' /\ protection' = protection
           /\ state' # "ERROR" => state # "ERROR"
           /\ at' = "done" => state' # "RUNNING"
           /\ ~(at' = "while" /\ step_count' = 0)
<1>. phase = "run" /\ (LoopTest \/ Step \/ CountStep)
  BY DEF Run
<1>. MachineInv /\ ProtectionInv /\ RunInv
  BY DEF HostInv, MachineInv, HostTypeOK, LoaderTypeOK
<1>1. CASE LoopTest
  BY <1>1 DEF LoopTest, RunInv, MachineInv, TypeOK, StackBounds, FlagsTrichotomy, Control
<1>2. CASE Step
  <2>1. state = "RUNNING"
    BY <1>2, StepInLoop
  <2>2. MachineOK
    BY <2>1 DEF MachineOK, MachineInv, Protected, ProtectionInv, Writing
  <2>. QED
    BY <1>2, <2>1, <2>2, StepIsOK DEF StepOK, MachineOK, MachineInv, Protected
<1>3. CASE CountStep
  <2>1. step_count' = step_count + 1 /\ step_count \in Nat
    BY <1>3 DEF CountStep, MachineInv, TypeOK
  <2>2. /\ UNCHANGED <<mem, protection, regs, pc, sp, flags>>
        /\ \/ state' = "ERROR" /\ at' = "done"
           \/ state' = state /\ at' = "while"
    BY <1>3 DEF CountStep
  <2>. QED
    BY <2>1, <2>2 DEF MachineInv, TypeOK, StackBounds, FlagsTrichotomy, Control, VMState
<1>. QED
  BY <1>1, <1>2, <1>3

LEMMA RunOK == ASSUME HostInv, Run, UNCHANGED hostVars PROVE HostInv'
<1>. phase = "run" /\ UNCHANGED loaderVars
  BY DEF Run
<1>. MachineInv /\ HostTypeOK /\ ProtectionInv /\ LoadsInv /\ RunInv
  BY DEF HostInv, MachineInv, HostTypeOK, LoaderTypeOK
<1>1. /\ phase' = "run" /\ file' = file /\ program_size' = program_size
      /\ position' = position /\ current_addr' = current_addr
      /\ calls' = calls /\ loads' = loads /\ ran' = ran
  BY DEF loaderVars, hostVars
<1>2. /\ MachineInv' /\ protection' = protection
      /\ state' # "ERROR" => state # "ERROR"
      /\ at' = "done" => state' # "RUNNING"
      /\ ~(at' = "while" /\ step_count' = 0)
  BY RunStep
<1>3. HostTypeOK'
  BY <1>1, <1>2 DEF HostTypeOK, LoaderTypeOK, MachineInv
<1>4. ProtectionInv' /\ LoadsInv' /\ ProgressInv'
  BY <1>1, <1>2 DEF ProtectionInv, LoadsInv, ProgressInv, Writing, Loading
<1>5. RunInv' /\ OutcomeInv' /\ ResetInv'
  BY <1>1, <1>2 DEF RunInv, OutcomeInv, ResetInv, Ready, RunBegins, Loading
<1>. QED
  BY <1>2, <1>3, <1>4, <1>5 DEF HostInv, MachineInv

\* A call or return that leaves the machine and the loader as they are.
LEMMA ControlMoves ==
    ASSUME HostInv, phase' \in {"main", "exit"},
           UNCHANGED <<vars, file, program_size, position, current_addr, hostVars>>
    PROVE  /\ HostTypeOK' /\ StackBounds' /\ FlagsTrichotomy' /\ LoadsInv' /\ ProgressInv'
           /\ phase \notin Writing => ProtectionInv'
  BY DEF HostInv, HostTypeOK, LoaderTypeOK, TypeOK, StackBounds, FlagsTrichotomy,
         ProtectionInv, LoadsInv, ProgressInv, Loading, Writing, vars, hostVars, Phase

LEMMA MainOK == ASSUME HostInv, MainGoesOn PROVE HostInv'
<1>. calls = 0 /\ calls' = calls /\ loads' = loads /\ ran' = (ran \/ phase' = "run")
  BY DEF MainGoesOn
<1>. HostTypeOK /\ ProtectionInv /\ RunInv /\ OutcomeInv /\ ResetInv
  BY DEF HostInv
<1>1. ran \in BOOLEAN
  BY DEF HostTypeOK
<1>2. CASE phase = "main" /\ phase' = "run" /\ LoadSucceeded /\ StartOrGiveUp
  <2>1. /\ UNCHANGED <<vars, file, program_size, position, current_addr>>
        /\ ran' = TRUE /\ at = "while" /\ state # "ERROR"
    BY <1>2 DEF StartOrGiveUp, RunInv, LoadSucceeded
  <2>2. ProtectionInv'
    BY <1>2, <2>1 DEF ProtectionInv, Writing, vars
  <2>3. RunInv' /\ OutcomeInv' /\ LoadsInv' /\ ProgressInv'
    BY <1>2, <2>1
       DEF HostInv, RunInv, OutcomeInv, LoadsInv, ProgressInv, Loading, Writing, vars
  <2>4. ResetInv'
    BY <1>2, <2>1 DEF ResetInv, Ready, RunBegins, ResetState, Loading, vars
  <2>5. HostTypeOK' /\ StackBounds' /\ FlagsTrichotomy'
    BY <1>2, <2>1
       DEF HostInv, HostTypeOK, LoaderTypeOK, TypeOK, StackBounds, FlagsTrichotomy, vars, Phase
  <2>. QED
    BY <2>2, <2>3, <2>4, <2>5 DEF HostInv
<1>3. CASE phase \in {"main", "run"} /\ phase' = "exit"
           /\ UNCHANGED <<vars, file, program_size, position, current_addr>>
  <2>1. UNCHANGED hostVars
    BY <1>1, <1>3 DEF hostVars
  <2>2. RunInv' /\ OutcomeInv' /\ ResetInv'
    BY <1>3, <2>1 DEF RunInv, OutcomeInv, ResetInv, Ready, RunBegins, Loading, hostVars
  <2>. QED
    BY <1>3, <2>1, <2>2, ControlMoves DEF HostInv, Writing
<1>4. CASE phase = "exit" /\ UNCHANGED allVars
  <2>1. phase' = "exit" /\ UNCHANGED <<vars, file, program_size, position, current_addr, hostVars>>
    BY <1>1, <1>4 DEF allVars, loaderVars, hostVars
  <2>2. RunInv' /\ OutcomeInv' /\ ResetInv'
    BY <1>4, <2>1 DEF RunInv, OutcomeInv, ResetInv, Ready, RunBegins, Loading, hostVars
  <2>. QED
    BY <1>4, <2>1, <2>2, ControlMoves DEF HostInv, Writing
<1>. QED
  BY <1>2, <1>3, <1>4
     DEF MainGoesOn, Main, StartOrGiveUp, ReturnFromMain, Exited, LoadSucceeded

\* The number of calls stays within its bound, and is not that of main again.
LEMMA CallCounted ==
    ASSUME HostInv, MakesCall
    PROVE  calls' \in 0 .. MaxCalls /\ calls' # 0 /\ phase = "main"
  BY HostAssumption DEF HostInv, HostTypeOK, MakesCall

LEMMA InitVMOK == ASSUME HostInv, InitVM PROVE HostInv'
<1>. calls' \in 0 .. MaxCalls /\ calls' # 0 /\ phase = "main"
  BY CallCounted DEF InitVM
<1>1. /\ phase' = "main" /\ state' = "RUNNING" /\ protection' = PowerOnProtection
      /\ loads' = <<>> /\ ran' = FALSE /\ program_size' = 0
      /\ UNCHANGED <<step_count, at, file, position, current_addr>>
  BY DEF InitVM
<1>2. TypeOK' /\ StackBounds' /\ FlagsTrichotomy' /\ ResetState'
  <2>1. ClearedMemory \in [Address -> Word] /\ PowerOnProtection \in Protections
    BY Layout DEF ClearedMemory, PowerOnProtection, Protections
  <2>2. MemWords - 1 \in Nat /\ MemWords - 1 \in StackStart - 1 .. StackEnd
    BY Layout
  <2>3. \A r \in Register : 0 \in Word
    BY Layout
  <2>4. step_count \in Nat /\ at \in Control
    BY DEF HostInv, HostTypeOK, LoaderTypeOK, TypeOK
  <2>. QED
    BY <2>1, <2>2, <2>3, <2>4
       DEF InitVM, TypeOK, StackBounds, FlagsTrichotomy, ResetState, VMState, Flag
<1>3. HostTypeOK'
  <2>1. \A k \in DOMAIN loads' : IsFile(loads'[k])
    BY <1>1
  <2>2. LoaderTypeOK'
    BY <1>1, <1>2, Layout DEF HostInv, HostTypeOK, LoaderTypeOK, Phase
  <2>. QED
    BY <1>1, <2>1, <2>2 DEF HostTypeOK
<1>4. ProtectionInv' /\ LoadsInv' /\ ProgressInv'
  BY <1>1 DEF HostInv, ProtectionInv, LoadsInv, ProgressInv, Writing, Loading
<1>5. RunInv' /\ OutcomeInv' /\ ResetInv'
  BY <1>1, <1>2 DEF RunInv, OutcomeInv, ResetInv, Loading, CompleteUpTo
<1>. QED
  BY <1>2, <1>3, <1>4, <1>5 DEF HostInv

\* A load begins: what the state says of the loads before it is kept.
LEMMA LoadAnotherOK == ASSUME HostInv, LoadAnother PROVE HostInv'
<1>. calls' \in 0 .. MaxCalls /\ calls' # 0 /\ phase = "main"
  BY CallCounted DEF LoadAnother
<1>. LoadsInv /\ OutcomeInv /\ HostTypeOK
  BY DEF HostInv
<1>1. PICK f \in Reloaded : file' = f /\ loads' = Append(loads, f)
  BY DEF LoadAnother
<1>2. /\ phase' = "open" /\ position' = 0 /\ current_addr' = StringBase
      /\ UNCHANGED <<vars, program_size, ran>>
  BY DEF LoadAnother
<1>3. f \in Files /\ IsFile(f) /\ loads \in Seq(Files)
  BY HostAssumption, FileTyped DEF LoadsInv
<1>4. /\ loads' \in Seq(Files) /\ Len(loads') = Len(loads) + 1 /\ Len(loads) \in Nat
      /\ loads'[Len(loads')] = f
      /\ \A k \in 1 .. Len(loads) : loads'[k] = loads[k]
  BY <1>1, <1>3
<1>5. LoadsInv'
  BY <1>1, <1>3, <1>4 DEF LoadsInv
<1>6. HostTypeOK'
  <2>1. \A k \in DOMAIN loads' : IsFile(loads'[k])
    BY <1>4, FileTyped
  <2>2. 0 \in 0 .. Len(f.body) /\ StringBase \in StringBase .. StringLimit
    BY <1>3, FileTyped, LoaderConstants
  <2>. QED
    BY <1>1, <1>2, <1>3, <2>1, <2>2 DEF HostTypeOK, LoaderTypeOK, TypeOK, vars, Phase
<1>7. OutcomeInv'
  <2>1. CompleteUpTo(Len(loads))' <=> \A k \in 1 .. Len(loads) + 1 : Complete(loads'[k])
    BY <1>4 DEF CompleteUpTo
  <2>2. (CompleteUpTo(Len(loads) - 1))' <=> CompleteUpTo(Len(loads))
    BY <1>4 DEF CompleteUpTo
  <2>. QED
    BY <1>2, <2>2 DEF OutcomeInv, Loading, vars
<1>8. StackBounds' /\ FlagsTrichotomy' /\ ProtectionInv' /\ ProgressInv' /\ RunInv' /\ ResetInv'
  BY <1>2
     DEF HostInv, StackBounds, FlagsTrichotomy, ProtectionInv, ProgressInv, RunInv, ResetInv,
         Ready, ResetState, Writing, Loading, RunBegins, vars
<1>. QED
  BY <1>5, <1>6, <1>7, <1>8 DEF HostInv

\* A run begins in whatever state the calls before it left.
LEMMA RunAgainOK == ASSUME HostInv, RunAgain PROVE HostInv'
<1>. calls' \in 0 .. MaxCalls /\ calls' # 0 /\ phase = "main"
  BY CallCounted DEF RunAgain
<1>1. /\ phase' = "run" /\ at' = "while" /\ step_count' = 0 /\ ran' = TRUE
      /\ UNCHANGED <<mem, protection, regs, pc, sp, flags, state>>
      /\ UNCHANGED <<file, program_size, position, current_addr, loads>>
  BY DEF RunAgain
<1>2. HostTypeOK' /\ StackBounds' /\ FlagsTrichotomy'
  BY <1>1
     DEF HostInv, HostTypeOK, LoaderTypeOK, TypeOK, StackBounds, FlagsTrichotomy, Phase, Control
<1>3. ProtectionInv' /\ LoadsInv' /\ ProgressInv' /\ RunInv' /\ OutcomeInv'
  BY <1>1
     DEF HostInv, ProtectionInv, LoadsInv, ProgressInv, RunInv, OutcomeInv, Writing, Loading
<1>4. ResetInv'
  BY <1>1 DEF HostInv, ResetInv, Ready, ResetState, RunBegins, Loading
<1>. QED
  BY <1>2, <1>3, <1>4 DEF HostInv

\* The run is over, and the machine not ready for another one.
LEMMA RunReturnsOK == ASSUME HostInv, RunReturns PROVE HostInv'
<1>1. /\ phase = "run" /\ at = "done" /\ calls > 0 /\ phase' = "main"
      /\ UNCHANGED <<vars, file, program_size, position, current_addr, hostVars>>
  BY DEF RunReturns
<1>2. ran /\ state # "RUNNING" /\ calls # 0
  BY <1>1 DEF HostInv, RunInv, HostTypeOK
<1>3. RunInv' /\ OutcomeInv' /\ ResetInv'
  BY <1>1, <1>2 DEF RunInv, OutcomeInv, ResetInv, Ready, Loading, vars, hostVars
<1>. QED
  BY <1>1, <1>3, ControlMoves DEF HostInv, Writing

LEMMA HostEndsOK == ASSUME HostInv, HostExits \/ HostEnded PROVE HostInv'
<1>1. /\ phase \in {"main", "exit"} /\ phase' = "exit"
      /\ UNCHANGED <<vars, file, program_size, position, current_addr, hostVars>>
  BY DEF HostExits, HostEnded, Exited, allVars, loaderVars
<1>2. RunInv' /\ OutcomeInv' /\ ResetInv'
  BY <1>1 DEF RunInv, OutcomeInv, ResetInv, Ready, RunBegins, Loading
<1>. QED
  BY <1>1, <1>2, ControlMoves DEF HostInv, Writing

LEMMA InitHostInv == HostInit => HostInv
<1>. SUFFICES ASSUME HostInit PROVE HostInv
  OBVIOUS
<1>1. /\ LoaderInit /\ calls = 0 /\ loads = <<file>> /\ ran = FALSE
  BY DEF HostInit
<1>2. /\ file \in Files /\ IsFile(file) /\ Len(file.body) \in Nat
  BY <1>1, FileTyped DEF LoaderInit
<1>3. /\ loads \in Seq(Files) /\ Len(loads) = 1 /\ loads[1] = file /\ DOMAIN loads = {1}
  BY <1>1, <1>2
<1>4. TypeOK /\ StackBounds /\ FlagsTrichotomy /\ ResetState
  <2>1. ClearedMemory \in [Address -> Word] /\ PowerOnProtection \in Protections
    BY Layout DEF ClearedMemory, PowerOnProtection, Protections
  <2>2. MemWords - 1 \in Nat /\ MemWords - 1 \in StackStart - 1 .. StackEnd
    BY Layout
  <2>3. \A r \in Register : 0 \in Word
    BY Layout
  <2>. QED
    BY <1>1, <2>1, <2>2, <2>3
       DEF LoaderInit, ResetCPU, TypeOK, StackBounds, FlagsTrichotomy, ResetState, VMState, Flag,
           Control
<1>5. HostTypeOK
  <2>1. \A k \in DOMAIN loads : IsFile(loads[k])
    BY <1>2, <1>3
  <2>2. 0 \in 0 .. Len(file.body) /\ StringBase \in StringBase .. StringLimit /\ 0 \in Word
    BY <1>2, Layout, LoaderConstants
  <2>3. LoaderTypeOK
    BY <1>1, <1>2, <1>4, <2>2 DEF LoaderInit, LoaderTypeOK, Phase
  <2>4. calls \in 0 .. MaxCalls
    BY <1>1, HostAssumption
  <2>. QED
    BY <1>1, <2>1, <2>3, <2>4 DEF HostTypeOK
<1>6. ProtectionInv /\ LoadsInv /\ ProgressInv /\ RunInv
  BY <1>1, <1>2, <1>3
     DEF LoaderInit, ProtectionInv, LoadsInv, ProgressInv, RunInv, Loading, Writing
<1>7. OutcomeInv /\ ResetInv
  BY <1>1, <1>3, <1>4
     DEF LoaderInit, ResetCPU, OutcomeInv, ResetInv, Loading, CompleteUpTo
<1>. QED
  BY <1>4, <1>5, <1>6, <1>7 DEF HostInv

LEMMA NextHostInv == HostInv /\ [HostNext]_<<allVars, hostVars>> => HostInv'
<1>. SUFFICES ASSUME HostInv, [HostNext]_<<allVars, hostVars>> PROVE HostInv'
  OBVIOUS
<1>1. CASE LoadProgram /\ UNCHANGED hostVars
  BY <1>1, OpenFileOK, ReadHeaderOK, CheckSizeOK, ReadInstructionOK, InstructionsDoneOK,
     ReadStringByteOK, ProtectOK DEF LoadProgram
<1>2. CASE Run /\ UNCHANGED hostVars
  BY <1>2, RunOK
<1>3. CASE MainGoesOn
  BY <1>3, MainOK
<1>4. CASE InitVM \/ LoadAnother \/ RunAgain
  BY <1>4, InitVMOK, LoadAnotherOK, RunAgainOK
<1>5. CASE RunReturns \/ HostExits \/ HostEnded
  BY <1>5, RunReturnsOK, HostEndsOK
<1>6. CASE UNCHANGED <<allVars, hostVars>>
  BY <1>6
     DEF HostInv, HostTypeOK, LoaderTypeOK, TypeOK, StackBounds, FlagsTrichotomy,
         ProtectionInv, LoadsInv, ProgressInv, RunInv, OutcomeInv, ResetInv, Ready, Loading,
         Writing, RunBegins, CompleteUpTo, ResetState, MoreStringBytes, InstructionsRead,
         allVars, vars, loaderVars, hostVars
<1>. QED
  BY <1>1, <1>2, <1>3, <1>4, <1>5, <1>6 DEF HostNext

\* The inductive invariant holds of every state of every host.
THEOREM HostInvariance == HostSpec => []HostInv
  BY InitHostInv, NextHostInv, PTL DEF HostSpec

----------------------------------------------------------------------------
(* The invariants of the run. *)

\* Loading any file, in any number and order of calls, keeps every variable
\* in its range: the loader never reads behind the end of a file and never
\* stores a byte behind the string window, and memory stays a memory of words.
THEOREM HostTypeCorrect == HostSpec => []HostTypeOK
  BY HostInvariance, PTL DEF HostInv

\* Between two calls the machine is RUNNING exactly when all files loaded
\* since dez_vm_init were complete and nothing was run since.
THEOREM LoadOutcomeHolds == HostSpec => []LoadOutcome
<1>1. HostInv => LoadOutcome
  BY DEF HostInv, OutcomeInv, LoadsInv, LoadOutcome, CompleteUpTo
<1>. QED
  BY <1>1, HostInvariance, PTL

\* No instruction is executed while the code segment is open, even after a
\* load that gave up and left it open.
THEOREM RunsAreProtected == HostSpec => []RunsProtected
<1>1. HostInv => RunsProtected
  BY DEF HostInv, ProtectionInv, RunsProtected, Stepping, Writing
<1>. QED
  BY <1>1, HostInvariance, PTL

----------------------------------------------------------------------------
(* What loading does to memory.                                            *)

\* While the loader writes, nothing is refused for the code segment.
LEMMA WritesAccepted ==
    ASSUME HostInv, phase \in Writing
    PROVE  /\ \A a \in Address : WriteAccepted(a)
           /\ \A b \in ByteAddress : ByteWriteAccepted(b)
<1>1. protection.code_readonly = FALSE
  BY DEF HostInv, ProtectionInv, OpenedProtection
<1>2. \A b \in ByteAddress : WordAddress(b) \in Address
  <2>1. \A b \in ByteAddress : b \in Nat
    BY MemoryAssumption DEF ByteAddress
  <2>. QED
    BY <2>1, ByteAddresses
<1>. QED
  BY <1>1, <1>2 DEF WriteAccepted, ByteWriteAccepted

\* What a round of the instruction loop finds.
LEMMA InstructionRound ==
    ASSUME HostInv, ReadInstruction, ~LoadError
    PROVE  /\ position = 4 * InstructionsRead /\ InstructionsRead \in Nat
           /\ InstructionsRead < program_size /\ program_size \in 1 .. MaxProgramSize
           /\ position + 4 <= Len(file.body) /\ file.body \in Seq(Byte)
           /\ InstructionsRead \in CodeSegment /\ InstructionsRead \in Address
           /\ WriteWord(InstructionsRead, LittleEndianWord(file.body, position))
           /\ current_addr = StringBase
<1>1. /\ phase = "code" /\ InstructionsRead < program_size
      /\ position + 4 <= Len(file.body)
      /\ WriteWord(InstructionsRead, LittleEndianWord(file.body, position))
  BY DEF ReadInstruction
<1>2. /\ position = 4 * InstructionsRead /\ program_size \in 1 .. MaxProgramSize
      /\ current_addr = StringBase
  BY <1>1 DEF HostInv, ProgressInv, Writing
<1>3. position \in Nat /\ file.body \in Seq(Byte)
  BY DEF HostInv, HostTypeOK, LoaderTypeOK, IsFile
<1>4. InstructionsRead \in Nat
  BY <1>3 DEF InstructionsRead
<1>5. InstructionsRead \in CodeSegment /\ InstructionsRead \in Address
  BY <1>1, <1>2, <1>4, LoaderConstants, Layout DEF CodeSegment, Address
<1>. QED
  BY <1>1, <1>2, <1>3, <1>4, <1>5

\* What a round of the string loop finds.
LEMMA StringRound ==
    ASSUME HostInv, ReadStringByte, MoreStringBytes
    PROVE  /\ WriteByte(current_addr, file.body[position + 1])
           /\ current_addr \in ByteAddress /\ current_addr \in Nat
           /\ current_addr \in StringBase .. StringLimit - 1
           /\ WordAddress(current_addr) \in CodeSegment
           /\ file.body[position + 1] \in Byte
<1>1. /\ WriteByte(current_addr, file.body[position + 1])
      /\ position < Len(file.body) /\ current_addr < StringLimit
  BY DEF ReadStringByte, MoreStringBytes
<1>2. /\ current_addr \in StringBase .. StringLimit
      /\ position \in 0 .. Len(file.body) /\ file.body \in Seq(Byte)
  BY DEF HostInv, HostTypeOK, LoaderTypeOK, IsFile
<1>3. current_addr \in Nat /\ current_addr < 4 * (CodeEnd + 1) /\ current_addr \in ByteAddress
  BY <1>1, <1>2, LoaderConstants, Layout DEF ByteAddress
<1>4. WordAddress(current_addr) \in CodeSegment
  BY <1>3, Layout DEF WordAddress, CodeSegment
<1>5. file.body[position + 1] \in Byte
  BY <1>1, <1>2
<1>. QED
  BY <1>1, <1>2, <1>3, <1>4, <1>5, LoaderConstants

\* A loader that is given any file, whatever was loaded and run before, never
\* changes a word of the data or the stack segment.
THEOREM LoaderStaysInCode == HostSpec => LoaderConfined
<1>1. ASSUME HostInv, HostNext, Loading, NEW a \in Address \ CodeSegment
      PROVE  mem'[a] = mem[a]
  <2>1. LoadProgram
    BY <1>1
       DEF HostNext, Loading, Run, MainGoesOn, Main, StartOrGiveUp, ReturnFromMain, Exited,
           InitVM, LoadAnother, RunAgain, MakesCall, RunReturns, HostExits, HostEnded
  <2>2. CASE ReadInstruction /\ ~LoadError
    BY <1>1, <2>2, InstructionRound DEF WriteWord, HostInv, HostTypeOK, LoaderTypeOK, TypeOK
  <2>3. CASE ReadStringByte /\ MoreStringBytes
    <3>1. /\ WriteByte(current_addr, file.body[position + 1])
          /\ WordAddress(current_addr) \in CodeSegment /\ current_addr \in Nat
          /\ file.body[position + 1] \in Byte
      BY <1>1, <2>3, StringRound
    <3>2. mem \in [Address -> Word] /\ a # WordAddress(current_addr)
      BY <1>1, <3>1 DEF HostInv, HostTypeOK, LoaderTypeOK, TypeOK
    <3>. QED
      BY <1>1, <3>1, <3>2, WrittenByte
  <2>4. CASE UNCHANGED mem
    BY <2>4
  <2>. QED
    BY <2>1, <2>2, <2>3, <2>4
       DEF LoadProgram, OpenFile, ReadHeader, CheckSize, ReadInstruction, InstructionsDone,
           ReadStringByte, Protect, LoadError, vars
<1>2. HostInv /\ [HostNext]_<<allVars, hostVars>> =>
        [Loading => \A a \in Address \ CodeSegment : mem'[a] = mem[a]]_allVars
  BY <1>1
<1>. QED
  BY <1>2, HostInvariance, PTL DEF HostSpec, LoaderConfined

----------------------------------------------------------------------------
(* What is in memory when a run begins.  MemoryInv is inductive together   *)
(* with HostInv.                                                           *)

\* The first n loads leave v in byte b.
LeftBy(n, b, v) ==
    \/ v = 0 /\ \A k \in 1 .. n : ~Covers(loads[k], b)
    \/ \E m \in 1 .. n :
          /\ Covers(loads[m], b) /\ v = FileByte(loads[m], b)
          /\ \A k \in m + 1 .. n : ~Covers(loads[k], b)

CodeByte(f, b)   == f.body[4 * (b \div 4) + (4 - (b % 4))]
StringByte(f, b) == f.body[4 * f.header + (b - StringBase) + 1]

\* Bytes of instructions that are in memory.
CodeBytesRead == IF position <= 4 * program_size THEN position ELSE 4 * program_size

\* A byte of memory in the middle of a load.
PartlyLoaded(b) ==
    IF b \in StringBase .. current_addr - 1 THEN ReadByte(b) = StringByte(file, b)
    ELSE IF b < CodeBytesRead THEN ReadByte(b) = CodeByte(file, b)
    ELSE LeftBy(Len(loads) - 1, b, ReadByte(b))

MemoryInv ==
    Ready => \A b \in ByteAddress :
                IF Loading THEN PartlyLoaded(b) ELSE LeftBy(Len(loads), b, ReadByte(b))

\* A load that goes on without writing.
LEMMA LoadUnwritten ==
    ASSUME MemoryInv, Loading, Loading', CodeBytesRead' = CodeBytesRead,
           UNCHANGED <<mem, state, loads, file, position, current_addr>>
    PROVE  MemoryInv'
<1>. SUFFICES ASSUME Ready' PROVE MemoryInv'
  BY DEF MemoryInv
<1>1. Ready
  BY DEF Ready
<1>2. \A b \in ByteAddress : PartlyLoaded(b)
  BY <1>1 DEF MemoryInv
<1>3. \A b \in ByteAddress : PartlyLoaded(b) => PartlyLoaded(b)'
  BY DEF PartlyLoaded, ReadByte, CodeByte, StringByte, LeftBy, Covers, StringAt, StringBytes,
         FileByte
<1>. QED
  BY <1>2, <1>3 DEF MemoryInv

\* A call or return outside a load.
LEMMA CallUnwritten ==
    ASSUME MemoryInv, ~Loading, ~Loading', Ready' => Ready, UNCHANGED <<mem, loads>>
    PROVE  MemoryInv'
<1>. SUFFICES ASSUME Ready' PROVE MemoryInv'
  BY DEF MemoryInv
<1>1. \A b \in ByteAddress : LeftBy(Len(loads), b, ReadByte(b))
  BY DEF MemoryInv
<1>. QED
  BY <1>1 DEF MemoryInv, LeftBy, ReadByte, Covers, StringAt, StringBytes, FileByte

LEMMA InstructionMemory ==
    ASSUME HostInv, MemoryInv, ReadInstruction, ~LoadError, UNCHANGED hostVars
    PROVE  MemoryInv'
<1>1. /\ position = 4 * InstructionsRead /\ InstructionsRead \in Nat
      /\ InstructionsRead < program_size /\ program_size \in Nat
      /\ position + 4 <= Len(file.body) /\ file.body \in Seq(Byte)
      /\ InstructionsRead \in Address
      /\ WriteWord(InstructionsRead, LittleEndianWord(file.body, position))
      /\ current_addr = StringBase
  BY InstructionRound, LoaderConstants
<1>2. /\ phase = "code" /\ phase' = "code" /\ position' = position + 4
      /\ UNCHANGED <<cpuVars, state, loads, file, program_size, current_addr>>
  BY DEF ReadInstruction, hostVars
<1>3. CodeBytesRead = position /\ CodeBytesRead' = position + 4
  BY <1>1, <1>2 DEF CodeBytesRead
<1>4. WriteAccepted(InstructionsRead) /\ mem \in [Address -> Word]
  BY <1>1, <1>2, WritesAccepted DEF Writing, HostInv, HostTypeOK, LoaderTypeOK, TypeOK
<1>. SUFFICES ASSUME Ready', NEW b \in ByteAddress PROVE PartlyLoaded(b)'
  BY <1>2 DEF MemoryInv, Loading
<1>5. PartlyLoaded(b) /\ b \in Nat
  BY <1>2, MemoryAssumption DEF MemoryInv, Ready, Loading, ByteAddress
<1>6. ReadByte(b)' = IF WordAddress(b) = InstructionsRead
                       THEN ByteOf(LittleEndianWord(file.body, position), b) ELSE ReadByte(b)
  BY <1>1, <1>4, WrittenWord
<1>7. b \notin StringBase .. current_addr - 1 /\ b \notin StringBase .. current_addr' - 1
  BY <1>1, <1>2, <1>5, LoaderConstants
<1>8. CASE WordAddress(b) = InstructionsRead
  <2>1. b < position + 4 /\ 4 * (b \div 4) = position
    BY <1>1, <1>5, <1>8 DEF WordAddress
  <2>2. ReadByte(b)' = file.body[position + (4 - (b % 4))]
    BY <1>1, <1>5, <1>6, <1>8, LittleEndian
  <2>3. ReadByte(b)' = CodeByte(file, b)'
    BY <1>2, <2>1, <2>2 DEF CodeByte
  <2>. QED
    BY <1>3, <1>7, <2>1, <2>3 DEF PartlyLoaded
<1>9. CASE WordAddress(b) # InstructionsRead
  <2>1. b < position + 4 <=> b < position
    BY <1>1, <1>5, <1>9 DEF WordAddress
  <2>2. ReadByte(b)' = ReadByte(b)
    BY <1>6, <1>9
  <2>3. LeftBy(Len(loads) - 1, b, ReadByte(b)) => LeftBy(Len(loads) - 1, b, ReadByte(b))'
    BY <1>2, <2>2 DEF LeftBy, Covers, StringAt, StringBytes, FileByte
  <2>4. CodeByte(file, b)' = CodeByte(file, b)
    BY <1>2 DEF CodeByte
  <2>. QED
    BY <1>3, <1>5, <1>7, <2>1, <2>2, <2>3, <2>4 DEF PartlyLoaded
<1>. QED
  BY <1>8, <1>9

LEMMA StringMemory ==
    ASSUME HostInv, MemoryInv, ReadStringByte, MoreStringBytes, UNCHANGED hostVars
    PROVE  MemoryInv'
<1>1. /\ WriteByte(current_addr, file.body[position + 1])
      /\ current_addr \in ByteAddress /\ current_addr \in Nat
      /\ current_addr \in StringBase .. StringLimit - 1
      /\ file.body[position + 1] \in Byte
  BY StringRound
<1>2. /\ phase = "strings" /\ phase' = "strings"
      /\ position' = position + 1 /\ current_addr' = current_addr + 1
      /\ UNCHANGED <<cpuVars, state, loads, file, program_size>>
  BY DEF ReadStringByte, hostVars
<1>3. /\ position = 4 * program_size + (current_addr - StringBase)
      /\ program_size = file.header /\ program_size \in Nat
  BY <1>2, LoaderConstants DEF HostInv, ProgressInv, Writing
<1>4. CodeBytesRead = 4 * program_size /\ CodeBytesRead' = 4 * program_size
  BY <1>1, <1>2, <1>3, LoaderConstants DEF CodeBytesRead
<1>5. ByteWriteAccepted(current_addr) /\ mem \in [Address -> Word]
  BY <1>1, <1>2, WritesAccepted DEF Writing, HostInv, HostTypeOK, LoaderTypeOK, TypeOK
<1>. SUFFICES ASSUME Ready', NEW b \in ByteAddress PROVE PartlyLoaded(b)'
  BY <1>2 DEF MemoryInv, Loading
<1>6. PartlyLoaded(b) /\ b \in Nat
  BY <1>2, MemoryAssumption DEF MemoryInv, Ready, Loading, ByteAddress
<1>7. ReadByte(b)' = IF b = current_addr THEN file.body[position + 1] ELSE ReadByte(b)
  BY <1>1, <1>5, WrittenByte
<1>8. CASE b = current_addr
  <2>1. b \in StringBase .. current_addr' - 1
    BY <1>1, <1>2, <1>8, LoaderConstants
  <2>2. ReadByte(b)' = StringByte(file, b)'
    BY <1>2, <1>3, <1>7, <1>8 DEF StringByte
  <2>. QED
    BY <2>1, <2>2 DEF PartlyLoaded
<1>9. CASE b # current_addr
  <2>1. b \in StringBase .. current_addr' - 1 <=> b \in StringBase .. current_addr - 1
    BY <1>1, <1>2, <1>6, <1>9, LoaderConstants
  <2>2. ReadByte(b)' = ReadByte(b)
    BY <1>7, <1>9
  <2>3. LeftBy(Len(loads) - 1, b, ReadByte(b)) => LeftBy(Len(loads) - 1, b, ReadByte(b))'
    BY <1>2, <2>2 DEF LeftBy, Covers, StringAt, StringBytes, FileByte
  <2>4. CodeByte(file, b)' = CodeByte(file, b) /\ StringByte(file, b)' = StringByte(file, b)
    BY <1>2 DEF CodeByte, StringByte
  <2>. QED
    BY <1>4, <1>6, <2>1, <2>2, <2>3, <2>4 DEF PartlyLoaded
<1>. QED
  BY <1>8, <1>9

\* What a complete load leaves: the bytes of its file over those before it.
LEMMA LoadedOver ==
    ASSUME NEW n \in Nat \ {0}, NEW b, NEW v,
           IF Covers(loads[n], b) THEN v = FileByte(loads[n], b) ELSE LeftBy(n - 1, b, v)
    PROVE  LeftBy(n, b, v)
<1>1. CASE Covers(loads[n], b)
  <2>1. n \in 1 .. n /\ n + 1 .. n = {}
    OBVIOUS
  <2>. QED
    BY <1>1, <2>1 DEF LeftBy
<1>2. CASE ~Covers(loads[n], b) /\ v = 0 /\ \A k \in 1 .. n - 1 : ~Covers(loads[k], b)
  <2>1. \A k \in 1 .. n : k \in 1 .. n - 1 \/ k = n
    OBVIOUS
  <2>. QED
    BY <1>2, <2>1 DEF LeftBy
<1>3. CASE /\ ~Covers(loads[n], b)
           /\ \E m \in 1 .. n - 1 : /\ Covers(loads[m], b) /\ v = FileByte(loads[m], b)
                                    /\ \A k \in m + 1 .. n - 1 : ~Covers(loads[k], b)
  <2>1. PICK m \in 1 .. n - 1 : /\ Covers(loads[m], b) /\ v = FileByte(loads[m], b)
                                /\ \A k \in m + 1 .. n - 1 : ~Covers(loads[k], b)
    BY <1>3
  <2>2. m \in 1 .. n /\ \A k \in m + 1 .. n : k \in m + 1 .. n - 1 \/ k = n
    OBVIOUS
  <2>. QED
    BY <1>3, <2>1, <2>2 DEF LeftBy
<1>. QED
  BY <1>1, <1>2, <1>3 DEF LeftBy

LEMMA ProtectMemory ==
    ASSUME HostInv, MemoryInv, Protect, UNCHANGED hostVars
    PROVE  MemoryInv'
<1>1. /\ phase = "protect" /\ phase' = "main"
      /\ UNCHANGED <<mem, state, loads, file, position, current_addr>>
  BY DEF Protect, hostVars
<1>2. /\ position = 4 * file.header + (current_addr - StringBase)
      /\ program_size = file.header /\ file.header \in Nat
      /\ ~MoreStringBytes
  BY <1>1, LoaderConstants DEF HostInv, ProgressInv, Writing
<1>3. /\ position \in 0 .. Len(file.body) /\ Len(file.body) \in Nat
      /\ current_addr \in StringBase .. StringLimit
      /\ StringBase \in Nat /\ StringLimit \in Nat
  BY FileTyped, LoaderConstants DEF HostInv, HostTypeOK, LoaderTypeOK, LoadsInv
<1>4. Len(loads) \in Nat \ {0} /\ loads[Len(loads)] = file
  BY <1>1 DEF HostInv, LoadsInv, Loading
<1>5. CodeBytesRead = 4 * file.header
  BY <1>2, <1>3 DEF CodeBytesRead
<1>. SUFFICES ASSUME Ready', NEW b \in ByteAddress
              PROVE  LeftBy(Len(loads), b, ReadByte(b))'
  BY <1>1 DEF MemoryInv, Loading
<1>6. PartlyLoaded(b) /\ b \in Nat
  BY <1>1, MemoryAssumption DEF MemoryInv, Ready, Loading, ByteAddress
<1>7. StringAt(file, b) <=> b \in StringBase .. current_addr - 1
  BY <1>2, <1>3, <1>6 DEF StringAt, StringBytes, MoreStringBytes
<1>8. IF Covers(file, b) THEN ReadByte(b) = FileByte(file, b)
                         ELSE LeftBy(Len(loads) - 1, b, ReadByte(b))
  BY <1>5, <1>6, <1>7 DEF Covers, FileByte, PartlyLoaded, StringByte, CodeByte
<1>9. LeftBy(Len(loads), b, ReadByte(b))
  <2>. DEFINE v == ReadByte(b)
  <2>1. IF Covers(loads[Len(loads)], b) THEN v = FileByte(loads[Len(loads)], b)
                                        ELSE LeftBy(Len(loads) - 1, b, v)
    BY <1>4, <1>8
  <2>. HIDE DEF v
  <2>2. LeftBy(Len(loads), b, v)
    BY <1>4, <2>1, LoadedOver
  <2>. QED
    BY <2>2 DEF v
<1>. QED
  BY <1>1, <1>9 DEF LeftBy, ReadByte, Covers, StringAt, StringBytes, FileByte

LEMMA InitVMMemory ==
    ASSUME HostInv, InitVM
    PROVE  MemoryInv'
<1>1. phase' = "main" /\ mem' = ClearedMemory /\ loads' = <<>>
  BY DEF InitVM, MakesCall
<1>2. \A b \in ByteAddress : ReadByte(b)' = 0
  <2>1. \A b \in ByteAddress : b \in Nat
    BY MemoryAssumption DEF ByteAddress
  <2>. QED
    BY <1>1, <2>1, ZeroByte, ByteAddresses DEF ReadByte, ClearedMemory
<1>3. Len(loads') = 0 /\ 1 .. Len(loads') = {}
  BY <1>1
<1>. QED
  BY <1>1, <1>2, <1>3 DEF MemoryInv, Loading, LeftBy

LEMMA LoadAnotherMemory ==
    ASSUME HostInv, MemoryInv, LoadAnother
    PROVE  MemoryInv'
<1>1. PICK f \in Reloaded : file' = f /\ loads' = Append(loads, f)
  BY DEF LoadAnother
<1>2. /\ phase = "main" /\ phase' = "open" /\ position' = 0 /\ current_addr' = StringBase
      /\ UNCHANGED <<mem, state, program_size>>
  BY DEF LoadAnother, MakesCall, vars
<1>3. loads \in Seq(Files) /\ f \in Files /\ program_size \in Nat
  BY HostAssumption, Layout
     DEF HostInv, LoadsInv, HostTypeOK, LoaderTypeOK, Word
<1>4. /\ Len(loads') - 1 = Len(loads) /\ Len(loads) \in Nat
      /\ \A k \in 1 .. Len(loads) : loads'[k] = loads[k]
  BY <1>1, <1>3
<1>5. CodeBytesRead' = 0
  BY <1>2, <1>3 DEF CodeBytesRead
<1>. SUFFICES ASSUME Ready', NEW b \in ByteAddress PROVE PartlyLoaded(b)'
  BY <1>2 DEF MemoryInv, Loading
<1>6. LeftBy(Len(loads), b, ReadByte(b)) /\ b \in Nat /\ ReadByte(b)' = ReadByte(b)
  BY <1>2, MemoryAssumption DEF MemoryInv, Ready, Loading, ByteAddress, ReadByte
<1>7. LeftBy(Len(loads), b, ReadByte(b)) => LeftBy(Len(loads) - 1, b, ReadByte(b))'
  <2>1. \A k \in 1 .. Len(loads) : \A j \in k + 1 .. Len(loads) : j \in 1 .. Len(loads)
    BY <1>4
  <2>. QED
    BY <1>4, <1>6, <2>1 DEF LeftBy, Covers, StringAt, StringBytes, FileByte
<1>8. b \notin StringBase .. current_addr' - 1 /\ ~(b < CodeBytesRead')
  BY <1>2, <1>5, <1>6, LoaderConstants
<1>. QED
  BY <1>6, <1>7, <1>8 DEF PartlyLoaded

\* A step of a run leaves the run begun.
LEMMA RunMemory ==
    ASSUME HostInv, MemoryInv, Run
    PROVE  MemoryInv'
<1>1. ~(at' = "while" /\ step_count' = 0)
  BY RunStep
<1>2. phase' = "run"
  BY DEF Run, loaderVars
<1>. QED
  BY <1>1, <1>2 DEF MemoryInv, Ready, RunBegins, Loading

LEMMA InitMemoryInv == HostInit => MemoryInv
<1>. SUFFICES ASSUME HostInit, NEW b \in ByteAddress PROVE PartlyLoaded(b)
  BY DEF HostInit, LoaderInit, MemoryInv, Loading
<1>1. /\ mem = ClearedMemory /\ position = 0 /\ program_size = 0 /\ current_addr = StringBase
      /\ loads = <<file>>
  BY DEF HostInit, LoaderInit
<1>2. b \in Nat /\ ReadByte(b) = 0
  <2>1. b \in Nat
    BY MemoryAssumption DEF ByteAddress
  <2>. QED
    BY <1>1, <2>1, ZeroByte, ByteAddresses DEF ReadByte, ClearedMemory
<1>3. Len(loads) - 1 = 0 /\ 1 .. Len(loads) - 1 = {}
  BY <1>1
<1>4. b \notin StringBase .. current_addr - 1 /\ ~(b < CodeBytesRead)
  BY <1>1, <1>2, LoaderConstants DEF CodeBytesRead
<1>. QED
  BY <1>2, <1>3, <1>4 DEF PartlyLoaded, LeftBy

LEMMA NextMemoryInv == HostInv /\ MemoryInv /\ [HostNext]_<<allVars, hostVars>> => MemoryInv'
<1>. SUFFICES ASSUME HostInv, MemoryInv, [HostNext]_<<allVars, hostVars>> PROVE MemoryInv'
  OBVIOUS
<1>1. CASE LoadProgram /\ UNCHANGED hostVars
  <2>1. CASE LoadError
    BY <2>1 DEF LoadError, MemoryInv, Ready
  <2>2. CASE ~LoadError /\ (OpenFile \/ ReadHeader \/ CheckSize)
    <3>1. /\ Loading /\ Loading' /\ position = 0
          /\ UNCHANGED <<mem, state, loads, file, position, current_addr>>
      BY <1>1, <2>2
         DEF OpenFile, ReadHeader, CheckSize, Loading, vars, hostVars, HostInv, ProgressInv
    <3>2. program_size \in Nat /\ program_size' \in Nat
      BY <1>1, NextHostInv, Layout DEF HostInv, HostTypeOK, LoaderTypeOK, Word
    <3>3. CodeBytesRead' = CodeBytesRead
      <4>1. ASSUME NEW n \in Nat PROVE 0 <= 4 * n
        OBVIOUS
      <4>2. 0 <= 4 * program_size /\ 0 <= 4 * program_size'
        BY <3>2, <4>1
      <4>. QED
        BY <3>1, <4>2 DEF CodeBytesRead
    <3>. QED
      BY <3>1, <3>3, LoadUnwritten
  <2>3. CASE InstructionsDone \/ (ReadStringByte /\ ~MoreStringBytes)
    <3>1. /\ Loading /\ Loading'
          /\ UNCHANGED <<mem, state, loads, file, position, current_addr, program_size>>
      BY <1>1, <2>3 DEF InstructionsDone, ReadStringByte, Loading, vars, hostVars
    <3>2. CodeBytesRead' = CodeBytesRead
      BY <3>1 DEF CodeBytesRead
    <3>. QED
      BY <3>1, <3>2, LoadUnwritten
  <2>. QED
    BY <1>1, <2>1, <2>2, <2>3, InstructionMemory, StringMemory, ProtectMemory DEF LoadProgram
<1>2. CASE Run
  BY <1>2, RunMemory
<1>3. CASE MainGoesOn \/ RunAgain
  <2>1. /\ ~Loading /\ ~Loading' /\ UNCHANGED <<mem, state, loads>>
        /\ \/ phase = "main" \/ phase' = "exit"
           \/ phase' = phase /\ UNCHANGED <<at, step_count>>
    BY <1>3
       DEF MainGoesOn, Main, StartOrGiveUp, ReturnFromMain, Exited, RunAgain, MakesCall, Loading,
           vars, allVars, loaderVars, hostVars
  <2>2. Ready' => Ready
    BY <2>1 DEF Ready, RunBegins, Loading
  <2>. QED
    BY <2>1, <2>2, CallUnwritten
<1>4. CASE InitVM \/ LoadAnother
  BY <1>4, InitVMMemory, LoadAnotherMemory
<1>5. CASE RunReturns
  BY <1>5 DEF RunReturns, HostInv, RunInv, MemoryInv, Ready, vars
<1>6. CASE HostExits \/ HostEnded
  BY <1>6 DEF HostExits, HostEnded, Exited, MemoryInv, Ready, RunBegins, Loading, allVars,
              loaderVars
<1>7. CASE UNCHANGED <<allVars, hostVars>>
  BY <1>7, LoadUnwritten, CallUnwritten
     DEF Ready, RunBegins, Loading, CodeBytesRead, allVars, vars, loaderVars, hostVars
<1>. QED
  BY <1>1, <1>2, <1>3, <1>4, <1>5, <1>6, <1>7 DEF HostNext

\* The byte that is left is that of the last load to cover it.
LEMMA LastLoadDecides ==
    ASSUME Len(loads) \in Nat, DOMAIN loads = 1 .. Len(loads), NEW b, NEW v,
           LeftBy(Len(loads), b, v)
    PROVE  v = LoadedByte(b)
<1>1. CASE v = 0 /\ \A k \in 1 .. Len(loads) : ~Covers(loads[k], b)
  BY <1>1 DEF LoadedByte, Covering
<1>2. CASE \E m \in 1 .. Len(loads) :
             /\ Covers(loads[m], b) /\ v = FileByte(loads[m], b)
             /\ \A k \in m + 1 .. Len(loads) : ~Covers(loads[k], b)
  <2>1. PICK m \in 1 .. Len(loads) :
             /\ Covers(loads[m], b) /\ v = FileByte(loads[m], b)
             /\ \A k \in m + 1 .. Len(loads) : ~Covers(loads[k], b)
    BY <1>2
  <2>2. m \in Covering(b) /\ Covering(b) \subseteq Int /\ \A j \in Covering(b) : j <= m
    BY <2>1 DEF Covering
  <2>3. LastCovering(b) \in Covering(b) /\ \A j \in Covering(b) : j <= LastCovering(b)
    BY <2>2 DEF LastCovering
  <2>4. LastCovering(b) = m
    BY <2>2, <2>3
  <2>. QED
    BY <2>1, <2>2, <2>4 DEF LoadedByte
<1>. QED
  BY <1>1, <1>2 DEF LeftBy

\* A run of a machine that is ready starts from the registers, flags, pc and
\* stack of dez_vm_init, on the bytes of the files loaded since, whatever
\* those files are, in whatever order they were loaded, and whatever ran
\* before that.
THEOREM RunsStartClean == HostSpec => []LoadCorrect
<1>1. HostInv /\ MemoryInv => LoadCorrect
  <2>. SUFFICES ASSUME HostInv, MemoryInv, RunBegins
                PROVE  /\ ResetState
                       /\ \A b \in ByteAddress : ReadByte(b) = LoadedByte(b)
    BY DEF LoadCorrect, ResetState
  <2>1. ResetState /\ \A b \in ByteAddress : LeftBy(Len(loads), b, ReadByte(b))
    BY DEF HostInv, ResetInv, MemoryInv, Ready, RunBegins, Loading
  <2>2. Len(loads) \in Nat /\ DOMAIN loads = 1 .. Len(loads)
    BY DEF HostInv, LoadsInv
  <2>. QED
    BY <2>1, <2>2, LastLoadDecides
<1>2. HostSpec => []MemoryInv
  BY InitMemoryInv, NextMemoryInv, HostInvariance, PTL DEF HostSpec
<1>. QED
  BY <1>1, <1>2, HostInvariance, PTL
=============================================================================
