------------------------------- MODULE DezISA -------------------------------
(***************************************************************************)
(* The instruction word of the Dez VM: opcodes, fields and arithmetic on   *)
(* words (include/dez_vm_types.h and the instruction table of              *)
(* src/core/dez_instruction_table.c).                                      *)
(*                                                                         *)
(* A word is, from the top, an 8-bit opcode, three 4-bit register fields   *)
(* and a 12-bit immediate.  Here the width of each field is a constant, so *)
(* that TLC can use narrow words; shifts and masks become \div and %.      *)
(***************************************************************************)
EXTENDS DezWord

CONSTANTS
    OpSpan,     \* number of opcode values (256)
    NReg,       \* number of registers (16)
    ImmSpan,    \* number of immediate values (4096)
    WordBits    \* bits of a word (32)

\* 2 to the power k.
Power[k \in 0 .. WordBits] == IF k = 0 THEN 1 ELSE 2 * Power[k - 1]

ASSUME ISAAssumption ==
    /\ OpSpan \in Nat /\ NReg \in Nat /\ ImmSpan \in Nat /\ WordBits \in Nat
    /\ OpSpan > 0 /\ NReg > 0 /\ ImmSpan > 1 /\ WordBits > 0
    /\ WordSpan = OpSpan * (NReg * (NReg * (NReg * ImmSpan)))
    /\ WordSpan = Power[WordBits]

\* Every field is some bits wide, and together they are a word.
ASSUME FieldAssumption ==
    \E i, r, o \in 0 .. WordBits :
        /\ i + 3 * r + o = WordBits
        /\ ImmSpan = Power[i] /\ NReg = Power[r] /\ OpSpan = Power[o]

Register == 0 .. NReg - 1

\* dez_instruction_type_t
Op == [HALT |-> 0, LOAD |-> 1, STORE |-> 3, ADD |-> 4, SUB |-> 5, MUL |-> 6,
       DIV |-> 7, JMP |-> 8, JZ |-> 9, JNZ |-> 10, PUSH |-> 11, POP |-> 12,
       SYS |-> 13, CMP |-> 14, CALL |-> 15, MOV |-> 16, RET |-> 17, NOP |-> 18,
       AND |-> 19, OR |-> 20, XOR |-> 21, NOT |-> 22, SHL |-> 23, SHR |-> 24,
       JL |-> 25, JG |-> 26, JLE |-> 27, JGE |-> 28, INC |-> 29, DEC |-> 30,
       LOAD_INDIRECT |-> 31, STORE_INDIRECT |-> 32,
       LOAD_INDEXED |-> 33, STORE_INDEXED |-> 34]

\* The opcodes that have an entry in instruction_table.
Opcodes == {Op[n] : n \in DOMAIN Op}

ASSUME OpcodeAssumption == Opcodes \subseteq 0 .. OpSpan - 1

\* pc_increment of the table; unknown_instruction has increment 0.
PcIncrement(op) ==
    IF op \in Opcodes \ {Op.JMP, Op.CALL, Op.RET, Op.HALT} THEN 1 ELSE 0

\* dez_syscall_t, the calls execute_sys tells apart by their effect on the VM.
SysExit == 6

\* The DEZ_DECODE_* macros.
Opcode(w) == w \div (NReg * (NReg * (NReg * ImmSpan)))
Reg1(w)   == (w \div (NReg * (NReg * ImmSpan))) % NReg
Reg2(w)   == (w \div (NReg * ImmSpan)) % NReg
Reg3(w)   == (w \div ImmSpan) % NReg
Imm(w)    == w % ImmSpan

\* DEZ_IS_IMMEDIATE_MODE and DEZ_DECODE_EXT_IMMEDIATE: the top bit of the
\* immediate is a flag, the bits below it are the operand.
ImmediateMode(w) == Imm(w) >= ImmSpan \div 2
ExtImm(w)        == Imm(w) % (ImmSpan \div 2)

\* The word with these fields, each within its width.
Pack(op, a, b, c, i) == i + ImmSpan * (c + NReg * (b + NReg * (a + NReg * op)))

----------------------------------------------------------------------------
\* uint32_t arithmetic.

\* Mutant: results are not reduced to the width of a register.
WrapNot(x) == x

Wrap(x) == x % WordSpan

Bit(w, i) == (w \div Power[i]) % 2

\* The word with these bits.
FromBits(bits) ==
    LET low[n \in 0 .. WordBits] ==
          IF n = 0 THEN 0 ELSE low[n - 1] + bits[n - 1] * Power[n - 1]
    IN  low[WordBits]

\* The word whose bit i is f(bit i of a, bit i of b).
Bitwise2(f(_, _), a, b) == FromBits([i \in 0 .. WordBits - 1 |-> f(Bit(a, i), Bit(b, i))])

BitAnd(a, b) == Bitwise2(LAMBDA x, y : x * y, a, b)
BitOr(a, b)  == Bitwise2(LAMBDA x, y : x + y - x * y, a, b)
BitXor(a, b) == Bitwise2(LAMBDA x, y : (x + y) % 2, a, b)
BitNot(a)    == WordSpan - 1 - a

\* The counts a shift instruction can end up using.  A count of the word's
\* width or more is undefined in C: the hardware masks it, or shifts every
\* bit out; the second outcome is written WordBits here.
ShiftCounts(s) == IF s < WordBits THEN {s} ELSE {s % WordBits, WordBits}

ShiftLeft(a, s)  == IF s < WordBits THEN Wrap(a * Power[s]) ELSE 0
ShiftRight(a, s) == IF s < WordBits THEN a \div Power[s] ELSE 0
=============================================================================
