----------------------------- MODULE MCMachine ------------------------------
(***************************************************************************)
(* DezVM on three families of programs: two arbitrary instructions of the  *)
(* whole instruction set after a MOV that chooses R0; comparisons followed *)
(* by every conditional jump; and every sequence of four stack             *)
(* instructions, jumps and stores into the stack.                          *)
(***************************************************************************)
EXTENDS DezVM

\* Words are 13 bits wide: 2 registers, 16 addresses, 64 opcodes.
MCWordSpan == 8192

\* Set in an immediate, the flag that selects the immediate form.
Mode == ImmSpan \div 2

Moves == { Pack(Op.MOV, 0, 0, 0, i) : i \in {0, 3, 9, 13} }

ConditionalJumps ==
    { Pack(op, 0, 0, 0, i) :
        op \in {Op.JZ, Op.JNZ, Op.JL, Op.JG, Op.JLE, Op.JGE}, i \in {0, 2} }

Comparisons ==
    { Pack(Op.CMP, 0, 1, 0, 0), Pack(Op.CMP, 0, 0, 0, 3), Pack(Op.CMP, 1, 0, 0, 9) }

Arithmetic ==
    { Pack(Op.ADD, 1, 0, 0, 0), Pack(Op.ADD, 1, 0, 0, Mode + 7),
      Pack(Op.SUB, 0, 1, 0, 0), Pack(Op.SUB, 1, 1, 0, Mode + 1),
      Pack(Op.MUL, 0, 0, 0, 0), Pack(Op.MUL, 1, 1, 0, Mode + 5),
      Pack(Op.DIV, 0, 0, 1, 0), Pack(Op.DIV, 1, 0, 0, Mode),
      Pack(Op.DIV, 0, 0, 0, Mode + 2),
      Pack(Op.AND, 1, 0, 1, 0), Pack(Op.OR, 1, 0, 1, 0), Pack(Op.XOR, 1, 0, 1, 0),
      Pack(Op.NOT, 1, 0, 0, 0), Pack(Op.SHL, 1, 0, 0, 0), Pack(Op.SHR, 0, 0, 1, 0),
      Pack(Op.SHR, 1, 1, 0, 0), Pack(Op.INC, 0, 0, 0, 0), Pack(Op.DEC, 1, 0, 0, 0) }

Memory ==
    { Pack(Op.MOV, 1, 0, 0, 15), Pack(Op.LOAD, 1, 0, 0, 0), Pack(Op.LOAD, 0, 0, 0, 15),
      Pack(Op.STORE, 0, 0, 0, 2), Pack(Op.STORE, 0, 0, 0, 9),
      Pack(Op.LOAD_INDIRECT, 1, 0, 0, 0), Pack(Op.STORE_INDIRECT, 1, 0, 0, 0),
      Pack(Op.STORE_INDIRECT, 0, 1, 0, 0), Pack(Op.LOAD_INDIRECT, 0, 1, 0, 0),
      Pack(Op.LOAD_INDEXED, 1, 0, 1, 0), Pack(Op.STORE_INDEXED, 0, 0, 1, 0) }

Flow ==
    { Pack(Op.JMP, 0, 0, 0, 1), Pack(Op.CALL, 0, 0, 0, 1), Pack(Op.RET, 0, 0, 0, 0),
      Pack(Op.PUSH, 0, 0, 0, 0), Pack(Op.PUSH, 1, 0, 0, 0), Pack(Op.POP, 1, 0, 0, 0),
      Pack(Op.SYS, 0, 0, 0, 1), Pack(Op.SYS, 0, 0, 0, SysExit),
      Pack(Op.NOP, 0, 0, 0, 0), Pack(Op.HALT, 0, 0, 0, 0),
      Pack(2, 0, 0, 0, 0), Pack(OpSpan - 1, 0, 0, 0, 0) }

Alphabet == ConditionalJumps \union Comparisons \union Arithmetic \union Memory \union Flow

StackAlphabet ==
    { Pack(Op.PUSH, 0, 0, 0, 0), Pack(Op.PUSH, 1, 0, 0, 0),
      Pack(Op.POP, 0, 0, 0, 0),  Pack(Op.RET, 0, 0, 0, 0),
      Pack(Op.CALL, 0, 0, 0, 0), Pack(Op.CALL, 0, 0, 0, 2),
      Pack(Op.JMP, 0, 0, 0, 0),  Pack(Op.MOV, 0, 0, 0, 3),
      Pack(Op.LOAD, 1, 0, 0, 0), Pack(Op.STORE, 1, 0, 0, 14) }

MCImages ==
    { <<m, x, y>> : m \in Moves, x \in Alphabet, y \in Alphabet }
    \union
    { <<m, c, j, x>> : m \in Moves, c \in Comparisons, j \in ConditionalJumps, x \in Alphabet }
    \union
    [1 .. 4 -> StackAlphabet]
=============================================================================
