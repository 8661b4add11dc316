----------------------------- MODULE DezDisasm ------------------------------
(***************************************************************************)
(* The disassembler (src/core/dez_disasm.c): the text an instruction word  *)
(* is shown as, as characters of DezLexer.                                 *)
(***************************************************************************)
EXTENDS DezISA, DezLexer

CONSTANT RegisterName   \* RegisterName[r]: the name of register r

Mnemonics ==
    {"MOV", "LOAD", "STORE", "ADD", "SUB", "MUL", "DIV", "JMP", "JZ", "JNZ", "CMP", "SYS", "INC",
     "DEC", "LOAD_INDIRECT", "STORE_INDIRECT", "LOAD_INDEXED", "STORE_INDEXED", "HALT", "NOP"}

\* dez_get_instruction_mnemonic
Mnemonic(op) == IF \E n \in Mnemonics : Op[n] = op THEN CHOOSE n \in Mnemonics : Op[n] = op
                ELSE "UNKNOWN"

SyscallNames == <<"PRINT", "PRINT_STR", "PRINT_CHAR", "READ", "READ_STR", "EXIT", "DEBUG">>

\* dez_get_syscall_name
SyscallName(n) == IF n \in DOMAIN SyscallNames THEN SyscallNames[n] ELSE "UNKNOWN_SYS"

\* dez_get_register_name
Reg(r) == Name(RegisterName[r])

Space == Char("space")
Comma == Char("COMMA")

\* Mutant: the second and third register change places.
OperandsSwapped(w, name) ==
    <<name, Space, Reg(Reg1(w)), Comma, Space, Reg(Reg3(w)), Comma, Space, Reg(Reg2(w))>>

\* An arithmetic instruction, in either mode.
ThreeRegisters(w, name) ==
    <<name, Space, Reg(Reg1(w)), Comma, Space, Reg(Reg2(w)), Comma, Space, Reg(Reg3(w))>>

\* The opcode and the word of an instruction the disassembler does not know.
UnknownWord(w, name) ==
    <<name, Space, Numeral(Opcode(w)), Space, Char("UNKNOWN"), Numeral(w), Char("UNKNOWN")>>

\* dez_disasm_instruction
Shown(w) ==
    LET op   == Opcode(w)
        name == Name(Mnemonic(op))
    IN  CASE op \in {Op.MOV, Op.LOAD, Op.JZ, Op.JNZ} ->
                <<name, Space, Reg(Reg1(w)), Comma, Space, Char("HASH"), Numeral(Imm(w))>>
          [] op = Op.STORE ->
                <<name, Space, Reg(Reg1(w)), Comma, Space,
                  Char("LBRACKET"), Numeral(Imm(w)), Char("RBRACKET")>>
          [] op \in {Op.ADD, Op.SUB, Op.MUL, Op.DIV} -> ThreeRegisters(w, name)
          [] op = Op.JMP -> <<name, Space, Char("HASH"), Numeral(Imm(w))>>
          [] op = Op.CMP -> <<name, Space, Reg(Reg1(w)), Comma, Space, Reg(Reg2(w))>>
          [] op = Op.SYS -> <<name, Space, Reg(Reg1(w)), Comma, Space, Name(SyscallName(Imm(w)))>>
          [] op \in {Op.INC, Op.DEC} -> <<name, Space, Reg(Reg1(w))>>
          [] op \in {Op.LOAD_INDIRECT, Op.STORE_INDIRECT} ->
                <<name, Space, Reg(Reg1(w)), Comma, Space,
                  Char("LBRACKET"), Reg(Reg2(w)), Char("RBRACKET")>>
          [] op \in {Op.LOAD_INDEXED, Op.STORE_INDEXED} ->
                <<name, Space, Reg(Reg1(w)), Comma, Space, Char("LBRACKET"), Reg(Reg2(w)),
                  Space, Char("UNKNOWN"), Space, Reg(Reg3(w)), Char("RBRACKET")>>
          [] op \in {Op.HALT, Op.NOP} -> <<name>>
          [] OTHER -> UnknownWord(w, name)
=============================================================================
