----------------------------- MODULE DezEncoder -----------------------------
(***************************************************************************)
(* parser_encode_instruction of src/assembler/dez_parser.c: from a parsed  *)
(* instruction to an instruction word.                                     *)
(*                                                                         *)
(* An operand of the source (dez_operand_t) is a union, and the encoder    *)
(* reads the member its opcode expects, mostly without looking at the      *)
(* operand's type.  A register read as a number is a byte of the union     *)
(* followed by bytes nobody wrote: the parameter junk stands for them.  A  *)
(* name or a text read as a number is its first bytes, and so is the       *)
(* address of "[name]", which the parser hands on as a "MEMORY" operand    *)
(* with that value.                                                        *)
(***************************************************************************)
EXTENDS DezISA, DezByte, DezSymbolTable

CONSTANTS
    StringName,     \* StringName[s]: the symbol name made of the literal s
    Spelling        \* Spelling[n]: the bytes of the name n

ASSUME EncoderAssumption ==
    /\ Spelling \in [Names -> Seq(Byte)]
    \* A byte can hold the number of a register.
    /\ NReg <= ByteSpan

JumpOps       == {Op.JMP, Op.JZ, Op.JNZ, Op.JL, Op.JG, Op.JLE, Op.JGE, Op.CALL}
ImmediateOps  == {Op.MOV, Op.LOAD, Op.STORE, Op.SYS}
ArithmeticOps == {Op.ADD, Op.SUB, Op.MUL, Op.DIV}
IndexedOps    == {Op.LOAD_INDEXED, Op.STORE_INDEXED}
LogicOps      == {Op.AND, Op.OR, Op.XOR, Op.SHL, Op.SHR}
IndirectOps   == {Op.LOAD_INDIRECT, Op.STORE_INDIRECT, Op.NOT}
SingleOps     == {Op.PUSH, Op.POP, Op.INC, Op.DEC}
NullaryOps    == {Op.RET, Op.HALT, Op.NOP}

\* The number of operands parser_parse_instruction reads for an opcode, and
\* the types the encoder gives a meaning to at each position.
Format(op) ==
    LET reg == {"REGISTER"}
    IN  CASE op = Op.MOV   -> <<reg, {"IMMEDIATE", "MEMORY", "LABEL", "STRING", "REGISTER"}>>
          [] op = Op.LOAD  -> <<reg, {"IMMEDIATE", "MEMORY", "LABEL", "REGISTER"}>>
          [] op = Op.STORE -> <<reg, {"IMMEDIATE", "MEMORY", "REGISTER"}>>
          [] op = Op.SYS   -> <<reg, {"IMMEDIATE"}>>
          [] op = Op.CMP   -> <<reg, {"IMMEDIATE", "REGISTER"}>>
          [] op \in JumpOps -> <<{"LABEL", "IMMEDIATE", "REGISTER"}>>
          [] op \in ArithmeticOps -> <<reg, reg, {"IMMEDIATE", "REGISTER"}>>
          [] op \in IndexedOps \union LogicOps -> <<reg, reg, reg>>
          [] op \in IndirectOps -> <<reg, reg>>
          [] op \in SingleOps   -> <<reg>>
          [] op \in NullaryOps  -> <<>>

OperandType == {"REGISTER", "IMMEDIATE", "MEMORY", "LABEL", "STRING"}

\* The parser accepts an operand of any type at any position.
IsOperand(o) ==
    /\ o.type \in OperandType
    /\ CASE o.type = "REGISTER" -> o.reg \in Register
         [] o.type \in {"IMMEDIATE", "MEMORY"} -> o.value \in Nat
         [] o.type = "LABEL"    -> o.label \in Names
         [] o.type = "STRING"   -> o.string \in Seq(Byte) /\ StringName[o.string] \in Names

IsInstruction(i) ==
    /\ i.op \in Opcodes
    /\ Len(i.args) = Len(Format(i.op))
    /\ \A k \in 1 .. Len(i.args) : IsOperand(i.args[k])

WellTyped(i) == \A k \in 1 .. Len(i.args) : i.args[k].type \in Format(i.op)[k]

LastArg(i) == i.args[Len(i.args)]

\* Values of the bytes of a union that were never written, as a number above
\* the byte that was; only what reaches the immediate field matters.
Junk == 0 .. (ImmSpan - 1) \div ByteSpan

\* The operand an instruction looks up in, or adds to, the symbol table.
Symbolic(i) ==
    {i.args[k] : k \in {j \in 1 .. Len(i.args) :
        \/ i.args[j].type = "STRING" /\ i.op = Op.MOV /\ j = 2
        \/ i.args[j].type = "LABEL" /\ i.op \in {Op.MOV, Op.LOAD} /\ j = 2
        \/ i.args[j].type = "LABEL" /\ i.op \in JumpOps}}

SymbolName(o) == IF o.type = "STRING" THEN StringName[o.string] ELSE o.label

\* The symbol table after the encoder defined the literal or looked up the
\* name of an instruction.
AfterEncode(t, i) ==
    IF Symbolic(i) = {} THEN t
    ELSE LET o == CHOOSE o \in Symbolic(i) : TRUE
         IN  IF o.type = "STRING"
               THEN AfterFind(AfterDefineString(t, SymbolName(o), o.string), SymbolName(o))
               ELSE AfterFind(t, SymbolName(o))

\* An undefined symbol has address 0.
SymbolAddress(t, n) == IF Find(t, n) = None THEN 0 ELSE t.symbols[Find(t, n)].address

\* The first four bytes of a string, as the host reads them.
LeadingWord(bytes) ==
    LET b(k) == IF k <= Len(bytes) THEN bytes[k] ELSE 0
    IN  b(1) + ByteSpan * (b(2) + ByteSpan * (b(3) + ByteSpan * b(4)))

\* The union of an operand read as a number, and as a register.
UnionWord(o, junk) ==
    CASE o.type = "REGISTER" -> o.reg + ByteSpan * junk
      [] o.type = "LABEL"    -> LeadingWord(Spelling[o.label])
      [] o.type = "STRING"   -> LeadingWord(o.string)
      [] OTHER -> o.value

UnionByte(o) == UnionWord(o, 0) % ByteSpan

\* The number the encoder takes operand k for, with t = AfterEncode(...).
Number(t, i, k, junk) ==
    IF i.args[k] \in Symbolic(i) THEN SymbolAddress(t, SymbolName(i.args[k]))
    ELSE UnionWord(i.args[k], junk)

\* The fields, or-ed together: a byte that is not a register number reaches
\* into the fields above.
Joined(op, a, b, c, n) ==
    LET parts == {Pack(op, 0, 0, 0, n), Pack(0, a, 0, 0, 0), Pack(0, 0, b, 0, 0), Pack(0, 0, 0, c, 0)}
    IN  FromBits([k \in 0 .. WordBits - 1 |-> IF \E p \in parts : Bit(p, k) = 1 THEN 1 ELSE 0])

RegisterField(i, k) == IF k <= Len(i.args) THEN UnionByte(i.args[k]) ELSE 0

ArithmeticImmediate(i) ==
    Joined(i.op, RegisterField(i, 1), RegisterField(i, 2), 0,
           (ImmSpan \div 2) + (i.args[3].value % (ImmSpan \div 2)))

Encode(t, i, junk) ==
    CASE i.op \in ImmediateOps ->
            Joined(i.op, RegisterField(i, 1), 0, 0, Number(t, i, 2, junk) % ImmSpan)
      [] i.op \in JumpOps ->
            Pack(i.op, 0, 0, 0, Number(t, i, 1, junk) % ImmSpan)
      [] i.op \in ArithmeticOps /\ LastArg(i).type = "IMMEDIATE" ->
            ArithmeticImmediate(i)
      [] i.op = Op.CMP /\ LastArg(i).type = "IMMEDIATE" ->
            Joined(i.op, RegisterField(i, 1), 0, 0, i.args[2].value % ImmSpan)
      [] OTHER ->
            Joined(i.op, RegisterField(i, 1), RegisterField(i, 2), RegisterField(i, 3), 0)
=============================================================================
