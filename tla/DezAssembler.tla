---------------------------- MODULE DezAssembler ----------------------------
(***************************************************************************)
(* The assembler, from a source file that was read to a binary file:       *)
(* parser_parse of src/assembler/dez_parser.c, a first pass that defines   *)
(* labels and a second that emits words, and then the string copy of       *)
(* assembler_assemble_string and write_binary_file_with_strings of         *)
(* src/assembler/dez_assembler.c.                                          *)
(*                                                                         *)
(* A source is a sequence of lines as parser_parse_line_with_labels tells  *)
(* them apart: a label, a constant, an instruction, a blank or comment     *)
(* line, a line the parser reports an error on ("error"), and a line that  *)
(* does not start with an identifier ("other").  DezParser has the same    *)
(* parser over the text of the source.                                     *)
(***************************************************************************)
EXTENDS DezEncoder, DezLibrary, FiniteSets

CONSTANTS
    Sources,    \* the programs considered
    Capacity,   \* output_capacity, in words
    JunkBytes   \* bound: contents of memory that malloc may hand out

LineKind == {"label", "constant", "instruction", "blank", "error", "other"}

IsSource(src) ==
    /\ Len(src) \in Nat
    /\ \A k \in 1 .. Len(src) :
          /\ src[k].kind \in LineKind
          /\ src[k].kind \in {"label", "constant"} => src[k].name \in Names
          /\ src[k].kind = "constant" => src[k].value \in Nat
          /\ src[k].kind = "instruction" => IsInstruction(src[k].instruction)

ASSUME AssemblerAssumption ==
    /\ \A src \in Sources : IsSource(src)
    /\ Capacity \in Nat \ {0} /\ Capacity < WordSpan
    /\ JunkBytes \subseteq Byte

VARIABLES
    source,             \* the input
    stage,              \* pass, then control point of the code after the parser
    line,               \* lines of the input the lexer is past
    current_address,    \* parser->current_address
    symbol_table,       \* assembler->symbol_table
    output_buffer,      \* assembler->output_buffer, byte by byte
    output_size,        \* output_size of the parser, then of the assembler
    symbol,             \* the symbol the string loop is at
    output_file         \* the binary file

asmVars == <<source, stage, line, current_address, symbol_table,
             output_buffer, output_size, symbol, output_file>>

Passes == {"pass1", "pass2"}
Stage  == Passes \union {"strings", "write", "written", "unwritten", "failed"}
Ended  == {"written", "unwritten", "failed"}

BufferByte == 0 .. 4 * Capacity - 1

NoFile == [exists |-> FALSE, header |-> -1, body |-> <<>>]

\* The output never grows past its buffer, which holds nothing but bytes,
\* and the symbol table keeps its shape between the parser's calls.
AssemblerTypeOK ==
    /\ IsSource(source)
    /\ stage \in Stage
    /\ line \in 0 .. Len(source)
    /\ current_address \in 0 .. Len(source)
    /\ IsSymbolTable(symbol_table)
    /\ output_buffer \in [BufferByte -> Byte]
    /\ output_size \in 0 .. Capacity
    /\ symbol \in 1 .. Len(symbol_table.symbols) + 1

AssemblerInit ==
    /\ source \in Sources
    /\ stage = "pass1"
    /\ line = 0
    /\ current_address = 0
    /\ symbol_table = EmptySymbolTable
    /\ \E junk \in JunkBytes : output_buffer = [b \in BufferByte |-> junk]
    /\ output_size = 0
    /\ symbol = 1
    /\ output_file = NoFile

----------------------------------------------------------------------------
(* parser_parse: what the parser does with a line, and reading the lines. *)

parserVars == <<stage, current_address, symbol_table, output_buffer,
                output_size, symbol, output_file>>

\* Mutant: a label is bound to the instruction after the next.
LabelAddressLate == current_address + 1

LabelAddress == current_address

\* Labels and constants are defined in the first pass.  A refused definition
\* is ignored.
Defines(l) ==
    /\ symbol_table' =
          IF stage # "pass1" THEN symbol_table
          ELSE IF l.kind = "label" THEN AfterDefineLabel(symbol_table, l.name, LabelAddress)
          ELSE AfterDefineConstant(symbol_table, l.name, l.value)
    /\ UNCHANGED <<stage, current_address, output_buffer, output_size, symbol, output_file>>

\* In the first pass an instruction only counts.
Counts ==
    /\ stage = "pass1"
    /\ current_address' = current_address + 1
    /\ UNCHANGED <<stage, symbol_table, output_buffer, output_size, symbol, output_file>>

\* The four bytes of a word in memory, least significant first.
InstructionByte(w, k) ==
    (w \div << 1, ByteSpan, ByteSpan * ByteSpan, ByteSpan * (ByteSpan * ByteSpan) >>[k + 1])
        % ByteSpan

\* Mutant: off by one.
RoomForOneMore == output_size <= Capacity

Room == output_size < Capacity

\* In the second pass it is encoded and appended to the output.
Emits(i) ==
    /\ stage = "pass2"
    /\ Room
    /\ symbol_table' = AfterEncode(symbol_table, i)
    /\ \E encoded \in {Encode(symbol_table', i, junk) : junk \in Junk} :
          output_buffer' = [b \in DOMAIN output_buffer |->
                              IF b \div 4 = output_size
                                THEN InstructionByte(encoded, b % 4)
                                ELSE output_buffer[b]]
    /\ output_size' = output_size + 1
    /\ current_address' = current_address + 1
    /\ UNCHANGED <<stage, symbol, output_file>>

\* The word is encoded, its symbols defined, before the room is tested.
Overflows(i) ==
    /\ stage = "pass2"
    /\ ~Room
    /\ symbol_table' = AfterEncode(symbol_table, i)
    /\ stage' = "failed"
    /\ UNCHANGED <<current_address, output_buffer, output_size, symbol, output_file>>

\* Mutant: the error flag of the parser is not set.
FailsNot == UNCHANGED parserVars

\* The error flag is set: both loops stop, and parser_parse returns false.
Fails ==
    /\ stage' = "failed"
    /\ UNCHANGED <<current_address, symbol_table, output_buffer, output_size, symbol, output_file>>

StartsSecondPass ==
    /\ stage = "pass1"
    /\ stage' = "pass2"
    /\ current_address' = 0
    /\ output_size' = 0
    /\ UNCHANGED <<symbol_table, output_buffer, symbol, output_file>>

EndsSecondPass ==
    /\ stage = "pass2"
    /\ stage' = "strings"
    /\ UNCHANGED <<current_address, symbol_table, output_buffer, output_size, symbol, output_file>>

AtLine(kind) ==
    /\ stage \in Passes
    /\ line < Len(source)
    /\ source[line + 1].kind = kind

NextLine == line' = line + 1 /\ UNCHANGED source

Blank            == AtLine("blank") /\ UNCHANGED parserVars /\ NextLine
Label            == AtLine("label") /\ Defines(source[line + 1]) /\ NextLine
Constant         == AtLine("constant") /\ Defines(source[line + 1]) /\ NextLine
CountInstruction == AtLine("instruction") /\ Counts /\ NextLine
EmitInstruction  == AtLine("instruction") /\ Emits(source[line + 1].instruction) /\ NextLine
OutputOverflow   == AtLine("instruction") /\ Overflows(source[line + 1].instruction) /\ NextLine
ParserError      == AtLine("error") /\ Fails /\ NextLine

\* The end of the input, or a line without an identifier at its start: the
\* parser stops there and does not report an error.
PassEnds == stage \in Passes /\ (line = Len(source) \/ AtLine("other"))

SecondPass == PassEnds /\ StartsSecondPass /\ line' = 0 /\ UNCHANGED source
Parsed     == PassEnds /\ EndsSecondPass /\ UNCHANGED <<source, line>>

----------------------------------------------------------------------------
(* The rest of assembler_assemble_string, and the file. *)

Terminated(text) == Append(text, 0)

IsString(s) == s.type = "STRING"

AtString ==
    /\ stage = "strings"
    /\ symbol <= Len(symbol_table.symbols)
    /\ IsString(symbol_table.symbols[symbol])

\* The test the source makes: the address counts as one of a byte.
SpaceChecked(s) == s.address + Len(Terminated(s.text)) <= 4 * Capacity

\* memcpy to &output_buffer[address]: here the address counts words.
FirstByte(s) == 4 * s.address
LastByte(s)  == FirstByte(s) + Len(s.text)

WordsOf(n) == (n + 3) \div 4

\* Bytes past the end of the buffer change nothing here, or end the process
\* (CopyAborts): the outcomes of an out of bounds memcpy that are modelled.
CopyString ==
    /\ AtString
    /\ LET s   == symbol_table.symbols[symbol]
           end == WordsOf(s.address + Len(Terminated(s.text)))
       IN  /\ SpaceChecked(s)
           /\ output_buffer' =
                [b \in DOMAIN output_buffer |->
                    IF b \in FirstByte(s) .. LastByte(s)
                      THEN Terminated(s.text)[b - FirstByte(s) + 1]
                      ELSE output_buffer[b]]
           /\ output_size' = IF end > output_size THEN end ELSE output_size
    /\ symbol' = symbol + 1
    /\ UNCHANGED <<source, stage, line, current_address, symbol_table, output_file>>

CopyAborts ==
    /\ AtString
    /\ SpaceChecked(symbol_table.symbols[symbol])
    /\ LastByte(symbol_table.symbols[symbol]) \notin BufferByte
    /\ stage' = "failed"
    /\ UNCHANGED <<source, line, current_address, symbol_table,
                   output_buffer, output_size, symbol, output_file>>

StringsTooLong ==
    /\ AtString
    /\ ~SpaceChecked(symbol_table.symbols[symbol])
    /\ stage' = "failed"
    /\ UNCHANGED <<source, line, current_address, symbol_table,
                   output_buffer, output_size, symbol, output_file>>

OtherSymbol ==
    /\ stage = "strings"
    /\ symbol <= Len(symbol_table.symbols)
    /\ ~IsString(symbol_table.symbols[symbol])
    /\ symbol' = symbol + 1
    /\ UNCHANGED <<source, stage, line, current_address, symbol_table,
                   output_buffer, output_size, output_file>>

StringsDone ==
    /\ stage = "strings"
    /\ symbol > Len(symbol_table.symbols)
    /\ stage' = "write"
    /\ UNCHANGED <<source, line, current_address, symbol_table,
                   output_buffer, output_size, symbol, output_file>>

\* Mutant: strings are written without their terminator.
PaddedNoTerminator(text) == [b \in 1 .. 4 * WordsOf(Len(text)) |->
                                IF b <= Len(text) THEN text[b] ELSE 0]

\* A string and its terminator, padded with zeros to whole words.
Padded(text) == [b \in 1 .. 4 * WordsOf(Len(text) + 1) |->
                    IF b <= Len(text) THEN text[b] ELSE 0]

StringData ==
    LET symbols == symbol_table.symbols
    IN  Sequence!FlattenSeq([k \in 1 .. Len(symbols) |->
            IF IsString(symbols[k]) THEN Padded(symbols[k].text) ELSE <<>>])

\* write_binary_file_with_strings, or fopen fails.
WriteFile ==
    /\ stage = "write"
    /\ \/ /\ stage' = "written"
          /\ output_file' =
                [exists |-> TRUE,
                 header |-> output_size,
                 body   |-> [b \in 1 .. 4 * output_size |-> output_buffer[b - 1]] \o StringData]
       \/ /\ stage' = "unwritten"
          /\ UNCHANGED output_file
    /\ UNCHANGED <<source, line, current_address, symbol_table, output_buffer, output_size, symbol>>

\* assembler_assemble_string
AssembleString ==
    \/ Blank \/ Label \/ Constant \/ CountInstruction \/ EmitInstruction \/ OutputOverflow
    \/ ParserError \/ SecondPass \/ Parsed
    \/ CopyString \/ CopyAborts \/ StringsTooLong \/ OtherSymbol \/ StringsDone

\* assembler_assemble_file, to a file that is not one of hex digits.
Assemble == AssembleString \/ WriteFile

AssemblerExited == stage \in Ended /\ UNCHANGED asmVars

AssemblerNext == Assemble \/ AssemblerExited
AssemblerSpec == AssemblerInit /\ [][AssemblerNext]_asmVars /\ WF_asmVars(Assemble)

----------------------------------------------------------------------------
(* Correctness. *)

\* The lines the parser gets to, and what it makes of them, said without
\* passes or counters.
Reached(src) ==
    LET stops == {k \in 1 .. Len(src) : src[k].kind = "other"}
    IN  {k \in 1 .. Len(src) : \A s \in stops : k < s}

InstructionLines(src) == {k \in Reached(src) : src[k].kind = "instruction"}

\* The instructions before a line.
Before(src, k) == Cardinality({j \in InstructionLines(src) : j < k})

DefiningLines(src, n) ==
    {k \in Reached(src) : src[k].kind \in {"label", "constant"} /\ Stored[src[k].name] = n}

FirstOf(lines) == CHOOSE k \in lines : \A j \in lines : k <= j

\* The first definition of a name counts: a constant is its value, a label
\* stands for the instruction after it.
Denoted(src, n) ==
    LET k == FirstOf(DefiningLines(src, n))
    IN  IF src[k].kind = "constant" THEN src[k].value ELSE Before(src, k)

\* The lines whose literal gets the symbol name n, and the first of these
\* literals.
LiteralLines(src, n) ==
    {k \in InstructionLines(src) :
        LET i == src[k].instruction
        IN  i.op = Op.MOV /\ LastArg(i).type = "STRING" /\ StringName[LastArg(i).string] = n}

FirstLiteral(src, n) == LastArg(src[FirstOf(LiteralLines(src, n))].instruction).string

WordAt(n) ==
    LET b(k) == output_buffer[4 * n + k]
    IN  b(0) + ByteSpan * (b(1) + ByteSpan * (b(2) + ByteSpan * b(3)))

\* The operands that are encoded as registers, if they are registers.
RegisterOperands(op) ==
    IF op \in JumpOps THEN {} ELSE IF op \in ImmediateOps THEN {1} ELSE 1 .. 3

\* w, decoded as the virtual machine does, is the instruction i as far as the
\* source spells it: its opcode, its registers, and a number as far as the
\* immediate field can hold it.  What MOV loads from a register,
\* the number the operand union holds, is not part of it.
DecodesLiterally(w, i) ==
    /\ Opcode(w) = i.op
    /\ \A k \in 1 .. Len(i.args) :
          LET o     == i.args[k]
              field == << Reg1(w), Reg2(w), Reg3(w) >>[k]
          IN  /\ o.type = "REGISTER" /\ k \in RegisterOperands(i.op) => field = o.reg
              /\ o.type = "REGISTER" /\ k = 3 /\ i.op \in ArithmeticOps => ~ImmediateMode(w)
              /\ o.type = "IMMEDIATE" /\ i.op \in ArithmeticOps =>
                    ImmediateMode(w) /\ ExtImm(w) = o.value % (ImmSpan \div 2)
              /\ o.type = "IMMEDIATE" /\ i.op = Op.CMP => Reg2(w) = 0
              /\ o.type \in {"IMMEDIATE", "MEMORY"} /\ i.op \notin ArithmeticOps =>
                    Imm(w) = o.value % ImmSpan

\* The immediate field of w points to the literal of the symbol n, if the
\* address of the literal fits the field.
PointsTo(src, w, n) ==
    \E k \in 1 .. Len(symbol_table.symbols) :
        LET s == symbol_table.symbols[k]
        IN  /\ s.name = n /\ s.text = FirstLiteral(src, n)
            /\ Imm(w) = s.address % ImmSpan
            /\ StringAt(symbol_table, s.address) = k

\* The same for names: a label or a constant is what it denotes, and a literal
\* is read where the first literal of its name is, unless a label or a
\* constant has that name: names are cut, so different literals may share one.
Decodes(src, w, i) ==
    /\ DecodesLiterally(w, i)
    /\ \A k \in 1 .. Len(i.args) :
          LET o == i.args[k]
          IN  /\ o.type = "LABEL" /\ DefiningLines(src, o.label) # {} =>
                    Imm(w) = Denoted(src, o.label) % ImmSpan
              /\ o.type = "STRING" /\ DefiningLines(src, StringName[o.string]) = {} =>
                    PointsTo(src, w, StringName[o.string])

\* After the second pass the output is the program: the k-th word decodes to
\* the k-th instruction if its operands have types the encoder knows, with
\* every name, defined before or after its use, standing for its first
\* definition.  The operands of other instructions do not disturb them.  (A
\* symbol that finds the table full is dropped, its uses get address 0.)
OutputIsProgram ==
    stage = "strings" /\ symbol = 1 /\ ~Full(symbol_table) =>
        /\ output_size = Cardinality(InstructionLines(source))
        /\ \A k \in InstructionLines(source) :
              WellTyped(source[k].instruction) =>
                  Decodes(source, WordAt(Before(source, k)), source[k].instruction)

\* A program without errors that fits is parsed to its end, any other makes
\* the assembler fail, and it never fails to finish.
ParseSucceeds(src) ==
    /\ \A k \in Reached(src) : src[k].kind # "error"
    /\ Cardinality(InstructionLines(src)) <= Capacity

AssemblyOutcome ==
    /\ ParseSucceeds(source) => <>(stage = "strings")
    /\ ~ParseSucceeds(source) => [](stage \in Passes \union {"failed"})
    /\ <>(stage \in Ended)
=============================================================================
