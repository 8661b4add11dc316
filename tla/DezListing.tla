----------------------------- MODULE DezListing -----------------------------
(***************************************************************************)
(* From text to a file and back: asm assembles a source (DezParser), then  *)
(* disasm_tool (src/tools/disasm_tool.c) lists the file it wrote, with -S  *)
(* with tags for the labels of the source, or words typed as arguments.    *)
(*                                                                         *)
(* The tool does not ask the assembler where its labels are.  It searches  *)
(* the disk for a source of the binary's name, counts lines in it, and     *)
(* takes the binary for a sequence of words, of which the header is the    *)
(* first: three more readings of what the assembler and the loader read.   *)
(*                                                                         *)
(* The formats differ in the columns they print and share everything here. *)
(***************************************************************************)
EXTENDS DezParser, DezDisasm, DezOptions

CONSTANTS
    Invocations(_), \* Invocations(txt): ways to start the tool after txt was assembled
    LineLimit,      \* bytes that one call of fgets takes (MAX_LINE_LENGTH - 1 = 1023)
    LabelLimit      \* MAX_LABEL_LENGTH (64)

NotFound == <<"nowhere">>

\* An invocation has the arguments, and the directories that hold a source of
\* the name searched for (the one that was assembled): a directory is the
\* sequence of names that leads to it from the current one.
IsInvocation(v) ==
    /\ Len(v.argv) \in Nat
    /\ \A k \in 1 .. Len(v.argv) : IsArgument(v.argv[k])
    /\ NotFound \notin v.holders

ASSUME ListingAssumption == \A d \in Documents : \A v \in Invocations(d.text) : IsInvocation(v)

ASSUME LimitsAssumption == LineLimit \in Nat \ {0} /\ LabelLimit \in Nat

\* The bytes of the sources: words and numbers are written in letters, digits
\* and underscores, each other character in one byte, no two words alike.
Wordy(c) == c.is \in {"word", "number"}

ASSUME WrittenAssumption ==
    \A d \in Documents : \A j \in 1 .. Len(d.text) :
        /\ Written(d.text[j]) \in Seq(Byte) /\ Written(d.text[j]) # <<>>
        /\ ~Wordy(d.text[j]) => Len(Written(d.text[j])) = 1
        /\ \A k \in 1 .. Len(d.text) :
              d.text[j].is = "word" /\ d.text[k].is = "word" /\ Written(d.text[j]) = Written(d.text[k])
                  => d.text[j] = d.text[k]

\* The names the disassembler shows mean the same to the assembler, as far as
\* it knows them; those of instructions and calls are not registers.
ASSUME ShownNamesAssumption ==
    /\ \A r \in Register : /\ RegisterName[r] \in DOMAIN RegisterNumber
                           /\ RegisterNumber[RegisterName[r]] = r
    /\ \A n \in Mnemonics \union Sequence!Range(SyscallNames) \union {"UNKNOWN", "UNKNOWN_SYS"} :
          n \notin DOMAIN RegisterNumber
    /\ \A n \in DOMAIN SyscallNumber :
          SyscallNumber[n] \in DOMAIN SyscallNames /\ SyscallNames[SyscallNumber[n]] = n
    /\ \A n \in Sequence!Range(SyscallNames) \union {"UNKNOWN_SYS"} :
          n \in DOMAIN SyscallNumber \union Names

VARIABLES
    holders,        \* the directories of the invocation
    found,          \* the directory the source was found in
    labels,         \* the symbols of the tool's symbol_table_t
    scanned,        \* bytes of the source that parse_assembly_file has read
    address,        \* its address
    rows            \* the lines printed

toolVars == <<optionVars, holders, found, labels, scanned, address, rows>>

ListingInit ==
    /\ ParserInit
    /\ OptionsInit
    /\ holders = {}
    /\ found = NotFound
    /\ labels = <<>>
    /\ scanned = 0
    /\ address = 0
    /\ rows = <<>>

----------------------------------------------------------------------------
(* find_assembly_file *)

SourceDirs ==
    <<"src", "source", "asm", "assembly", "tests/asm", "test/asm", "examples", "samples">>

\* The directory a round of the search starts from.  get_directory returns a
\* static buffer, and the call for the parent cuts the path in it short: the
\* "binary directory" climbs one level per round, and the parent, equal to
\* it, is not tried, until no slash is left.
RoundDir(dir, i) == SubSeq(dir, 1, Set!Min({Len(dir), Set!Max({1, Len(dir) - i + 1})}))

RoundDirs(dir, i) ==
    LET d == RoundDir(dir, i)
    IN  <<Append(d, SourceDirs[i])>> \o (IF Len(d) = 1 THEN << <<SourceDirs[i]>> >> ELSE <<>>)

Rounds == 1 .. Len(SourceDirs)
Here   == << <<>> >> \o [i \in Rounds |-> <<SourceDirs[i]>>]

\* The file whose source is searched for.
Searched ==
    IF options.symbol_file # Absent THEN options.symbol_file
    ELSE IF HasFilename /\ options.symbols THEN options.filename
    ELSE Absent

\* Mutant: the custom directories come after the usual ones.
SearchPathCustomLast(dir) ==
    <<dir>> \o Sequence!FlattenSeq([i \in Rounds |-> RoundDirs(dir, i)]) \o options.custom \o Here

SearchPath(dir) ==
    <<dir>> \o options.custom \o Sequence!FlattenSeq([i \in Rounds |-> RoundDirs(dir, i)]) \o Here

\* The first directory on the path that holds the source.
FoundDir ==
    LET path == SearchPath(Searched.dir)
        hits == {k \in DOMAIN path : path[k] \in holders}
    IN  IF hits = {} THEN NotFound ELSE path[Set!Min(hits)]

----------------------------------------------------------------------------
(* load_symbol_table and parse_assembly_file, over the bytes of the text.  *)

\* create_sample_symbol_table, whose constant and string have addresses too.
SampleLabels ==
    << [label |-> Written(Name("main")), address |-> 0],
       [label |-> Written(Name("loop_start")), address |-> 16],
       [label |-> Written(Name("loop_end")), address |-> 32],
       [label |-> Written(Name("ARRAY_SIZE")), address |-> 10],
       [label |-> Written(Name("msg_hello")), address |-> StringStart] >>

\* The source as it is on the disk: each byte, and the kind of it.
Letters(c) ==
    [j \in DOMAIN Written(c) |-> [is |-> IF Wordy(c) THEN "name" ELSE c.is, byte |-> Written(c)[j]]]

File == Sequence!FlattenSeq([k \in 1 .. Len(text) |-> Letters(text[k])])

\* fgets: up to a newline, the end of the file or the size of the buffer.  The
\* rest of a line that is longer, even of a word, is another line.
PieceEnd(f, p) ==
    CHOOSE q \in p + 1 .. Len(f) :
        /\ q \in {Len(f), p + LineLimit} \/ f[q].is = "NEWLINE"
        /\ q <= p + LineLimit
        /\ \A k \in p + 1 .. q - 1 : f[k].is # "NEWLINE"

Piece(f, p) == SubSeq(f, p + 1, PieceEnd(f, p))

Whitespace == {"space", "cr", "NEWLINE"}

\* trim_string never takes the first byte: an empty line is its newline, and
\* not skipped.
Trimmed(l) ==
    LET last == CHOOSE q \in DOMAIN l :
                    /\ q = 1 \/ l[q].is \notin Whitespace
                    /\ \A k \in q + 1 .. Len(l) : l[k].is \in Whitespace
    IN  SubSeq(l, 1, last)

\* extract_label_from_line and is_valid_label_name: one name before the first
\* colon, and at most a comment after it.
IsLabel(l, x) ==
    /\ x.at <= x.last /\ x.last < x.colon
    /\ l[x.colon].is = "COLON"
    /\ \A k \in x.at .. x.last : l[k].is = "name"
    /\ \A k \in 1 .. x.colon - 1 : k \notin x.at .. x.last => l[k].is = "space"
    /\ \E end \in x.colon + 1 .. Len(l) + 1 :
          /\ end = Len(l) + 1 \/ l[end].is = "semicolon"
          /\ \A k \in x.colon + 1 .. end - 1 : l[k].is = "space"

Labels(l) == {x \in [at : DOMAIN l, last : DOMAIN l, colon : DOMAIN l] : IsLabel(l, x)}

\* The buffer of the name takes the spaces behind it too.
FitsBuffer(x) == x.colon - x.at < LabelLimit

LabelName(l, x) == [k \in 1 .. x.last - x.at + 1 |-> l[x.at + k - 1].byte]

LabelsIn(l) == {LabelName(l, x) : x \in {y \in Labels(l) : FitsBuffer(y)}}

\* symbol_table_define
WithLabel(c) ==
    IF Len(labels) >= MaxSymbols \/ \E k \in DOMAIN labels : labels[k].label = c THEN labels
    ELSE Append(labels, [label |-> c, address |-> address])

ReadingLine ==
    /\ tool = "source"
    /\ scanned < Len(File)
    /\ scanned' = PieceEnd(File, scanned)
    /\ UNCHANGED <<optionVars, holders, found, rows>>

\* The line that was read.
CurrentLine == Trimmed(Piece(File, scanned))

\* Comments are recognised in the first column only.
CommentLine == CurrentLine[1].is = "semicolon"

SkipComment == ReadingLine /\ CommentLine /\ UNCHANGED <<labels, address>>

\* Mutant: label lines take up an address too.
LabelLineCounted ==
    /\ ReadingLine
    /\ ~CommentLine
    /\ \E c \in LabelsIn(CurrentLine) : labels' = WithLabel(c)
    /\ address' = (address + 4) % WordSpan

LabelLine ==
    /\ ReadingLine
    /\ ~CommentLine
    /\ \E c \in LabelsIn(CurrentLine) : labels' = WithLabel(c)
    /\ UNCHANGED address

CountedLine ==
    /\ ReadingLine
    /\ ~CommentLine
    /\ LabelsIn(CurrentLine) = {}
    /\ address' = (address + 4) % WordSpan
    /\ UNCHANGED labels

\* Without a label in the source the sample table is used.
SourceRead ==
    /\ tool = "source"
    /\ scanned = Len(File)
    /\ labels' = IF labels = <<>> THEN SampleLabels ELSE labels
    /\ Stop(IF HasFilename THEN "window" ELSE "listing")
    /\ UNCHANGED <<holders, found, scanned, address, rows>>

----------------------------------------------------------------------------
(* main, disassemble_individual_instructions and disassemble_binary_file. *)

StartTool ==
    /\ tool = "idle" /\ stage \in Ended
    /\ tool' = "arguments"
    /\ \E v \in Invocations(text) : argv' = v.argv /\ holders' = v.holders
    /\ UNCHANGED <<taken, options, names, found, labels, scanned, address, rows>>

UseArguments == ReadArguments /\ UNCHANGED <<holders, found, labels, scanned, address, rows>>

\* load_symbol_table, or no symbol table: then the tool goes on at next.
LoadSymbols(next) ==
    /\ \/ Searched = Absent /\ Stop(next) /\ UNCHANGED <<found, labels>>
       \/ /\ Searched # Absent
          /\ found' = FoundDir
          /\ \/ found' = NotFound /\ labels' = SampleLabels /\ Stop(next)
             \/ found' # NotFound /\ UNCHANGED labels /\ Stop("source")
    /\ UNCHANGED <<holders, scanned, address, rows>>

ListWords ==
    /\ tool = "words"
    /\ \/ LoadSymbols("listing") /\ (Searched # Absent \/ ~options.symbols)
       \/ /\ Searched = Absent /\ options.symbols
          /\ labels' = SampleLabels
          /\ Stop("listing")
          /\ UNCHANGED <<holders, found, scanned, address, rows>>

BinaryExists == options.filename.binary /\ output_file.exists

ListFile == tool = "file" /\ BinaryExists /\ LoadSymbols("window")

NoBinary ==
    /\ tool = "file"
    /\ ~BinaryExists
    /\ Stop("refused")
    /\ UNCHANGED <<holders, found, labels, scanned, address, rows>>

\* read_binary_file: the words of the file, its header among them.
Total == 1 + Len(output_file.body) \div 4

FileWord(k) ==
    LET b(j) == output_file.body[4 * (k - 1) + j]
    IN  IF k = 0 THEN output_file.header
        ELSE b(1) + ByteSpan * (b(2) + ByteSpan * (b(3) + ByteSpan * b(4)))

StartIndex == options.start \div 4
Count      == IF options.count = 0 THEN Total ELSE options.count

\* Mutant: the last row is taken for the end.
EndIndexInclusive == Set!Min({(StartIndex + Count - 1) % WordSpan, Total})

\* end_idx is a uint32_t: a large count can wrap around to no rows at all.
EndIndex == Set!Min({(StartIndex + Count) % WordSpan, Total})

CheckWindow ==
    /\ tool = "window"
    /\ Stop(IF StartIndex >= Total THEN "refused" ELSE "listing")
    /\ UNCHANGED <<holders, found, labels, scanned, address, rows>>

\* find_symbol_name: the first symbol of that address, of any type.
NoTag == <<>>

Tag(a) ==
    LET here == {k \in DOMAIN labels : labels[k].address = a}
    IN  IF here = {} THEN NoTag ELSE labels[Set!Min(here)].label

Row(w, a) == rows' = Append(rows, [address |-> a, word |-> w, tag |-> Tag(a)])

\* One round of the loop of either function.
ListRow ==
    /\ tool = "listing"
    /\ \/ /\ HasFilename
          /\ StartIndex + Len(rows) < EndIndex
          /\ Row(FileWord(StartIndex + Len(rows)), (options.start + 4 * Len(rows)) % WordSpan)
       \/ /\ ~HasFilename
          /\ Len(rows) < Len(Words)
          /\ Row(Words[Len(rows) + 1], (4 * Len(rows)) % WordSpan)
    /\ UNCHANGED <<optionVars, holders, found, labels, scanned, address>>

RowsDone ==
    /\ tool = "listing"
    /\ IF HasFilename THEN StartIndex + Len(rows) >= EndIndex ELSE Len(rows) = Len(Words)
    /\ Stop("listed")
    /\ UNCHANGED <<holders, found, labels, scanned, address, rows>>

Disassemble ==
    \/ StartTool \/ UseArguments \/ ListWords \/ ListFile \/ NoBinary
    \/ SkipComment \/ LabelLine \/ CountedLine \/ SourceRead
    \/ CheckWindow \/ ListRow \/ RowsDone

listingVars == <<textVars, toolVars>>

ListingNext ==
    \/ ParserNext /\ UNCHANGED toolVars
    \/ Disassemble /\ UNCHANGED textVars

\* The tool need not be started.
ListingSpec == ListingInit /\ [][ListingNext]_listingVars /\ ParserFairness

----------------------------------------------------------------------------
(* Correctness. *)

ListingTypeOK ==
    /\ ParserTypeOK
    /\ tool \in {"idle", "arguments", "file", "words", "source", "window", "listing",
                 "listed", "helped", "refused"}
    /\ Len(options.custom) <= MaxSearchDirs
    /\ Len(labels) <= Set!Max({MaxSymbols, Len(SampleLabels)})
    /\ scanned \in 0 .. Len(File)
    /\ address \in Word
    /\ \A k \in DOMAIN rows : rows[k].address \in Word /\ rows[k].word \in Word

\* The source beside the binary is taken before any other, then the first of
\* the custom directories, and a source in one of the usual directories
\* under the current one is never missed: the order of the code.  The comment
\* "highest priority" (disasm_tool.c:464) gives the custom directories a rank
\* that the code before it has given away; that those under the binary's are
\* missed is the subject of UsualDirectoriesSearched.
SearchOutcome ==
    Searched # Absent /\ tool \in {"source", "window", "listing"} =>
        LET dir  == Searched.dir
            held == {k \in DOMAIN options.custom : options.custom[k] \in holders}
        IN  /\ found # NotFound => found \in holders
            /\ dir \in holders => found = dir
            /\ dir \notin holders /\ held # {} => found = options.custom[Set!Min(held)]
            /\ holders \intersect Sequence!Range(Here) # {} => found # NotFound

\* Texts in which every line of text is a comment from its first column on,
\* a label, or an instruction.
LineStarts == {p \in 0 .. Len(text) - 1 : p = 0 \/ text[p].is = "NEWLINE"}

\* The place where the line of the text after p ends.
LineEnd(txt, p) == Set!Min({EndOfLine(txt, p) + 1, Len(txt)})

LexerAt(p) == [position |-> p, token |-> NoToken]

TidyStatement(p, s) ==
    \/ s.what.kind = "label" /\ RestOfLine(text, Peek(text, LexerAt(p))) = <<"IDENTIFIER", "COLON">>
    \/ /\ s.what.kind = "instruction"
       /\ Token(text, s.lexer).type \in {"NEWLINE", "EOF"}
       /\ Peek(text, s.lexer).position = LineEnd(text, p)

TidyLine(p) == text[p + 1].is = "semicolon" \/ TidyStatement(p, StatementAt(text, LexerAt(p)))

TidyText ==
    /\ \A p \in 1 .. Len(text) : text[p].is # "cr"
    /\ \A p \in LineStarts : TidyLine(p)

\* No line of the source is longer than the tool's buffer, and no label, with
\* the spaces before its colon, is longer than the one for names.
LinesFit ==
    LET f == File
    IN  \A p \in 0 .. Len(f) - 1 : p = 0 \/ f[p].is = "NEWLINE" =>
            /\ PieceEnd(f, p) = Len(f) \/ f[PieceEnd(f, p)].is = "NEWLINE"
            /\ \A x \in Labels(Trimmed(Piece(f, p))) : FitsBuffer(x)

LabelSymbols == {k \in DOMAIN symbol_table.symbols : symbol_table.symbols[k].type = "LABEL"}

\* The tool's labels are those of the assembler, if that has any.  They come
\* first in its table: literals follow in the second pass.
SameLabels ==
    LET symbols == symbol_table.symbols
    IN  LabelSymbols # {} =>
            labels = [k \in LabelSymbols |-> [label   |-> Written(Name(symbols[k].name)),
                                             address |-> 4 * symbols[k].address]]

\* In tidy texts whose lines and labels fit the tool's buffers, unless they are
\* too long to count their bytes in 32 bits, the labels that the tool gets by
\* counting lines are those that the assembler got by counting instructions,
\* four bytes for each.
LabelsAgree ==
    tool = "window" /\ found # NotFound /\ TidyText /\ LinesFit /\ 4 * Len(text) <= WordSpan => SameLabels

\* The rows are the words of the file from the start address on, as many as
\* were asked for and are there, under their addresses in the file, unless
\* the sum of start and count leaves 32 bits, or the file does.  The header is
\* one of them: an instruction is listed one word after its address in the
\* machine.
RowsAreWindow ==
    tool = "listed" /\ HasFilename /\ StartIndex + Count < WordSpan /\ 4 * Total <= WordSpan =>
        /\ Len(rows) = Set!Min({Count, Total - StartIndex})
        /\ \A k \in DOMAIN rows :
              /\ rows[k].address \div 4 = StartIndex + k - 1
              /\ rows[k].word = FileWord(rows[k].address \div 4)

\* The text of a row, read by the assembler, is one instruction of that word.
SpellsWord(txt, s, w) ==
    /\ s.what.kind = "instruction"
    /\ Token(txt, s.lexer).type = "EOF"
    /\ \A junk \in Junk : Encode(EmptySymbolTable, s.what.instruction, junk) = w

Reassembles(w) == SpellsWord(Shown(w), StatementAt(Shown(w), NewLexer), w)

\* The system calls that have a name in the assembler.  It takes another name
\* for a label, and the first letters of a label for a number, which can happen
\* to be the call's: "UNKNOWN_SYS" is 0xE55, and so is that call.
SpelledCall(n) ==
    \/ n \in Sequence!Range(SyscallNumber)
    \/ n = LeadingWord(Spelling[Stored[SyscallName(n)]]) % ImmSpan

\* The words that are nothing but what the disassembler shows of them.
Faithful(w) ==
    LET op == Opcode(w)
    IN  \/ op \in {Op.MOV, Op.LOAD, Op.STORE} /\ w = Pack(op, Reg1(w), 0, 0, Imm(w))
        \/ op = Op.SYS /\ w = Pack(op, Reg1(w), 0, 0, Imm(w)) /\ SpelledCall(Imm(w))
        \/ op = Op.JMP /\ w = Pack(op, 0, 0, 0, Imm(w))
        \/ op \in ArithmeticOps /\ w = Pack(op, Reg1(w), Reg2(w), Reg3(w), 0)
        \/ op = Op.CMP /\ w = Pack(op, Reg1(w), Reg2(w), 0, 0)
        \/ op \in {Op.INC, Op.DEC} /\ w = Pack(op, Reg1(w), 0, 0, 0)
        \/ op \in {Op.HALT, Op.NOP} /\ w = Pack(op, 0, 0, 0, 0)

\* A listing can be assembled again exactly where the disassembler knows what
\* the assembler writes and the machine executes.  It does not for
\* arithmetic and CMP with an immediate, JZ and JNZ, indirect and indexed
\* access, and the fourteen opcodes it has no name for.
ListingReassembles ==
    rows # <<>> => (Reassembles(Sequence!Last(rows).word) <=> Faithful(Sequence!Last(rows).word))

----------------------------------------------------------------------------
(* A claim of a comment that the code refutes.                             *)

\* "Check common source directories relative to binary location"
\* (disasm_tool.c:475): a source in one of them is found.
UsualDirectoriesSearched ==
    Searched # Absent /\ tool \in {"source", "window", "listing"} =>
        ((\E i \in Rounds : Append(Searched.dir, SourceDirs[i]) \in holders) => found # NotFound)
=============================================================================
