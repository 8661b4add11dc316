----------------------------- MODULE MCListing ------------------------------
(***************************************************************************)
(* DezListing: the assembler on sources written out in several layouts,    *)
(* and on scraps of text, every sequence of up to three characters, alone  *)
(* or in the middle of a program; and disasm_tool on every file this makes *)
(* and on typed words, with windows of one file, places of one source, and *)
(* command lines.                                                          *)
(***************************************************************************)
EXTENDS DezListing

LOCAL INSTANCE SequencesExt

\* Words are 20 bits wide: 256 opcodes, 4 registers, 64 immediates; a byte is
\* 5 bits.
MCWordSpan == 1048576

MCRegisterNumber == [R0 |-> 0, R1 |-> 1, R2 |-> 2, R3 |-> 3]

MCRegisterName == [r \in 0 .. 3 |-> <<"R0", "R1", "R2", "R3">>[r + 1]]

MCSyscallNumber == [PRINT |-> 1, PRINT_STR |-> 2, PRINT_CHAR |-> 3, EXIT |-> 6]

MCNames ==
    {"loop", "end", "HALT", "MOV", "EQU", "__str_a", "__str_b",
     "READ", "READ_STR", "DEBUG", "UNKNOWN_SYS"}

MCSpelling ==
    [n \in MCNames |-> CASE n = "loop" -> <<12, 15, 15, 16>> [] n = "end" -> <<5, 14, 4>>
                          [] n = "HALT" -> <<8, 1, 12, 20>> [] n = "MOV" -> <<13, 15, 22>>
                          [] n = "EQU" -> <<5, 17, 21>> [] OTHER -> <<31, 31, 19, 20, 18>>]

\* The other words, shortened.
OtherWords ==
    [JMP |-> <<10, 13>>, ADD |-> <<1, 4>>, SYS |-> <<19, 25>>, STORE |-> <<19, 20>>, LOAD |-> <<12, 4>>,
     R0 |-> <<18, 1>>, R1 |-> <<18, 2>>, R2 |-> <<18, 3>>, R3 |-> <<18, 4>>, PRINT_STR |-> <<16, 18>>,
     main |-> <<13, 1>>, loop_start |-> <<12, 19>>, loop_end |-> <<12, 5>>, ARRAY_SIZE |-> <<1, 19>>,
     msg_hello |-> <<13, 8>>]

MCWritten(c) ==
    CASE c.is = "word" /\ c.word \in MCNames -> MCSpelling[c.word]
      [] c.is = "word" /\ c.word \notin MCNames -> OtherWords[c.word]
      [] c.is = "number" -> <<27>>
      [] c.is = "space" -> <<28>>
      [] c.is = "COLON" -> <<29>>
      [] OTHER -> <<30>>

MCStored == [n \in MCNames |-> n]

MCHash == [n \in MCNames |-> IF n \in {"loop", "end", "__str_a"} THEN 0 ELSE 1]

\* Literals of an even and of an odd length.
MCStringName == [t \in Seq(Byte) |-> IF Len(t) % 2 = 0 THEN "__str_a" ELSE "__str_b"]

----------------------------------------------------------------------------
(* Sources written out. *)

R(n)      == [type |-> "REGISTER", reg |-> n]
I(n)      == [type |-> "IMMEDIATE", value |-> n]
M(n)      == [type |-> "MEMORY", value |-> n]
L(n)      == [type |-> "LABEL", label |-> n]
S(chars)  == [type |-> "STRING", string |-> FlattenSeq([k \in 1 .. Len(chars) |-> MCWritten(chars[k])])]
Code(op, args) == [kind |-> "instruction", instruction |-> [op |-> Op[op], args |-> args]]

\* A line, and its tokens; literals contain what ends a line elsewhere.
Literal == <<Name("end"), Char("semicolon"), Char("NEWLINE"), Char("COLON"), Char("space")>>

Line(l, tokens) == [line |-> l, tokens |-> tokens]
RegWord(n) == Name(CASE n = 0 -> "R0" [] n = 1 -> "R1" [] n = 2 -> "R2" [] n = 3 -> "R3")

Lines ==
    { Line([kind |-> "label", name |-> "loop"], <<Name("loop"), Char("COLON")>>),
      Line([kind |-> "label", name |-> "end"], <<Name("end"), Char("COLON")>>),
      Line([kind |-> "label", name |-> "HALT"], <<Name("HALT"), Name("loop"), Char("COLON")>>),
      Line([kind |-> "constant", name |-> "EQU", value |-> 9],
           <<Name("EQU"), Name("loop"), Name("EQU"), Numeral(9)>>),
      Line(Code("HALT", <<>>), <<Name("HALT")>>),
      Line(Code("JMP", <<L("loop")>>), <<Name("JMP"), Name("loop")>>),
      Line(Code("MOV", <<R(1), L("EQU")>>), <<Name("MOV"), RegWord(1), Comma, Char("HASH"), Name("EQU")>>),
      Line(Code("MOV", <<R(2), S(Literal)>>),
           <<Name("MOV"), RegWord(2), Comma, Char("quote")>> \o Literal \o <<Char("quote")>>),
      Line(Code("ADD", <<R(1), R(2), I(7)>>),
           <<Name("ADD"), RegWord(1), Comma, RegWord(2), Comma, Char("HASH"), Numeral(7)>>),
      Line(Code("SYS", <<R(0), I(2)>>), <<Name("SYS"), RegWord(0), Comma, Name("PRINT_STR")>>),
      Line(Code("STORE", <<R(3), M(17)>>),
           <<Name("STORE"), RegWord(3), Comma, Char("LBRACKET"), Numeral(17), Char("RBRACKET")>>),
      Line(Code("LOAD", <<R(1), M(4549)>>),
           <<Name("LOAD"), RegWord(1), Comma, Char("HASH"), Char("LBRACKET"), Name("end"), Char("RBRACKET")>>),
      Line([kind |-> "error"], <<Name("MOV"), RegWord(1), RegWord(2)>>),
      Line([kind |-> "other"], <<RegWord(1), Comma>>) }

Spaces == <<Char("space")>>
Remark == <<Char("space"), Char("semicolon"), Name("end"), Char("COLON"), Char("quote")>>

Heading == <<Char("semicolon"), Name("end"), Char("COLON"), Char("NEWLINE"), Char("space")>>

Tight == [before |-> <<>>, between |-> <<>>, after |-> <<>>]

\* Layouts: what stands before a line, between its tokens (but always a space
\* between words, and nothing added inside a literal), and after it.
Layouts ==
    { Tight,
      [before |-> Heading, between |-> Spaces, after |-> <<Char("space"), Char("semicolon")>>],
      [before |-> Spaces, between |-> Spaces, after |-> Remark \o <<Char("NEWLINE")>> \o Remark],
      [before |-> <<Char("NEWLINE"), Char("cr")>>, between |-> <<Char("cr")>>, after |-> Spaces] }

InLiteral(tokens, k) ==
    \E q \in 1 .. k : /\ tokens[q].is = "quote"
                      /\ \A j \in 1 .. q - 1 : tokens[j].is # "quote"

WriteLine(l, y) ==
    LET gap(k) == IF InLiteral(l.tokens, k) \/ k = Len(l.tokens) THEN <<>>
                  ELSE IF y.between # <<>> THEN y.between
                  ELSE IF Wordy(l.tokens[k]) /\ Wordy(l.tokens[k + 1]) THEN Spaces ELSE <<>>
    IN  y.before
        \o FlattenSeq([k \in 1 .. Len(l.tokens) |-> <<l.tokens[k]>> \o gap(k)])
        \o y.after

\* Up to the line the parser stops at.
Readable(ls) ==
    LET stops == {k \in 1 .. Len(ls) : ls[k].line.kind \in {"error", "other"}}
        end   == {k \in 1 .. Len(ls) : \A j \in stops : k <= j}
    IN  [k \in end |-> ls[k].line]

WrittenOut(ls, y) ==
    [text  |-> FlattenSeq([k \in 1 .. Len(ls) |->
                   (IF k = 1 THEN <<>> ELSE <<Char("NEWLINE")>>) \o WriteLine(ls[k], y)]),
     lines |-> Readable(ls)]

WrittenDocuments ==
    { WrittenOut(ls, y) : ls \in UNION {[1 .. n -> Lines] : n \in 1 .. 2}, y \in Layouts }
    \union { WrittenOut(ls, Tight) : ls \in [1 .. 3 -> Lines] }

----------------------------------------------------------------------------
(* Scraps, with the lines a lexer that starts anew finds in them. *)

RECURSIVE LinesFrom(_, _)
LinesFrom(txt, s) ==
    CASE s.what.kind = "end" -> <<>>
      [] s.what.kind = "newline" -> LinesFrom(txt, StatementAt(txt, s.lexer))
      [] s.what.kind \in {"error", "other"} -> <<s.what>>
      [] OTHER -> <<s.what>> \o LinesFrom(txt, StatementAt(txt, s.lexer))

LinesOf(txt) == LinesFrom(txt, StatementAt(txt, NewLexer))

Characters ==
    {Char(k) : k \in Single \union {"space", "cr", "semicolon", "quote"}}
    \union {Name("HALT"), Name("loop"), Name("EQU"), Name("R1"), Numeral(5)}

Scraps(n) == UNION {[1 .. k -> Characters] : k \in 1 .. n}

Openings ==
    { <<Name("MOV"), Char("space"), Name("R1"), Char("COMMA")>>,
      <<Name("loop"), Char("space")>>,
      <<Name("MOV"), Char("space"), Name("R1"), Char("COMMA"), Char("quote"), Name("end"), Char("COLON")>> }

Endings == { <<>>, <<Char("NEWLINE"), Name("HALT")>> }

ScrapTexts ==
    { t \in Scraps(3) \union {o \o s \o e : o \in Openings, s \in Scraps(2), e \in Endings} : IsText(t) }

ScrapDocuments == { [text |-> t, lines |-> LinesOf(t)] : t \in ScrapTexts }

----------------------------------------------------------------------------
(* Invocations of the tool. *)

\* Arguments.  strtoul finds hexadecimal digits in some options and names too;
\* the numbers are used in the base they are written in.
Dash(o) ==
    [text |-> o, dash |-> TRUE, prefix |-> FALSE, binary |-> FALSE, dir |-> <<o>>, decimal |-> 0,
     hex |-> CASE o = "-f" -> MCWordSpan - 15 [] o = "-c" -> MCWordSpan - 12
               [] o = "-a" -> MCWordSpan - 10 [] OTHER -> 0]

Plain(spelled, hex, dir) ==
    [text |-> spelled, dash |-> FALSE, prefix |-> FALSE, binary |-> FALSE, dir |-> dir, decimal |-> 0, hex |-> hex]

HexDigits(dir) ==
    CASE dir = <<>> -> 0 [] dir # <<>> /\ Head(dir) \in {"bin", "build"} -> 11
      [] dir # <<>> /\ Head(dir) = "a" -> 10 [] OTHER -> 0

Binary(dir) == [Plain("program.bin", HexDigits(dir), dir) EXCEPT !.binary = TRUE]
Dir(dir)    == Plain("directory", HexDigits(dir), dir)
Typed(w)    == [Plain("0x", w, <<>>) EXCEPT !.prefix = TRUE]
Figure(n)  == [Plain("number", n, <<>>) EXCEPT !.decimal = n]

Invocation(args) == [argv |-> args, holders |-> { <<>> }]

OnFile == Invocation(<<Dash("-S"), Binary(<<>>)>>)

\* Starts and counts inside, at and past the end of a file of four words, and
\* counts that make the sum wrap around.
WindowText ==
    <<Name("loop"), Char("COLON"), Char("NEWLINE"), Name("JMP"), Char("space"), Name("loop"),
      Char("NEWLINE"), Name("MOV"), Char("space"), Name("R2"), Char("COMMA"), Char("quote"),
      Name("end"), Char("quote")>>

Windows ==
    { Invocation(<<Dash("-S"), Dash("-s"), Figure(s), Dash("-c"), Figure(n), Binary(<<>>)>>) :
        s \in {0, 1, 4, 6, 8, 12, 16, 20, 24, 40}, n \in {0, 1, 2, 5, MCWordSpan - 2, MCWordSpan - 1} }

\* Places of the binary and of its source.
SearchText == <<Name("loop"), Char("COLON"), Char("NEWLINE"), Name("HALT")>>

Dirs == { <<>>, <<"bin">>, <<"build", "bin">>, <<"a", "build", "bin">> }

Places(dir) ==
    { dir, <<>>, <<"src">>, <<"asm">>, <<"tests/asm">>, <<"old">>, <<"old", "new">> }
    \union { SubSeq(dir, 1, n) \o <<sub>> : n \in 0 .. Len(dir), sub \in {"src", "source", "asm", "samples"} }

Customs ==
    { <<>>, <<Dash("--search-dir"), Dir(<<"old">>)>>,
      <<Dash("--search-dir"), Dir(<<"old", "new">>), Dash("--search-dir"), Dir(<<"old">>)>> }

Searches ==
    UNION { { [argv |-> c \o <<Dash("-S"), Binary(d)>>, holders |-> {p, q}] :
                c \in Customs, p \in Places(d), q \in Places(d) } : d \in Dirs }
    \union { [OnFile EXCEPT !.holders = {}] }
    \union { [argv |-> <<Dash("--symbol-file"), Binary(d)>> \o f, holders |-> {p}] :
                d \in Dirs, p \in Places(<<"bin">>), f \in {<<Binary(<<>>)>>, <<Typed(16), Typed(17)>>} }

\* Words of every opcode, and of two that are none.
WordsText == <<Name("HALT")>>

TypedWords ==
    { Pack(op, f[1], f[2], f[3], f[4]) :
        op \in 0 .. 35,
        f \in { <<0, 0, 0, 0>>, <<1, 0, 0, 0>>, <<0, 1, 0, 0>>, <<2, 1, 3, 0>>,
                <<0, 0, 0, 1>>, <<1, 0, 0, 6>>, <<0, 0, 0, 37>>, <<3, 2, 0, 40>>,
                <<1, 0, 0, 63>> } }

\* Every command line of up to two arguments; with three and four arguments,
\* those of an option with its value and what follows.
ArgumentsText == <<Name("end"), Char("COLON"), Char("NEWLINE"), Name("HALT")>>

MCArguments ==
    { Dash(o) : o \in {"-h", "-S", "-a"} \union Valued }
    \union { Plain("simple", 0, <<>>), Figure(5), Typed(16), Binary(<<>>) }

CommandLines ==
    UNION {[1 .. n -> MCArguments] : n \in 0 .. 2}
    \union { <<Dash(o), v, w>> : o \in Valued, v \in MCArguments, w \in MCArguments }
    \union { <<Typed(16), Dash(o), v, w>> : o \in Valued, v \in MCArguments, w \in MCArguments }
    \union { <<Dash("--search-dir"), Dir(<<"src">>), Dash("--search-dir"), Dir(<<"old">>),
               Dash("--search-dir"), Dir(<<"bin">>), Binary(<<>>)>> }

MCInvocations(txt) ==
    CASE txt = WindowText    -> Windows
      [] txt = SearchText    -> Searches
      [] txt = WordsText     -> { Invocation(<<Dash("-S"), Typed(w), Typed(0)>>) : w \in TypedWords }
      [] txt = ArgumentsText -> { Invocation(c) : c \in CommandLines }
      [] OTHER -> {OnFile}

----------------------------------------------------------------------------
MCDocuments ==
    WrittenDocuments \union ScrapDocuments
    \union { [text |-> t, lines |-> LinesOf(t)] : t \in {WindowText, SearchText, WordsText, ArgumentsText} }

MCSources == {d.lines : d \in MCDocuments}
=============================================================================
