----------------------------- MODULE DezParser ------------------------------
(***************************************************************************)
(* The assembler from the text of a source: parser_parse of                *)
(* src/assembler/dez_parser.c over the lexer, statement by statement, and  *)
(* then the rest of assembler_assemble_string.  DezAssembler says what a   *)
(* statement does; this module says what text is which statement.          *)
(*                                                                         *)
(* A statement need not end with its line, and the test for a label looks  *)
(* at the text, not at tokens.                                             *)
(***************************************************************************)
EXTENDS DezAssembler, DezLexer

CONSTANTS
    Documents,      \* texts, with the lines each should be read as
    SyscallNumber   \* SyscallNumber[w]: the call named w, as an operand

ASSUME ParserAssumption ==
    \A d \in Documents : IsText(d.text) /\ IsSource(d.lines)

VARIABLES
    text,       \* the input
    lexer       \* parser->lexer

textVars == <<asmVars, text, lexer>>

----------------------------------------------------------------------------
(* Operands and instructions.  Each reader takes a lexer that has looked   *)
(* at a token, and gives what it read and the lexer it stopped at.         *)

Read(what, l) == [ok |-> TRUE, what |-> what, lexer |-> l]
Failure(l) == [ok |-> FALSE, what |-> [kind |-> "error"], lexer |-> l]

\* That token is taken, and the next one looked at.
TokenAfter(txt, l) == Scanned(txt, Skip(txt, l.position))

\* The word of a token compared with strcmp: a literal can spell it too.
Says(t, w) ==
    \/ t.type = "IDENTIFIER" /\ t.word = w
    \/ t.type = "STRING" /\ t.text = Spelling[w]

\* An identifier as an operand: a system call, or the name of a symbol.
Named(w) ==
    IF w \in DOMAIN SyscallNumber
      THEN [type |-> "IMMEDIATE", value |-> SyscallNumber[w]]
      ELSE [type |-> "LABEL", label |-> Stored[w]]

\* The operand that one token is.
OperandOf(t) ==
    CASE t.type = "REGISTER"   -> [type |-> "REGISTER", reg |-> RegisterNumber[t.word]]
      [] t.type = "STRING"     -> [type |-> "STRING", string |-> t.text]
      [] t.type = "NUMBER"     -> [type |-> "IMMEDIATE", value |-> t.value]
      [] t.type = "IDENTIFIER" -> Named(t.word)

\* The operand after "[": the token inside, and the one that should close it.
AddressOf(t) ==
    [type  |-> "MEMORY",
     value |-> IF t.type = "NUMBER" THEN t.value ELSE LeadingWord(Spelling[t.word])]

Closed(txt, t, close) ==
    IF close.token.type # "RBRACKET" THEN Failure(close)
    ELSE Read(AddressOf(t), TokenAfter(txt, close))

Bracketed(txt, l) ==
    IF l.token.type \notin {"NUMBER", "IDENTIFIER"} THEN Failure(l)
    ELSE Closed(txt, l.token, TokenAfter(txt, l))

\* An operand without a "#" in front of it.
Bare(txt, l) ==
    CASE l.token.type \in {"REGISTER", "STRING", "NUMBER", "IDENTIFIER"} ->
            Read(OperandOf(l.token), TokenAfter(txt, l))
      [] l.token.type = "LBRACKET" -> Bracketed(txt, TokenAfter(txt, l))
      [] OTHER -> Failure(l)

\* parser_parse_operand.  After "#" a bracket is accepted too.
AfterHash(txt, l) ==
    IF l.token.type \in {"NUMBER", "IDENTIFIER", "LBRACKET"} THEN Bare(txt, l) ELSE Failure(l)

OperandAt(txt, l) ==
    IF l.token.type = "HASH" THEN AfterHash(txt, TokenAfter(txt, l)) ELSE Bare(txt, l)

\* What was read, and an operand more.
With(args, operand) ==
    IF operand.ok THEN Read(Append(args, operand.what), operand.lexer) ELSE operand

FirstOperand(txt, l) == With(<<>>, OperandAt(txt, l))

\* One round more of the loop over the operands: a comma and an operand.
AnotherOperand(txt, read) ==
    CASE ~read.ok -> read
      [] read.ok /\ read.lexer.token.type # "COMMA" -> Failure(read.lexer)
      [] OTHER -> With(read.what, OperandAt(txt, TokenAfter(txt, read.lexer)))

\* n operands with commas between them; no format has more than three.
OperandsAt(txt, l, n) ==
    CASE n = 0 -> Read(<<>>, l)
      [] n = 1 -> FirstOperand(txt, l)
      [] n = 2 -> AnotherOperand(txt, FirstOperand(txt, l))
      [] n = 3 -> AnotherOperand(txt, AnotherOperand(txt, FirstOperand(txt, l)))

\* parser_parse_instruction
Instruction(op, args) ==
    IF ~args.ok THEN args
    ELSE [args EXCEPT !.what = [kind |-> "instruction", instruction |-> [op |-> op, args |-> @]]]

InstructionAt(txt, l) ==
    IF l.token.word \notin DOMAIN Op THEN Failure(l)
    ELSE LET op == Op[l.token.word]
         IN  Instruction(op, OperandsAt(txt, TokenAfter(txt, l), Len(Format(op))))

\* parser_parse_constant.  The caller has seen EQU by looking at the name
\* itself again: constants are named EQU.
ConstantValue(txt, name, l) ==
    IF l.token.type # "NUMBER" THEN Failure(l)
    ELSE Read([kind |-> "constant", name |-> name, value |-> l.token.value], TokenAfter(txt, l))

AfterName(txt, name, l) ==
    IF Says(l.token, "EQU") THEN ConstantValue(txt, name, TokenAfter(txt, l)) ELSE Failure(l)

AfterEQU(txt, name, l) ==
    IF l.token.type = "IDENTIFIER" THEN AfterName(txt, name, TokenAfter(txt, l)) ELSE Failure(l)

ConstantAt(txt, l) == AfterEQU(txt, l.token.word, TokenAfter(txt, l))

----------------------------------------------------------------------------
(* parser_parse_line_with_labels *)

\* Mutant: the test for a label does not stop at a comment.
RawEndInComment(txt, p) == EndOfLine(txt, p)

\* The rest of the line in the text, up to a comment.
RawEnd(txt, p) ==
    CHOOSE q \in p .. Len(txt) :
        /\ At(txt, q) \in {"NEWLINE", "semicolon", "end"}
        /\ \A k \in p .. q - 1 : At(txt, k) \notin {"NEWLINE", "semicolon"}

\* It ends with a colon, apart from spaces and tabs.
EndsWithColon(txt, p) ==
    \E k \in p + 1 .. RawEnd(txt, p) :
        /\ txt[k].is = "COLON"
        /\ \A j \in k + 1 .. RawEnd(txt, p) : txt[j].is = "space"

LineEnds(l) == l.token.type \in {"NEWLINE", "EOF"}

\* Tokens are dropped up to the end of the line.
SkipLine(txt, l) ==
    LET skipped[p \in 0 .. Len(txt)] ==
            LET next == Scanned(txt, Skip(txt, p))
            IN  IF LineEnds(next) THEN next ELSE skipped[next.position]
    IN  IF LineEnds(l) THEN l ELSE skipped[l.position]

\* The statement that starts with a token, and the lexer after it.
StatementFrom(txt, l) ==
    LET t == l.token
    IN  CASE t.type = "EOF" -> Read([kind |-> "end"], l)
          [] t.type = "NEWLINE" -> Read([kind |-> "newline"], Advance(txt, l))
          [] t.type = "IDENTIFIER" /\ EndsWithColon(txt, l.position) ->
                Read([kind |-> "label", name |-> t.word], SkipLine(txt, l))
          [] t.type = "IDENTIFIER" /\ ~EndsWithColon(txt, l.position) ->
                IF t.word = "EQU" THEN ConstantAt(txt, l) ELSE InstructionAt(txt, l)
          [] OTHER -> Read([kind |-> "other"], l)

StatementAt(txt, lx) == StatementFrom(txt, Peek(txt, lx))

----------------------------------------------------------------------------
(* parser_parse: what it does at the statement s, in either pass. *)

\* The lexer goes on after the statement.  line is a history variable: it
\* counts the statements, so that DezAssembler's lines can be compared.
NextStatement(s) ==
    /\ lexer' = s.lexer
    /\ line' = line + 1
    /\ UNCHANGED <<source, text>>

EmptyLine(s) ==
    /\ s.what.kind = "newline"
    /\ lexer' = s.lexer
    /\ UNCHANGED <<asmVars, text>>

LabelStatement(s)    == s.what.kind = "label" /\ Defines(s.what) /\ NextStatement(s)
ConstantStatement(s) == s.what.kind = "constant" /\ Defines(s.what) /\ NextStatement(s)

InstructionStatement(s) ==
    /\ s.what.kind = "instruction"
    /\ \/ Counts
       \/ Emits(s.what.instruction)
       \/ Overflows(s.what.instruction)
    /\ NextStatement(s)

ErrorStatement(s) == s.what.kind = "error" /\ Fails /\ NextStatement(s)

TextEnds(s) == s.what.kind \in {"end", "other"}

\* Mutant: the token looked at last stays.
RewoundKeepsToken(l) == [l EXCEPT !.position = 0]

\* lexer_init, a second time.
Rewound(l) == NewLexer

RewindText(s) ==
    /\ TextEnds(s)
    /\ StartsSecondPass
    /\ lexer' = Rewound(s.lexer)
    /\ line' = 0
    /\ UNCHANGED <<source, text>>

TextParsed(s) == TextEnds(s) /\ EndsSecondPass /\ UNCHANGED <<source, line, text, lexer>>

ParseStatement(s) ==
    /\ stage \in Passes
    /\ \/ EmptyLine(s) \/ LabelStatement(s) \/ ConstantStatement(s)
       \/ InstructionStatement(s) \/ ErrorStatement(s)
       \/ RewindText(s) \/ TextParsed(s)

AfterParse ==
    /\ CopyString \/ CopyAborts \/ StringsTooLong \/ OtherSymbol \/ StringsDone \/ WriteFile
    /\ UNCHANGED <<text, lexer>>

\* source is a history variable too: the lines of the document.
ParserInit ==
    /\ \E d \in Documents : text = d.text /\ source = d.lines
    /\ AssemblerInit
    /\ lexer = NewLexer

AssembleText == ParseStatement(StatementAt(text, lexer)) \/ AfterParse

ParserExited == stage \in Ended /\ UNCHANGED textVars

ParserNext == AssembleText \/ ParserExited

\* WF_textVars(AssembleText), with ENABLED written out: a step is possible
\* until the assembler has ended (TLC's check for deadlocks says so).
ParserFairness == []<>(stage \in Ended) \/ []<><<AssembleText>>_textVars

ParserSpec == ParserInit /\ [][ParserNext]_textVars /\ ParserFairness

----------------------------------------------------------------------------
(* Correctness. *)

ParserTypeOK ==
    /\ AssemblerTypeOK
    /\ IsText(text)
    /\ IsLexer(text, lexer)

\* Empty lines are passed over.
PastNewlines(txt, l) ==
    LET past[p \in 0 .. Len(txt)] ==
            LET next == Scanned(txt, Skip(txt, p))
            IN  IF next.token.type = "NEWLINE" THEN past[next.position] ELSE next
    IN  IF l.token.type = "NEWLINE" THEN past[l.position] ELSE l

StatementAfter(txt, lx) == StatementFrom(txt, PastNewlines(txt, Peek(txt, lx)))

\* The lexers after the statements, if there are n of them.
LexerAfter(txt, n) ==
    LET after[k \in 0 .. n] == IF k = 0 THEN NewLexer ELSE StatementAfter(txt, after[k - 1]).lexer
    IN  after

\* The statements of a text, up to one that the parser stops at, are lines.
ReadsAs(txt, lines) ==
    LET after == LexerAfter(txt, Len(lines))
    IN  \A k \in 0 .. Len(lines) :
            (\A j \in 1 .. k : lines[j].kind \notin {"error", "other"}) =>
                StatementAfter(txt, after[k]).what =
                    IF k < Len(lines) THEN lines[k + 1] ELSE [kind |-> "end"]

\* One statement after the other, the parser gets the lines of the document
\* out of the text: wherever a statement ends, in whatever layout.
StatementsAreLines == lexer = NewLexer => ReadsAs(text, source)

\* Reading text is reading its lines: in both passes the lexer cuts the text
\* into the same statements, and what happens from the text to the file is
\* what DezAssembler does with the lines.  It always comes to an end.
ImplementsLines == AssemblerSpec

\* Texts in which a line of text is a line of tokens: no carriage return,
\* and no literal, so that a colon or a semicolon is not part of one.
PlainText == \A p \in 1 .. Len(text) : text[p].is \notin {"cr", "quote"}

\* The tokens from a lexer to the end of the line.
RestOfLine(txt, l) ==
    LET rest[p \in 0 .. Len(txt)] ==
            LET next == Scanned(txt, Skip(txt, p))
            IN  IF LineEnds(next) THEN <<>> ELSE <<next.token.type>> \o rest[next.position]
    IN  IF LineEnds(l) THEN <<>> ELSE <<l.token.type>> \o rest[l.position]

\* In such texts the test of the raw text agrees with the tokens: a statement
\* that starts with an identifier is a label when the last token of its line
\* is a colon, however it is spaced, and whatever a comment contains.
LabelsByToken ==
    stage \in Passes /\ PlainText /\ Token(text, lexer).type = "IDENTIFIER" =>
        LET rest == RestOfLine(text, Peek(text, lexer))
        IN  (StatementAt(text, lexer).what.kind = "label") <=> (rest[Len(rest)] = "COLON")
=============================================================================
