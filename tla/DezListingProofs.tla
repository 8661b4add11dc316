------------------------- MODULE DezListingProofs --------------------------
(***************************************************************************)
(* Proofs about the text of a source and about disasm_tool, for every      *)
(* text, every file and every command line: the assembler does with the    *)
(* text what DezAssembler does with its lines, and the tool's own readings *)
(* of arguments, directories and words are the ones meant.                 *)
(***************************************************************************)
EXTENDS DezListing, DezAssemblerProofs, SequenceTheorems

----------------------------------------------------------------------------
(* The lexer.  Every position it looks for is there. *)

\* A lexer that has looked at a token.
Looked(txt) == {Scanned(txt, p) : p \in 0 .. Len(txt)}

\* The first place from p on that is in S.
LEMMA FirstFrom ==
    ASSUME NEW n \in Nat, NEW p \in 0 .. n, NEW S, n \in S
    PROVE  \E q \in p .. n : q \in S /\ \A k \in p .. q - 1 : k \notin S
<1>. DEFINE T == {q \in p .. n : q \in S}
<1>1. n \in p .. n
  OBVIOUS
<1>2. T \in SUBSET Nat /\ T # {}
  BY <1>1
<1>3. PICK q \in T : \A r \in T : q <= r
  BY <1>2, LeastElement
<1>4. q \in p .. n /\ q \in S
  BY <1>3
<1>5. ASSUME NEW k \in p .. q - 1, k \in S PROVE FALSE
  <2>1. k \in p .. n /\ k < q
    BY <1>4, <1>5
  <2>. QED
    BY <1>3, <1>4, <1>5, <2>1
<1>. QED
  BY <1>4, <1>5

\* Where the text ends there is no character.
LEMMA TextEnd ==
    ASSUME NEW txt, IsText(txt), NEW p \in 0 .. Len(txt)
    PROVE  /\ Len(txt) \in Nat /\ At(txt, Len(txt)) = "end"
           /\ p # Len(txt) => p < Len(txt) /\ p + 1 \in 1 .. Len(txt) /\ p + 1 \in 0 .. Len(txt)
           /\ p # Len(txt) => At(txt, p) = txt[p + 1].is /\ At(txt, p) \in Kinds /\ At(txt, p) # "end"
<1>1. Len(txt) \in Nat
  BY DEF IsText
<1>2. p # Len(txt) => p + 1 \in 1 .. Len(txt) /\ p < Len(txt) /\ p + 1 \in 0 .. Len(txt)
  BY <1>1
<1>3. At(txt, Len(txt)) = "end"
  BY <1>1 DEF At
<1>4. p # Len(txt) => At(txt, p) = txt[p + 1].is /\ At(txt, p) \in Kinds
  BY <1>2 DEF At, IsText
<1>5. "end" \notin Kinds
  BY DEF Kinds, Single
<1>. QED
  BY <1>1, <1>2, <1>3, <1>4, <1>5

LEMMA EndOfLineFound ==
    ASSUME NEW txt, IsText(txt), NEW p \in 0 .. Len(txt)
    PROVE  /\ EndOfLine(txt, p) \in p .. Len(txt)
           /\ At(txt, EndOfLine(txt, p)) \in {"NEWLINE", "end"}
           /\ \A k \in p .. EndOfLine(txt, p) - 1 : At(txt, k) # "NEWLINE"
<1>. DEFINE S == {q \in 0 .. Len(txt) : At(txt, q) \in {"NEWLINE", "end"}}
<1>1. Len(txt) \in S /\ Len(txt) \in Nat
  BY TextEnd
<1>2. PICK q \in p .. Len(txt) : q \in S /\ \A k \in p .. q - 1 : k \notin S
  <2>. HIDE DEF S
  <2>. QED
    BY <1>1, FirstFrom
<1>3. \A k \in p .. q - 1 : k \in 0 .. Len(txt)
  BY <1>1
<1>4. At(txt, q) \in {"NEWLINE", "end"} /\ \A k \in p .. q - 1 : At(txt, k) # "NEWLINE"
  BY <1>2, <1>3
<1>. QED
  BY <1>4 DEF EndOfLine

LEMMA AfterBlanksFound ==
    ASSUME NEW txt, IsText(txt), NEW p \in 0 .. Len(txt)
    PROVE  /\ AfterBlanks(txt, p) \in p .. Len(txt)
           /\ At(txt, AfterBlanks(txt, p)) \notin {"space", "cr"}
           /\ \A k \in p .. AfterBlanks(txt, p) - 1 : At(txt, k) \in {"space", "cr"}
<1>. DEFINE S == {q \in 0 .. Len(txt) : At(txt, q) \notin {"space", "cr"}}
<1>1. Len(txt) \in S /\ Len(txt) \in Nat
  BY TextEnd
<1>2. PICK q \in p .. Len(txt) : q \in S /\ \A k \in p .. q - 1 : k \notin S
  <2>. HIDE DEF S
  <2>. QED
    BY <1>1, FirstFrom
<1>3. \A k \in p .. q - 1 : k \in 0 .. Len(txt)
  BY <1>1
<1>4. At(txt, q) \notin {"space", "cr"} /\ \A k \in p .. q - 1 : At(txt, k) \in {"space", "cr"}
  BY <1>2, <1>3
<1>. QED
  BY <1>4 DEF AfterBlanks

LEMMA SkipFound ==
    ASSUME NEW txt, IsText(txt), NEW p \in 0 .. Len(txt)
    PROVE  /\ Skip(txt, p) \in p .. Len(txt)
           /\ At(txt, Skip(txt, p)) \notin {"space", "cr", "semicolon"}
<1>. DEFINE q == AfterBlanks(txt, p)
            e == EndOfLine(txt, q)
<1>1. Len(txt) \in Nat
  BY DEF IsText
<1>2. q \in p .. Len(txt) /\ q \in 0 .. Len(txt) /\ At(txt, q) \notin {"space", "cr"}
  BY <1>1, AfterBlanksFound
<1>. HIDE DEF q
<1>3. e \in q .. Len(txt) /\ At(txt, e) \in {"NEWLINE", "end"}
  BY <1>2, EndOfLineFound
<1>4. Skip(txt, p) = IF At(txt, q) = "semicolon" THEN e ELSE q
  BY DEF Skip, q
<1>. HIDE DEF e
<1>. QED
  BY <1>1, <1>2, <1>3, <1>4

LEMMA EndOfLiteralFound ==
    ASSUME NEW txt, IsText(txt), NEW p \in 0 .. Len(txt)
    PROVE  /\ EndOfLiteral(txt, p) \in p .. Len(txt)
           /\ \A k \in p .. EndOfLiteral(txt, p) - 1 : At(txt, k) # "quote"
           /\ EndOfLiteral(txt, p) <= p + LiteralLimit
<1>. DEFINE S == {q \in 0 .. Len(txt) : At(txt, q) \in {"quote", "end"} \/ q = p + LiteralLimit}
<1>1. Len(txt) \in S /\ Len(txt) \in Nat /\ LiteralLimit \in Nat
  BY TextEnd, LexerAssumption
<1>2. PICK q \in p .. Len(txt) : q \in S /\ \A k \in p .. q - 1 : k \notin S
  <2>. HIDE DEF S
  <2>. QED
    BY <1>1, FirstFrom
<1>3. \A k \in p .. q - 1 : k \in 0 .. Len(txt)
  BY <1>1
<1>4. /\ At(txt, q) \in {"quote", "end"} \/ q = p + LiteralLimit
      /\ \A k \in p .. q - 1 : At(txt, k) # "quote"
  BY <1>2, <1>3
<1>5. q <= p + LiteralLimit
  <2>1. ASSUME ~(q <= p + LiteralLimit) PROVE FALSE
    <3>1. p + LiteralLimit \in p .. q - 1
      BY <1>1, <2>1
    <3>. QED
      BY <1>2, <1>3, <3>1
  <2>. QED
    BY <2>1
<1>. QED
  BY <1>4, <1>5 DEF EndOfLiteral

\* Every scan comes to a place in the text, and, but at its end, further on.
LEMMA ScannedOn ==
    ASSUME NEW txt, IsText(txt), NEW p \in 0 .. Len(txt)
    PROVE  /\ Scanned(txt, p).position \in p .. Len(txt)
           /\ Scanned(txt, p).token.type # "NONE"
           /\ (Scanned(txt, p).token.type = "EOF") <=> p = Len(txt)
           /\ p # Len(txt) => Scanned(txt, p).position > p
<1>1. Len(txt) \in Nat
  BY DEF IsText
<1>2. CASE p = Len(txt)
  <2>1. Scanned(txt, p) = [token |-> [type |-> "EOF"], position |-> p]
    BY <1>2, TextEnd DEF Scanned
  <2>. QED
    BY <1>1, <1>2, <2>1
<1>3. CASE p # Len(txt) /\ At(txt, p) = "quote"
  <2>. DEFINE q == EndOfLiteral(txt, p + 1)
  <2>1. p + 1 \in 0 .. Len(txt)
    BY <1>1, <1>3
  <2>2. q \in p + 1 .. Len(txt)
    BY <2>1, EndOfLiteralFound
  <2>. HIDE DEF q
  <2>3. At(txt, q) = "quote" => q + 1 \in p + 1 .. Len(txt)
    <3>1. At(txt, q) = "quote" => q # Len(txt)
      BY TextEnd, <1>1
    <3>. QED
      BY <1>1, <2>2, <3>1
  <2>4. Scanned(txt, p) = LiteralToken(txt, p + 1, q)
    BY <1>3 DEF Scanned, q
  <2>5. /\ At(txt, q) = "quote" => /\ Scanned(txt, p).position = q + 1
                                   /\ Scanned(txt, p).token.type = "STRING"
        /\ At(txt, q) # "quote" => /\ Scanned(txt, p).position = q
                                   /\ Scanned(txt, p).token.type = "UNKNOWN"
    BY <2>4 DEF LiteralToken
  <2>. QED
    BY <1>1, <1>3, <2>2, <2>3, <2>5
<1>4. CASE p # Len(txt) /\ At(txt, p) # "quote"
  <2>1. p + 1 \in p .. Len(txt) /\ p + 1 > p /\ At(txt, p) \in Kinds /\ At(txt, p) # "end"
    BY <1>1, <1>4, TextEnd
  <2>2. /\ Scanned(txt, p).position = p + 1
        /\ Scanned(txt, p).token.type \in Kinds \union {"NUMBER", "REGISTER", "IDENTIFIER"}
    BY <1>4, <2>1 DEF Scanned
  <2>. QED
    BY <1>4, <2>1, <2>2 DEF Kinds, Single
<1>. QED
  BY <1>2, <1>3, <1>4

\* What the lexer looks at next.
LEMMA LookedAt ==
    ASSUME NEW txt, IsText(txt), NEW p \in 0 .. Len(txt)
    PROVE  /\ Scanned(txt, Skip(txt, p)) \in Looked(txt)
           /\ Scanned(txt, Skip(txt, p)).position \in p .. Len(txt)
           /\ Scanned(txt, Skip(txt, p)).token.type # "EOF" => Scanned(txt, Skip(txt, p)).position > p
<1>. DEFINE q == Skip(txt, p)
<1>1. Len(txt) \in Nat
  BY DEF IsText
<1>2. q \in p .. Len(txt) /\ q \in 0 .. Len(txt)
  BY <1>1, SkipFound
<1>. HIDE DEF q
<1>3. /\ Scanned(txt, q).position \in q .. Len(txt)
      /\ (Scanned(txt, q).token.type = "EOF") <=> q = Len(txt)
      /\ q # Len(txt) => Scanned(txt, q).position > q
  BY <1>2, ScannedOn
<1>4. Scanned(txt, q) \in Looked(txt)
  BY <1>2 DEF Looked
<1>. QED
  BY <1>1, <1>2, <1>3, <1>4 DEF q

\* Lexers that have looked are lexers, and need not look again.
LEMMA LookedFacts ==
    ASSUME NEW txt, IsText(txt), NEW l \in Looked(txt)
    PROVE  /\ l.position \in 0 .. Len(txt) /\ l.token # NoToken /\ IsLexer(txt, l)
           /\ Peek(txt, l) = l /\ IsLexer(txt, Advance(txt, l))
           /\ TokenAfter(txt, l) \in Looked(txt)
<1>1. PICK p \in 0 .. Len(txt) : l = Scanned(txt, p)
  BY DEF Looked
<1>2. l.position \in 0 .. Len(txt) /\ l.token.type # "NONE"
  <2>1. Len(txt) \in Nat
    BY DEF IsText
  <2>2. l.position \in p .. Len(txt)
    BY <1>1, ScannedOn
  <2>. QED
    BY <1>1, <2>1, <2>2, ScannedOn
<1>3. l.token # NoToken
  BY <1>2 DEF NoToken
<1>4. Peek(txt, l) = l
  BY <1>3 DEF Peek
<1>5. Advance(txt, l) = [position |-> l.position, token |-> NoToken]
  BY <1>4 DEF Advance
<1>6. TokenAfter(txt, l) \in Looked(txt)
  BY <1>2, LookedAt DEF TokenAfter
<1>. QED
  BY <1>1, <1>2, <1>3, <1>4, <1>5, <1>6 DEF IsLexer

LEMMA PeekLooks ==
    ASSUME NEW txt, IsText(txt), NEW lx, IsLexer(txt, lx)
    PROVE  Peek(txt, lx) \in Looked(txt)
<1>1. CASE lx.token = NoToken
  BY <1>1, LookedAt DEF IsLexer, Peek
<1>2. CASE lx.token # NoToken
  BY <1>2 DEF IsLexer, Peek, Looked
<1>. QED
  BY <1>1, <1>2

----------------------------------------------------------------------------
(* The parser's readers stop at a lexer that has looked at a token, and    *)
(* what could not be read is an error.                                     *)

Keeps(txt, r) == r.lexer \in Looked(txt) /\ (r.ok = TRUE \/ r = Failure(r.lexer))

LEMMA ReadKeeps ==
    ASSUME NEW txt, NEW what, NEW l \in Looked(txt)
    PROVE  /\ Keeps(txt, Read(what, l)) /\ Read(what, l).lexer = l /\ Read(what, l).what = what
           /\ Keeps(txt, Failure(l)) /\ Failure(l).lexer = l /\ ~Failure(l).ok
           /\ Read(what, l).ok = TRUE /\ Failure(l).what.kind = "error"
  BY DEF Keeps, Read, Failure

LEMMA BareKeeps ==
    ASSUME NEW txt, IsText(txt), NEW l \in Looked(txt)
    PROVE  Keeps(txt, Bare(txt, l))
<1>. DEFINE a == TokenAfter(txt, l)
            b == TokenAfter(txt, a)
            c == TokenAfter(txt, b)
<1>1. a \in Looked(txt) /\ b \in Looked(txt) /\ c \in Looked(txt)
  BY LookedFacts
<1>. HIDE DEF a, b, c
<1>2. \/ Closed(txt, a.token, b) = Failure(b)
      \/ Closed(txt, a.token, b) = Read(AddressOf(a.token), c)
  BY DEF Closed, c
<1>3. \/ Bracketed(txt, a) = Failure(a)
      \/ Bracketed(txt, a) = Closed(txt, a.token, b)
  BY DEF Bracketed, b
<1>4. \/ Bare(txt, l) = Read(OperandOf(l.token), a)
      \/ Bare(txt, l) = Bracketed(txt, a)
      \/ Bare(txt, l) = Failure(l)
  BY DEF Bare, a
<1>5. /\ Keeps(txt, Failure(a)) /\ Keeps(txt, Failure(b)) /\ Keeps(txt, Failure(l))
      /\ Keeps(txt, Read(AddressOf(a.token), c)) /\ Keeps(txt, Read(OperandOf(l.token), a))
  BY <1>1, ReadKeeps
<1>. QED
  BY <1>2, <1>3, <1>4, <1>5

LEMMA OperandKeeps ==
    ASSUME NEW txt, IsText(txt), NEW l \in Looked(txt)
    PROVE  Keeps(txt, OperandAt(txt, l))
<1>. DEFINE a == TokenAfter(txt, l)
<1>1. a \in Looked(txt)
  BY LookedFacts
<1>2. Keeps(txt, Bare(txt, a)) /\ Keeps(txt, Bare(txt, l)) /\ Keeps(txt, Failure(a))
  BY <1>1, BareKeeps, ReadKeeps
<1>. HIDE DEF a
<1>3. AfterHash(txt, a) \in {Bare(txt, a), Failure(a)}
  BY DEF AfterHash
<1>4. OperandAt(txt, l) \in {AfterHash(txt, a), Bare(txt, l)}
  BY DEF OperandAt, a
<1>. QED
  BY <1>2, <1>3, <1>4

LEMMA WithKeeps ==
    ASSUME NEW txt, IsText(txt), NEW l \in Looked(txt), NEW args
    PROVE  Keeps(txt, With(args, OperandAt(txt, l)))
<1>. DEFINE o == OperandAt(txt, l)
<1>1. Keeps(txt, o)
  BY OperandKeeps
<1>. HIDE DEF o
<1>2. With(args, o) \in {Read(Append(args, o.what), o.lexer), o}
  BY DEF With
<1>3. Keeps(txt, Read(Append(args, o.what), o.lexer))
  BY <1>1, ReadKeeps DEF Keeps
<1>4. Keeps(txt, With(args, o))
  BY <1>1, <1>2, <1>3
<1>. QED
  BY <1>4 DEF o

LEMMA AnotherKeeps ==
    ASSUME NEW txt, IsText(txt), NEW read, Keeps(txt, read)
    PROVE  Keeps(txt, AnotherOperand(txt, read))
<1>1. read.lexer \in Looked(txt)
  BY DEF Keeps
<1>2. Keeps(txt, With(read.what, OperandAt(txt, TokenAfter(txt, read.lexer))))
  BY <1>1, LookedFacts, WithKeeps
<1>3. Keeps(txt, Failure(read.lexer))
  BY <1>1, ReadKeeps
<1>4. AnotherOperand(txt, read) \in
        {read, Failure(read.lexer), With(read.what, OperandAt(txt, TokenAfter(txt, read.lexer)))}
  BY DEF AnotherOperand
<1>. QED
  BY <1>2, <1>3, <1>4

LEMMA OperandsKeep ==
    ASSUME NEW txt, IsText(txt), NEW l \in Looked(txt), NEW n \in 0 .. 3
    PROVE  Keeps(txt, OperandsAt(txt, l, n))
<1>. DEFINE a == FirstOperand(txt, l)
            b == AnotherOperand(txt, a)
            c == AnotherOperand(txt, b)
<1>1. Keeps(txt, a)
  BY WithKeeps DEF FirstOperand
<1>. HIDE DEF a
<1>2. Keeps(txt, b)
  BY <1>1, AnotherKeeps
<1>. HIDE DEF b
<1>3. Keeps(txt, c)
  BY <1>2, AnotherKeeps
<1>. HIDE DEF c
<1>4. /\ n = 0 => OperandsAt(txt, l, n) = Read(<<>>, l)
      /\ n = 1 => OperandsAt(txt, l, n) = a
      /\ n = 2 => OperandsAt(txt, l, n) = b
      /\ n = 3 => OperandsAt(txt, l, n) = c
  BY DEF OperandsAt, a, b, c
<1>5. Keeps(txt, Read(<<>>, l))
  BY ReadKeeps
<1>6. n = 0 \/ n = 1 \/ n = 2 \/ n = 3
  OBVIOUS
<1>. QED
  BY <1>1, <1>2, <1>3, <1>4, <1>5, <1>6

\* No instruction has more than three operands.
LEMMA FormatLength == ASSUME NEW op \in Opcodes PROVE Len(Format(op)) \in 0 .. 3
  BY FormatTypes

LEMMA InstructionKeeps ==
    ASSUME NEW txt, IsText(txt), NEW l \in Looked(txt)
    PROVE  /\ InstructionAt(txt, l).lexer \in Looked(txt)
           /\ InstructionAt(txt, l).what.kind \in {"instruction", "error"}
<1>1. CASE l.token.word \notin DOMAIN Op
  <2>1. InstructionAt(txt, l) = Failure(l)
    BY <1>1 DEF InstructionAt
  <2>2. Failure(l).lexer = l /\ Failure(l).what.kind = "error"
    BY DEF Failure
  <2>. QED
    BY <2>1, <2>2
<1>2. CASE l.token.word \in DOMAIN Op
  <2>. DEFINE op   == Op[l.token.word]
              args == OperandsAt(txt, TokenAfter(txt, l), Len(Format(op)))
  <2>1. op \in Opcodes
    BY <1>2 DEF Opcodes
  <2>2. Keeps(txt, args)
    BY <2>1, FormatLength, OperandsKeep, LookedFacts
  <2>3. InstructionAt(txt, l) = Instruction(op, args)
    BY <1>2 DEF InstructionAt
  <2>. HIDE DEF args
  <2>4. CASE ~args.ok
    BY <2>2, <2>3, <2>4 DEF Instruction, Keeps, Failure
  <2>5. CASE args.ok
    <3>1. args.ok = TRUE => args.what = args.what
      OBVIOUS
    <3>2. Instruction(op, args) =
            [args EXCEPT !.what = [kind |-> "instruction", instruction |-> [op |-> op, args |-> args.what]]]
      BY <2>5 DEF Instruction
    <3>. QED
      BY <2>2, <2>3, <3>2 DEF Keeps
  <2>. QED
    BY <2>4, <2>5
<1>. QED
  BY <1>1, <1>2
\* The token after a position.
NextToken(txt, p) == Scanned(txt, Skip(txt, p))

\* A recursion along the tokens of a line, or of a text: where it stops, and
\* what it makes of the value after the next token.
StopsAtEnd(txt, stops) ==
    \A p \in 0 .. Len(txt) : NextToken(txt, p).token.type = "EOF" => p \in stops

AlongTokens(txt, f, stops, base, step) ==
    \A p \in 0 .. Len(txt) :
        f[p] = IF p \in stops THEN base[p] ELSE step[p][f[NextToken(txt, p).position]]

\* It has a solution.
LEMMA TokensExist ==
    ASSUME NEW txt, IsText(txt), NEW S, NEW stops,
           NEW base \in [0 .. Len(txt) -> S], NEW step \in [0 .. Len(txt) -> [S -> S]],
           StopsAtEnd(txt, stops)
    PROVE  \E f \in [0 .. Len(txt) -> S] : AlongTokens(txt, f, stops, base, step)
<1>. DEFINE n    == Len(txt)
            next == [p \in 0 .. n |-> NextToken(txt, p).position]
<1>1. n \in Nat
  BY DEF IsText
<1>2. \A p \in 0 .. n : /\ NextToken(txt, p).position \in p .. n
                        /\ p \notin stops => NextToken(txt, p).position > p
  BY LookedAt DEF NextToken, StopsAtEnd
<1>3. /\ next \in [0 .. n -> 0 .. n]
      /\ \A p \in 0 .. n : next[p] = NextToken(txt, p).position
  <2>1. \A p \in 0 .. n : NextToken(txt, p).position \in 0 .. n
    BY <1>1, <1>2
  <2>. QED
    BY <2>1
<1>4. \A p \in 0 .. n : p \notin stops => next[p] > p
  BY <1>2, <1>3
<1>. HIDE DEF next
<1>5. PICK f \in [0 .. n -> S] : Ascends(f, n, stops, base, next, step)
  BY <1>1, <1>3, <1>4, AscentExists
<1>6. \A p \in 0 .. n : f[p] = IF p \in stops THEN base[p] ELSE step[p][f[next[p]]]
  BY <1>5 DEF Ascends
<1>. QED
  BY <1>3, <1>6 DEF AlongTokens

\* Induction along the tokens.
HeldBack(txt, S) ==
    \A p \in 0 .. Len(txt) :
        (NextToken(txt, p).token.type = "EOF" \/ NextToken(txt, p).position \in S) => p \in S

LEMMA TokenInduction ==
    ASSUME NEW txt, IsText(txt), NEW S, HeldBack(txt, S)
    PROVE  0 .. Len(txt) \subseteq S
<1>1. Len(txt) \in Nat
  BY DEF IsText
<1>2. ASSUME NEW p \in 0 .. Len(txt), \A q \in 0 .. Len(txt) : q > p => q \in S PROVE p \in S
  <2>1. CASE NextToken(txt, p).token.type = "EOF"
    BY <2>1 DEF HeldBack
  <2>2. CASE NextToken(txt, p).token.type # "EOF"
    <3>1. NextToken(txt, p).position \in 0 .. Len(txt) /\ NextToken(txt, p).position > p
      BY <1>1, <2>2, LookedAt DEF NextToken
    <3>. QED
      BY <1>2, <3>1 DEF HeldBack
  <2>. QED
    BY <2>1, <2>2
<1>. QED
  BY <1>1, <1>2, Ascent

\* The rest of a line is skipped up to its end.
LEMMA LineSkipped ==
    ASSUME NEW txt, IsText(txt), NEW l \in Looked(txt)
    PROVE  /\ SkipLine(txt, l) \in Looked(txt)
           /\ LineEnds(l) => SkipLine(txt, l) = l
           /\ ~LineEnds(l) => SkipLine(txt, l) = SkipLine(txt, TokenAfter(txt, l))
<1>. DEFINE n       == Len(txt)
            S       == Looked(txt)
            stops   == {p \in 0 .. n : LineEnds(NextToken(txt, p))}
            base    == [p \in 0 .. n |-> NextToken(txt, p)]
            step    == [p \in 0 .. n |-> [x \in S |-> x]]
            Eq(f)   == f = [p \in 0 .. n |-> LET next == Scanned(txt, Skip(txt, p))
                                             IN  IF LineEnds(next) THEN next ELSE f[next.position]]
            skipped == CHOOSE f : Eq(f)
<1>1. n \in Nat
  BY DEF IsText
<1>2. \A p \in 0 .. n : NextToken(txt, p) \in S /\ NextToken(txt, p).position \in 0 .. n
  BY <1>1, LookedAt DEF NextToken
<1>3. base \in [0 .. n -> S] /\ step \in [0 .. n -> [S -> S]]
  BY <1>2
<1>4. StopsAtEnd(txt, stops)
  BY DEF LineEnds, StopsAtEnd
<1>5. \E f \in [0 .. n -> S] : AlongTokens(txt, f, stops, base, step)
  <2>. HIDE DEF base, step, stops, S
  <2>. QED
    BY <1>3, <1>4, TokensExist
<1>6. PICK f \in [0 .. n -> S] : \A p \in 0 .. n :
         f[p] = IF LineEnds(NextToken(txt, p)) THEN NextToken(txt, p)
                ELSE f[NextToken(txt, p).position]
  BY <1>2, <1>5 DEF AlongTokens
<1>7. Eq(f)
  BY <1>6 DEF NextToken
<1>8. Eq(skipped)
  BY <1>7
<1>9. SkipLine(txt, l) = IF LineEnds(l) THEN l ELSE skipped[l.position]
  BY DEF SkipLine
<1>. HIDE DEF skipped
<1>10. \A p \in 0 .. n :
          skipped[p] = IF LineEnds(NextToken(txt, p)) THEN NextToken(txt, p)
                       ELSE skipped[NextToken(txt, p).position]
  BY <1>8 DEF NextToken
<1>11. 0 .. n \subseteq {p \in 0 .. n : skipped[p] \in S}
  <2>. DEFINE T == {p \in 0 .. n : skipped[p] \in S}
  <2>1. HeldBack(txt, T)
    BY <1>2, <1>10 DEF LineEnds, HeldBack
  <2>. HIDE DEF T
  <2>. QED
    BY <2>1, TokenInduction
<1>12. l.position \in 0 .. n
  BY LookedFacts
<1>13. TokenAfter(txt, l) = NextToken(txt, l.position)
  BY DEF TokenAfter, NextToken
<1>14. SkipLine(txt, TokenAfter(txt, l)) =
          IF LineEnds(NextToken(txt, l.position)) THEN NextToken(txt, l.position)
          ELSE skipped[NextToken(txt, l.position).position]
  BY <1>13 DEF SkipLine, skipped
<1>. QED
  BY <1>9, <1>10, <1>11, <1>12, <1>14

\* Empty lines are passed over.
LEMMA NewlinesPassed ==
    ASSUME NEW txt, IsText(txt), NEW l \in Looked(txt)
    PROVE  /\ PastNewlines(txt, l) \in Looked(txt)
           /\ PastNewlines(txt, l).token.type # "NEWLINE"
           /\ l.token.type # "NEWLINE" => PastNewlines(txt, l) = l
           /\ l.token.type = "NEWLINE" => PastNewlines(txt, l) = PastNewlines(txt, TokenAfter(txt, l))
<1>. DEFINE n      == Len(txt)
            S      == Looked(txt)
            stops  == {p \in 0 .. n : NextToken(txt, p).token.type # "NEWLINE"}
            base   == [p \in 0 .. n |-> NextToken(txt, p)]
            step   == [p \in 0 .. n |-> [x \in S |-> x]]
            Eq(f)  == f = [p \in 0 .. n |-> LET next == Scanned(txt, Skip(txt, p))
                                            IN  IF next.token.type = "NEWLINE" THEN f[next.position] ELSE next]
            past   == CHOOSE f : Eq(f)
<1>1. n \in Nat
  BY DEF IsText
<1>2. \A p \in 0 .. n : NextToken(txt, p) \in S /\ NextToken(txt, p).position \in 0 .. n
  BY <1>1, LookedAt DEF NextToken
<1>3. base \in [0 .. n -> S] /\ step \in [0 .. n -> [S -> S]]
  BY <1>2
<1>4. StopsAtEnd(txt, stops)
  BY DEF StopsAtEnd
<1>5. \E f \in [0 .. n -> S] : AlongTokens(txt, f, stops, base, step)
  <2>. HIDE DEF base, step, stops, S
  <2>. QED
    BY <1>3, <1>4, TokensExist
<1>6. PICK f \in [0 .. n -> S] : \A p \in 0 .. n :
         f[p] = IF NextToken(txt, p).token.type = "NEWLINE" THEN f[NextToken(txt, p).position]
                ELSE NextToken(txt, p)
  BY <1>2, <1>5 DEF AlongTokens
<1>7. Eq(f)
  BY <1>6 DEF NextToken
<1>8. Eq(past)
  BY <1>7
<1>9. PastNewlines(txt, l) = IF l.token.type = "NEWLINE" THEN past[l.position] ELSE l
  BY DEF PastNewlines
<1>. HIDE DEF past
<1>10. \A p \in 0 .. n :
          past[p] = IF NextToken(txt, p).token.type = "NEWLINE" THEN past[NextToken(txt, p).position]
                    ELSE NextToken(txt, p)
  BY <1>8 DEF NextToken
<1>11. 0 .. n \subseteq {p \in 0 .. n : past[p] \in S /\ past[p].token.type # "NEWLINE"}
  <2>. DEFINE T == {p \in 0 .. n : past[p] \in S /\ past[p].token.type # "NEWLINE"}
  <2>1. HeldBack(txt, T)
    BY <1>2, <1>10 DEF HeldBack
  <2>. HIDE DEF T
  <2>. QED
    BY <2>1, TokenInduction
<1>12. l.position \in 0 .. n
  BY LookedFacts
<1>13. TokenAfter(txt, l) = NextToken(txt, l.position)
  BY DEF TokenAfter, NextToken
<1>14. PastNewlines(txt, TokenAfter(txt, l)) =
          IF NextToken(txt, l.position).token.type = "NEWLINE"
            THEN past[NextToken(txt, l.position).position] ELSE NextToken(txt, l.position)
  BY <1>13 DEF PastNewlines, past
<1>. QED
  BY <1>9, <1>10, <1>11, <1>12, <1>14

----------------------------------------------------------------------------
(* Statements.                                                             *)

\* The lexers that the parser leaves: one that has looked, or one that has
\* taken what it looked at.
Lexers(txt) == Looked(txt) \union {[position |-> q, token |-> NoToken] : q \in 0 .. Len(txt)}

LEMMA LexersLook ==
    ASSUME NEW txt, IsText(txt)
    PROVE  /\ NewLexer \in Lexers(txt)
           /\ \A lx \in Lexers(txt) : IsLexer(txt, lx) /\ Peek(txt, lx) \in Looked(txt)
           /\ \A l \in Looked(txt) : /\ Advance(txt, l) \in Lexers(txt)
                                     /\ Peek(txt, Advance(txt, l)) = TokenAfter(txt, l)
<1>1. Len(txt) \in Nat
  BY DEF IsText
<1>2. NewLexer \in Lexers(txt)
  BY <1>1 DEF NewLexer, Lexers
<1>3. ASSUME NEW lx \in Lexers(txt) PROVE IsLexer(txt, lx) /\ Peek(txt, lx) \in Looked(txt)
  <2>1. CASE lx \in Looked(txt)
    BY <2>1, LookedFacts
  <2>2. CASE lx \notin Looked(txt)
    <3>1. IsLexer(txt, lx)
      BY <2>2 DEF Lexers, IsLexer
    <3>. QED
      BY <3>1, PeekLooks
  <2>. QED
    BY <2>1, <2>2
<1>4. ASSUME NEW l \in Looked(txt)
      PROVE  Advance(txt, l) \in Lexers(txt) /\ Peek(txt, Advance(txt, l)) = TokenAfter(txt, l)
  <2>1. Advance(txt, l) = [position |-> l.position, token |-> NoToken] /\ l.position \in 0 .. Len(txt)
    BY LookedFacts DEF Advance
  <2>. QED
    BY <2>1 DEF Lexers, Peek, TokenAfter
<1>. QED
  BY <1>2, <1>3, <1>4

LEMMA ConstantKeeps ==
    ASSUME NEW txt, IsText(txt), NEW l \in Looked(txt)
    PROVE  /\ ConstantAt(txt, l).lexer \in Looked(txt)
           /\ ConstantAt(txt, l).what.kind \in {"constant", "error"}
<1>. DEFINE a == TokenAfter(txt, l)
            b == TokenAfter(txt, a)
            c == TokenAfter(txt, b)
            d == TokenAfter(txt, c)
            w == l.token.word
            constant == [kind |-> "constant", name |-> w, value |-> c.token.value]
<1>1. a \in Looked(txt) /\ b \in Looked(txt) /\ c \in Looked(txt) /\ d \in Looked(txt)
  BY LookedFacts
<1>2. ConstantAt(txt, l) = AfterEQU(txt, w, a)
  BY DEF ConstantAt
<1>3. AfterEQU(txt, w, a) \in {AfterName(txt, w, b), Failure(a)}
  BY DEF AfterEQU
<1>4. AfterName(txt, w, b) \in {ConstantValue(txt, w, c), Failure(b)}
  BY DEF AfterName
<1>5. ConstantValue(txt, w, c) \in {Read(constant, d), Failure(c)}
  BY DEF ConstantValue
<1>6. ConstantAt(txt, l) \in {Read(constant, d), Failure(a), Failure(b), Failure(c)}
  BY <1>2, <1>3, <1>4, <1>5
<1>7. constant.kind = "constant"
  OBVIOUS
<1>. HIDE DEF a, b, c, d, constant
<1>8. /\ Read(constant, d).lexer = d /\ Read(constant, d).what = constant
      /\ \A x \in {a, b, c} : Failure(x).lexer = x /\ Failure(x).what.kind = "error"
  BY DEF Read, Failure
<1>. QED
  BY <1>1, <1>6, <1>7, <1>8

\* The parser reads something, and stops at a lexer.
StatementKind == {"end", "newline", "label", "constant", "instruction", "error", "other"}

LEMMA StatementKeeps ==
    ASSUME NEW txt, IsText(txt), NEW l \in Looked(txt)
    PROVE  /\ StatementFrom(txt, l).lexer \in Lexers(txt)
           /\ StatementFrom(txt, l).what.kind \in StatementKind
           /\ (StatementFrom(txt, l).what.kind = "newline") <=> (l.token.type = "NEWLINE")
           /\ l.token.type = "NEWLINE" => StatementFrom(txt, l).lexer = Advance(txt, l)
<1>. DEFINE s == StatementFrom(txt, l)
            t == l.token.type
<1>1. Looked(txt) \subseteq Lexers(txt) /\ Advance(txt, l) \in Lexers(txt)
  BY LexersLook DEF Lexers
<1>2. SkipLine(txt, l) \in Looked(txt)
  BY LineSkipped
<1>3. CASE t = "EOF"
  <2>1. s = Read([kind |-> "end"], l)
    BY <1>3 DEF StatementFrom
  <2>. QED
    BY <1>1, <1>3, <2>1 DEF Read, StatementKind
<1>4. CASE t = "NEWLINE"
  <2>1. s = Read([kind |-> "newline"], Advance(txt, l))
    BY <1>4 DEF StatementFrom
  <2>. QED
    BY <1>1, <1>4, <2>1 DEF Read, StatementKind
<1>5. CASE t = "IDENTIFIER" /\ EndsWithColon(txt, l.position)
  <2>1. s = Read([kind |-> "label", name |-> l.token.word], SkipLine(txt, l))
    BY <1>5 DEF StatementFrom
  <2>. QED
    BY <1>1, <1>2, <1>5, <2>1 DEF Read, StatementKind
<1>6. CASE t = "IDENTIFIER" /\ ~EndsWithColon(txt, l.position)
  <2>1. s \in {ConstantAt(txt, l), InstructionAt(txt, l)}
    BY <1>6 DEF StatementFrom
  <2>. QED
    BY <1>1, <1>6, <2>1, ConstantKeeps, InstructionKeeps DEF StatementKind
<1>7. CASE t \notin {"EOF", "NEWLINE", "IDENTIFIER"}
  <2>1. s = Read([kind |-> "other"], l)
    BY <1>7 DEF StatementFrom
  <2>. QED
    BY <1>1, <1>7, <2>1 DEF Read, StatementKind
<1>. QED
  BY <1>3, <1>4, <1>5, <1>6, <1>7

\* The lexers after the statements of a text.
LEMMA AfterStatements ==
    ASSUME NEW txt, IsText(txt), NEW n \in Nat
    PROVE  /\ LexerAfter(txt, n) \in [0 .. n -> Lexers(txt)]
           /\ LexerAfter(txt, n)[0] = NewLexer
           /\ \A k \in 1 .. n :
                 LexerAfter(txt, n)[k] = StatementAfter(txt, LexerAfter(txt, n)[k - 1]).lexer
<1>. DEFINE S    == Lexers(txt)
            h    == [k \in 1 .. n |-> [lx \in S |-> StatementAfter(txt, lx).lexer]]
            Eq(f) == f = [k \in 0 .. n |-> IF k = 0 THEN NewLexer
                                           ELSE StatementAfter(txt, f[k - 1]).lexer]
<1>1. ASSUME NEW lx \in S PROVE StatementAfter(txt, lx).lexer \in S
  <2>1. Peek(txt, lx) \in Looked(txt)
    BY LexersLook
  <2>2. PastNewlines(txt, Peek(txt, lx)) \in Looked(txt)
    BY <2>1, NewlinesPassed
  <2>. QED
    BY <2>2, StatementKeeps DEF StatementAfter
<1>2. NewLexer \in S
  BY LexersLook
<1>. HIDE DEF S
<1>3. h \in [1 .. n -> [S -> S]] /\ \A k \in 1 .. n : \A lx \in S : h[k][lx] = StatementAfter(txt, lx).lexer
  BY <1>1
<1>. HIDE DEF h
<1>4. PICK f \in [0 .. n -> S] : Recursion(f, NewLexer, h, n)
  BY <1>2, <1>3, RecursionExists
<1>5. f[0] = NewLexer /\ \A k \in 1 .. n : f[k] = StatementAfter(txt, f[k - 1]).lexer
  <2>1. f[0] = NewLexer /\ \A k \in 1 .. n : f[k] = h[k][f[k - 1]] /\ f[k - 1] \in S
    BY <1>4 DEF Recursion
  <2>. QED
    BY <1>3, <2>1
<1>6. \A k \in 0 .. n : k # 0 => k \in 1 .. n
  OBVIOUS
<1>7. Eq(f)
  BY <1>5, <1>6
<1>8. Eq(CHOOSE g : Eq(g))
  BY <1>7
<1>9. LexerAfter(txt, n) = CHOOSE g : Eq(g)
  BY DEF LexerAfter
<1>10. Eq(LexerAfter(txt, n))
  BY <1>8, <1>9
<1>. DEFINE after == LexerAfter(txt, n)
<1>. HIDE DEF after
<1>11. after[0] = NewLexer /\ \A k \in 1 .. n : after[k] = StatementAfter(txt, after[k - 1]).lexer
  BY <1>10 DEF after
<1>12. \A k \in 0 .. n : after[k] \in S
  <2>. DEFINE T == {k \in 0 .. n : after[k] \in S}
  <2>1. 0 \in T
    BY <1>2, <1>11
  <2>2. \A k \in 1 .. n : k - 1 \in T => k \in T
    BY <1>1, <1>11
  <2>. DEFINE U == {j \in Nat : j <= n => j \in T}
  <2>3. 0 \in U
    BY <2>1
  <2>4. ASSUME NEW k \in Nat, k \in U PROVE k + 1 \in U
    BY <2>2, <2>4
  <2>5. Nat \subseteq U
    <3>. HIDE DEF U
    <3>. QED
      BY <2>3, <2>4, SetInduction
  <2>. QED
    BY <2>5
<1>. QED
  BY <1>10, <1>11, <1>12 DEF after, S

----------------------------------------------------------------------------
(* Reading a text is reading its lines, if its statements, one after the   *)
(* other, are these lines.                                                 *)

DocumentsAreRead == \A d \in Documents : ReadsAs(d.text, d.lines)

\* Where the next statement starts.
NextStart(txt, lx) == PastNewlines(txt, Peek(txt, lx))

\* In either pass the parser is, but for empty lines, where it is after as
\* many statements as it has counted.
TextInv ==
    /\ \E d \in Documents : text = d.text /\ source = d.lines
    /\ lexer \in Lexers(text)
    /\ stage \in Passes =>
          /\ NextStart(text, lexer) = NextStart(text, LexerAfter(text, Len(source))[line])
          /\ \A k \in 1 .. line : source[k].kind \notin {"error", "other"}

LEMMA TextFacts ==
    ASSUME TextInv
    PROVE  /\ IsText(text) /\ IsSource(source) /\ Len(source) \in Nat
           /\ DocumentsAreRead => ReadsAs(text, source)
<1>1. PICK d \in Documents : text = d.text /\ source = d.lines
  BY DEF TextInv
<1>. QED
  BY <1>1, ParserAssumption DEF IsSource, DocumentsAreRead

LEMMA InitTextInv == ASSUME ParserInit PROVE TextInv /\ AssemblerInv
<1>1. PICK d \in Documents : text = d.text /\ source = d.lines
  BY DEF ParserInit
<1>2. IsText(text) /\ Len(source) \in Nat
  BY <1>1, ParserAssumption DEF IsSource
<1>3. lexer \in Lexers(text) /\ lexer = LexerAfter(text, Len(source))[0]
  BY <1>2, LexersLook, AfterStatements DEF ParserInit
<1>4. line = 0 /\ \A k \in 1 .. 0 : FALSE
  BY DEF ParserInit, AssemblerInit
<1>5. TextInv
  BY <1>1, <1>3, <1>4 DEF TextInv
<1>. QED
  BY <1>5, InitAssemblerInv DEF ParserInit

\* What the parser is at: an empty line, or the next line of the document.
LEMMA StatementIsLine ==
    ASSUME DocumentsAreRead, AssemblerInv, TextInv, stage \in Passes,
           StatementAt(text, lexer).what.kind # "newline"
    PROVE  /\ StatementAt(text, lexer).what =
                 IF line < Len(source) THEN source[line + 1] ELSE [kind |-> "end"]
           /\ line < Len(source) =>
                 StatementAt(text, lexer).lexer = LexerAfter(text, Len(source))[line + 1]
<1>. DEFINE l     == Peek(text, lexer)
            after == LexerAfter(text, Len(source))
<1>1. IsText(text) /\ IsSource(source) /\ Len(source) \in Nat /\ ReadsAs(text, source)
  BY TextFacts
<1>2. line \in 0 .. Len(source)
  BY DEF AssemblerInv, AssemblerTypeOK
<1>3. l \in Looked(text) /\ l.token.type # "NEWLINE"
  <2>1. l \in Looked(text)
    BY <1>1, LexersLook DEF TextInv
  <2>. QED
    BY <1>1, <2>1, StatementKeeps DEF StatementAt
<1>4. NextStart(text, lexer) = l
  BY <1>1, <1>3, NewlinesPassed DEF NextStart
<1>5. StatementAt(text, lexer) = StatementAfter(text, after[line])
  BY <1>4 DEF StatementAt, StatementAfter, TextInv, NextStart
<1>6. StatementAfter(text, after[line]).what =
         IF line < Len(source) THEN source[line + 1] ELSE [kind |-> "end"]
  BY <1>1, <1>2 DEF ReadsAs, TextInv
<1>7. line < Len(source) => after[line + 1] = StatementAfter(text, after[line]).lexer
  <2>1. \A k \in 1 .. Len(source) : after[k] = StatementAfter(text, after[k - 1]).lexer
    BY <1>1, AfterStatements
  <2>2. line < Len(source) => line + 1 \in 1 .. Len(source) /\ (line + 1) - 1 = line
    BY <1>1, <1>2
  <2>. HIDE DEF after
  <2>. QED
    BY <2>1, <2>2
<1>. QED
  BY <1>5, <1>6, <1>7

\* The parser's steps are steps over lines, and it is again where it should be.
LEMMA LineRead ==
    ASSUME DocumentsAreRead, AssemblerInv, TextInv, ParseStatement(StatementAt(text, lexer))
    PROVE  /\ AssembleString \/ UNCHANGED asmVars
           /\ TextInv'
<1>. DEFINE s     == StatementAt(text, lexer)
            after == LexerAfter(text, Len(source))
<1>1. /\ IsText(text) /\ IsSource(source) /\ Len(source) \in Nat
      /\ line \in 0 .. Len(source) /\ stage \in Passes
  BY TextFacts DEF AssemblerInv, AssemblerTypeOK, ParseStatement
<1>2. s.lexer \in Lexers(text) /\ text' = text /\ source' = source
  <2>1. Peek(text, lexer) \in Looked(text)
    BY <1>1, LexersLook DEF TextInv
  <2>2. s.lexer \in Lexers(text)
    BY <1>1, <2>1, StatementKeeps DEF StatementAt
  <2>3. text' = text /\ source' = source
    BY DEF ParseStatement, EmptyLine, LabelStatement, ConstantStatement, InstructionStatement,
           ErrorStatement, RewindText, TextParsed, NextStatement, asmVars
  <2>. QED
    BY <2>2, <2>3
<1>3. CASE EmptyLine(s)
  <2>. DEFINE l == Peek(text, lexer)
  <2>1. lexer' = s.lexer /\ UNCHANGED asmVars /\ s.what.kind = "newline"
    BY <1>3 DEF EmptyLine
  <2>2. l \in Looked(text)
    BY <1>1, LexersLook DEF TextInv
  <2>3. l.token.type = "NEWLINE" /\ lexer' = Advance(text, l)
    BY <1>1, <2>1, <2>2, StatementKeeps DEF StatementAt
  <2>4. Peek(text, Advance(text, l)) = TokenAfter(text, l)
    BY <1>1, <2>2, LexersLook
  <2>5. PastNewlines(text, l) = PastNewlines(text, TokenAfter(text, l))
    BY <1>1, <2>2, <2>3, NewlinesPassed
  <2>6. NextStart(text, lexer) = NextStart(text, Advance(text, l))
    BY <2>4, <2>5 DEF NextStart
  <2>7. UNCHANGED <<line, stage>>
    BY <2>1 DEF asmVars
  <2>8. TextInv'
    BY <1>2, <2>1, <2>3, <2>6, <2>7 DEF TextInv
  <2>. QED
    BY <2>1, <2>8
<1>4. CASE LabelStatement(s) \/ ConstantStatement(s) \/ InstructionStatement(s)
  <2>1. /\ s.what.kind \in {"label", "constant", "instruction"}
        /\ lexer' = s.lexer /\ line' = line + 1 /\ UNCHANGED source
    BY <1>4 DEF LabelStatement, ConstantStatement, InstructionStatement, NextStatement
  <2>2. line < Len(source) /\ s.what = source[line + 1] /\ s.lexer = after[line + 1]
    BY <1>1, <2>1, StatementIsLine
  <2>. HIDE DEF s
  <2>3. AtLine(s.what.kind) /\ NextLine
    BY <1>1, <2>1, <2>2 DEF AtLine, NextLine
  <2>4. AssembleString
    BY <1>4, <2>2, <2>3
       DEF LabelStatement, ConstantStatement, InstructionStatement,
           AssembleString, Label, Constant, CountInstruction, EmitInstruction, OutputOverflow
  <2>5. \A k \in 1 .. line + 1 : source[k].kind \notin {"error", "other"}
    <3>1. \A k \in 1 .. line + 1 : k \in 1 .. line \/ k = line + 1
      BY <1>1
    <3>. QED
      BY <1>1, <2>1, <2>2, <3>1 DEF TextInv
  <2>6. NextStart(text, lexer') = NextStart(text, after[line'])
    BY <2>1, <2>2
  <2>7. TextInv'
    <3>. HIDE DEF after
    <3>1. after' = after
      BY <1>2 DEF after
    <3>2. \A k \in 1 .. line' : source'[k].kind \notin {"error", "other"}
      BY <2>1, <2>5
    <3>. QED
      BY <1>2, <2>1, <2>6, <3>1, <3>2 DEF TextInv, after
  <2>. QED
    BY <2>4, <2>7
<1>5. CASE ErrorStatement(s)
  <2>1. s.what.kind = "error" /\ Fails /\ lexer' = s.lexer /\ line' = line + 1 /\ UNCHANGED source
    BY <1>5 DEF ErrorStatement, NextStatement
  <2>2. line < Len(source) /\ s.what = source[line + 1]
    BY <1>1, <2>1, StatementIsLine
  <2>3. AssembleString
    BY <1>1, <2>1, <2>2 DEF AtLine, NextLine, ParserError, AssembleString
  <2>4. stage' \notin Passes
    BY <2>1 DEF Fails, Passes
  <2>. QED
    BY <1>2, <2>1, <2>3, <2>4 DEF TextInv
<1>6. CASE RewindText(s) \/ TextParsed(s)
  <2>1. s.what.kind \in {"end", "other"}
    BY <1>6 DEF RewindText, TextParsed, TextEnds
  <2>2. s.what = IF line < Len(source) THEN source[line + 1] ELSE [kind |-> "end"]
    BY <1>1, <2>1, StatementIsLine
  <2>. HIDE DEF s
  <2>3. PassEnds
    <3>1. CASE line < Len(source)
      <4>1. source[line + 1].kind \in LineKind
        BY <1>1, <3>1 DEF IsSource
      <4>2. source[line + 1].kind = "other"
        BY <2>1, <2>2, <3>1, <4>1 DEF LineKind
      <4>. QED
        BY <1>1, <3>1, <4>2 DEF PassEnds, AtLine
    <3>2. CASE ~(line < Len(source))
      <4>1. line = Len(source)
        BY <1>1, <3>2
      <4>. QED
        BY <1>1, <4>1 DEF PassEnds
    <3>. QED
      BY <3>1, <3>2
  <2>4. CASE RewindText(s)
    <3>1. StartsSecondPass /\ lexer' = NewLexer /\ line' = 0 /\ UNCHANGED source
      BY <2>4 DEF RewindText, Rewound
    <3>2. AssembleString
      BY <2>3, <3>1 DEF SecondPass, AssembleString
    <3>3. NewLexer \in Lexers(text) /\ after[0] = NewLexer
      BY <1>1, LexersLook, AfterStatements
    <3>4. NextStart(text, lexer') = NextStart(text, after[line'])
      BY <3>1, <3>3
    <3>5. \A k \in 1 .. line' : source'[k].kind \notin {"error", "other"}
      BY <3>1
    <3>6. after' = after
      BY <1>2
    <3>. HIDE DEF after
    <3>7. TextInv'
      BY <1>2, <3>1, <3>3, <3>4, <3>5, <3>6 DEF TextInv, after
    <3>. QED
      BY <3>2, <3>7
  <2>5. CASE TextParsed(s)
    <3>1. EndsSecondPass /\ UNCHANGED <<source, line, text, lexer>>
      BY <2>5 DEF TextParsed
    <3>2. AssembleString
      BY <2>3, <3>1 DEF Parsed, AssembleString
    <3>3. stage' \notin Passes
      BY <3>1 DEF EndsSecondPass, Passes
    <3>. QED
      BY <1>2, <3>1, <3>2, <3>3 DEF TextInv
  <2>. QED
    BY <1>6, <2>4, <2>5
<1>. QED
  BY <1>3, <1>4, <1>5, <1>6 DEF ParseStatement

LEMMA ParserStep ==
    ASSUME DocumentsAreRead, AssemblerInv, TextInv, [ParserNext]_textVars
    PROVE  AssemblerInv' /\ TextInv' /\ [AssemblerNext]_asmVars
<1>1. CASE ParseStatement(StatementAt(text, lexer))
  <2>1. (AssembleString \/ UNCHANGED asmVars) /\ TextInv'
    BY <1>1, LineRead
  <2>2. AssemblerInv'
    BY <2>1, AssembleStringOK, AssemblerKept
  <2>. QED
    BY <2>1, <2>2 DEF AssemblerNext, Assemble
<1>2. CASE AfterParse
  <2>1. AssemblerNext /\ AssemblerInv'
    <3>1. AssembleString \/ WriteFile
      BY <1>2 DEF AfterParse, AssembleString
    <3>. QED
      BY <3>1, AssembleStringOK, WriteFileOK DEF AssemblerNext, Assemble
  <2>2. UNCHANGED <<text, lexer, source>> /\ stage' \notin Passes
    BY <1>2 DEF AfterParse, CopyString, CopyAborts, StringsTooLong, OtherSymbol, StringsDone,
                WriteFile, AtString, Passes
  <2>. QED
    BY <2>1, <2>2 DEF TextInv
<1>3. CASE UNCHANGED textVars
  <2>1. UNCHANGED asmVars /\ UNCHANGED <<text, lexer, source, stage, line>>
    BY <1>3 DEF textVars, asmVars
  <2>. QED
    BY <2>1, AssemblerKept DEF TextInv
<1>. QED
  BY <1>1, <1>2, <1>3 DEF ParserNext, AssembleText, ParserExited

----------------------------------------------------------------------------
(* The two tests for a label: of the raw text, and of the tokens.          *)

IsPlain(txt) == \A p \in 1 .. Len(txt) : txt[p].is \notin {"cr", "quote"}

StopsRaw == {"NEWLINE", "semicolon", "end"}

\* Where the rest of a line ends in the text.
IsRawEnd(txt, p, q) ==
    /\ q \in p .. Len(txt)
    /\ At(txt, q) \in StopsRaw
    /\ \A k \in p .. q - 1 : At(txt, k) \notin {"NEWLINE", "semicolon"}

LEMMA RawEndFound ==
    ASSUME NEW txt, IsText(txt), NEW p \in 0 .. Len(txt)
    PROVE  /\ IsRawEnd(txt, p, RawEnd(txt, p))
           /\ \A q : IsRawEnd(txt, p, q) => q = RawEnd(txt, p)
<1>. DEFINE S == {q \in 0 .. Len(txt) : At(txt, q) \in StopsRaw}
<1>1. Len(txt) \in S /\ Len(txt) \in Nat
  BY TextEnd DEF StopsRaw
<1>2. PICK q \in p .. Len(txt) : q \in S /\ \A k \in p .. q - 1 : k \notin S
  <2>. HIDE DEF S
  <2>. QED
    BY <1>1, FirstFrom
<1>3. \A k \in p .. q - 1 : k \in 0 .. Len(txt)
  BY <1>1
<1>4. IsRawEnd(txt, p, q)
  BY <1>2, <1>3 DEF IsRawEnd, StopsRaw
<1>5. IsRawEnd(txt, p, RawEnd(txt, p))
  BY <1>4 DEF RawEnd, IsRawEnd, StopsRaw
<1>6. ASSUME NEW a, NEW b, IsRawEnd(txt, p, a), IsRawEnd(txt, p, b), a < b PROVE FALSE
  <2>1. a \in p .. b - 1 /\ a # Len(txt) /\ a \in 0 .. Len(txt)
    BY <1>1, <1>6 DEF IsRawEnd
  <2>2. At(txt, a) # "end"
    BY <2>1, TextEnd
  <2>. QED
    BY <1>6, <2>1, <2>2 DEF IsRawEnd, StopsRaw
<1>7. \A a, b : IsRawEnd(txt, p, a) /\ IsRawEnd(txt, p, b) => a = b
  <2>1. ASSUME NEW a, NEW b, IsRawEnd(txt, p, a), IsRawEnd(txt, p, b) PROVE a = b
    <3>1. a \in Int /\ b \in Int
      BY <1>1, <2>1 DEF IsRawEnd
    <3>2. ~(a < b) /\ ~(b < a)
      BY <1>6, <2>1
    <3>. QED
      BY <3>1, <3>2
  <2>. QED
    BY <2>1
<1>. QED
  BY <1>5, <1>7

\* Nothing but spaces is left of the line.
Blanks(txt, p) == \A k \in p + 1 .. RawEnd(txt, p) : txt[k].is = "space"

\* In a plain text, after spaces, there is the end of the line or a token of
\* one character.
LEMMA PlainStep ==
    ASSUME NEW txt, IsText(txt), IsPlain(txt), NEW p \in 0 .. Len(txt)
    PROVE  \/ /\ LineEnds(NextToken(txt, p))
              /\ Blanks(txt, p)
           \/ \E q \in p + 1 .. Len(txt) :
                 /\ ~LineEnds(NextToken(txt, p))
                 /\ NextToken(txt, p).position = q
                 /\ RawEnd(txt, q) = RawEnd(txt, p) /\ RawEnd(txt, q) \in q .. Len(txt)
                 /\ \A k \in p + 1 .. q - 1 : txt[k].is = "space"
                 /\ txt[q].is # "space"
                 /\ (NextToken(txt, p).token.type = "COLON") <=> (txt[q].is = "COLON")
<1>. DEFINE n == Len(txt)
            q == AfterBlanks(txt, p)
<1>1. n \in Nat
  BY DEF IsText
<1>2. /\ q \in p .. n /\ q \in 0 .. n /\ At(txt, q) \notin {"space", "cr"}
      /\ \A k \in p .. q - 1 : At(txt, k) \in {"space", "cr"}
  BY <1>1, AfterBlanksFound
<1>. HIDE DEF q
<1>3. \A k \in p + 1 .. q : txt[k].is = "space"
  <2>1. ASSUME NEW k \in p + 1 .. q PROVE txt[k].is = "space"
    <3>1. k - 1 \in p .. q - 1 /\ k - 1 < n /\ (k - 1) + 1 = k /\ k \in 1 .. n
      BY <1>1, <1>2
    <3>2. At(txt, k - 1) = txt[k].is
      BY <3>1 DEF At
    <3>. QED
      BY <1>2, <3>1, <3>2 DEF IsPlain
  <2>. QED
    BY <2>1
<1>4. CASE At(txt, q) \in StopsRaw
  <2>1. q = RawEnd(txt, p)
    <3>1. IsRawEnd(txt, p, q)
      BY <1>2, <1>4 DEF IsRawEnd
    <3>. QED
      BY <3>1, RawEndFound
  <2>2. Blanks(txt, p)
    BY <1>3, <2>1 DEF Blanks
  <2>. DEFINE e == Skip(txt, p)
  <2>3. e \in 0 .. n /\ At(txt, e) \in {"NEWLINE", "end"}
    <3>1. e = IF At(txt, q) = "semicolon" THEN EndOfLine(txt, q) ELSE q
      BY DEF Skip, q
    <3>2. EndOfLine(txt, q) \in q .. n /\ At(txt, EndOfLine(txt, q)) \in {"NEWLINE", "end"}
      BY <1>2, EndOfLineFound
    <3>. HIDE DEF e
    <3>. QED
      BY <1>1, <1>2, <1>4, <3>1, <3>2 DEF StopsRaw
  <2>. HIDE DEF e
  <2>4. Scanned(txt, e).token.type \in {"NEWLINE", "EOF"}
    BY <2>3 DEF Scanned
  <2>5. LineEnds(NextToken(txt, p))
    BY <2>4 DEF LineEnds, NextToken, e
  <2>. QED
    BY <2>2, <2>5
<1>5. CASE At(txt, q) \notin StopsRaw
  <2>. DEFINE r == q + 1
  <2>1. q # n /\ q < n /\ r \in 1 .. n /\ r \in 0 .. n /\ At(txt, q) = txt[r].is /\ At(txt, q) \in Kinds
    BY <1>2, <1>5, TextEnd DEF StopsRaw
  <2>2. r \in p + 1 .. n /\ q = r - 1
    BY <1>1, <1>2, <2>1
  <2>3. NextToken(txt, p) = Scanned(txt, q)
    BY <1>5 DEF NextToken, Skip, StopsRaw, q
  <2>4. txt[r].is \notin {"NEWLINE", "semicolon", "end", "space", "cr", "quote"}
    BY <1>2, <1>5, <2>1 DEF StopsRaw, IsPlain
  <2>5. /\ Scanned(txt, q).position = r
        /\ Scanned(txt, q).token.type \notin {"NEWLINE", "EOF"}
        /\ (Scanned(txt, q).token.type = "COLON") <=> (txt[r].is = "COLON")
    <3>1. At(txt, q) = "number" => Scanned(txt, q).position = r /\ Scanned(txt, q).token.type = "NUMBER"
      BY DEF Scanned
    <3>2. At(txt, q) = "word" => /\ Scanned(txt, q).position = r
                                 /\ Scanned(txt, q).token.type \in {"REGISTER", "IDENTIFIER"}
      BY DEF Scanned
    <3>3. At(txt, q) \notin {"number", "word"} =>
             Scanned(txt, q).position = r /\ Scanned(txt, q).token.type = At(txt, q)
      BY <2>1, <2>4 DEF Scanned
    <3>. QED
      BY <2>1, <2>4, <3>1, <3>2, <3>3 DEF Kinds, Single
  <2>6. RawEnd(txt, r) = RawEnd(txt, p) /\ RawEnd(txt, r) \in r .. n
    <3>. DEFINE z == RawEnd(txt, r)
    <3>1. IsRawEnd(txt, r, z)
      BY <2>1, RawEndFound
    <3>. HIDE DEF z
    <3>2. z \in r .. n /\ At(txt, z) \in StopsRaw
          /\ \A k \in r .. z - 1 : At(txt, k) \notin {"NEWLINE", "semicolon"}
      BY <3>1 DEF IsRawEnd
    <3>3. \A k \in p .. z - 1 : k \in p .. q - 1 \/ k = q \/ k \in r .. z - 1
      BY <1>1, <1>2, <2>2, <3>2
    <3>4. \A k \in p .. z - 1 : At(txt, k) \notin {"NEWLINE", "semicolon"}
      BY <1>2, <1>5, <3>2, <3>3 DEF StopsRaw
    <3>5. z \in p .. n
      BY <1>1, <1>2, <2>2, <3>2
    <3>6. IsRawEnd(txt, p, z)
      BY <3>2, <3>4, <3>5 DEF IsRawEnd
    <3>. QED
      BY <3>2, <3>6, RawEndFound DEF z
  <2>7. \A k \in p + 1 .. r - 1 : txt[k].is = "space"
    BY <1>3, <2>2
  <2>. HIDE DEF r
  <2>8. /\ ~LineEnds(NextToken(txt, p)) /\ NextToken(txt, p).position = r
        /\ (NextToken(txt, p).token.type = "COLON") <=> (txt[r].is = "COLON")
    BY <2>3, <2>5 DEF LineEnds
  <2>9. txt[r].is # "space"
    BY <2>4
  <2>. QED
    BY <2>2, <2>6, <2>7, <2>8, <2>9
<1>. QED
  BY <1>4, <1>5

\* The types of the tokens from a position to the end of the line.
RestFrom(txt) ==
    CHOOSE f : f = [p \in 0 .. Len(txt) |->
                       LET next == Scanned(txt, Skip(txt, p))
                       IN  IF LineEnds(next) THEN <<>> ELSE <<next.token.type>> \o f[next.position]]

TokenTypes(txt) == {NextToken(txt, p).token.type : p \in 0 .. Len(txt)}

RestSolves(txt, f) ==
    \A p \in 0 .. Len(txt) :
        f[p] = IF LineEnds(NextToken(txt, p)) THEN <<>>
               ELSE <<NextToken(txt, p).token.type>> \o f[NextToken(txt, p).position]

LEMMA RestFound ==
    ASSUME NEW txt, IsText(txt)
    PROVE  /\ RestFrom(txt) \in [0 .. Len(txt) -> Seq(TokenTypes(txt))]
           /\ RestSolves(txt, RestFrom(txt))
<1>. DEFINE n     == Len(txt)
            S     == Seq(TokenTypes(txt))
            stops == {p \in 0 .. n : LineEnds(NextToken(txt, p))}
            base  == [p \in 0 .. n |-> <<>>]
            step  == [p \in 0 .. n |-> [x \in S |-> <<NextToken(txt, p).token.type>> \o x]]
            Eq(f) == f = [p \in 0 .. n |->
                             LET next == Scanned(txt, Skip(txt, p))
                             IN  IF LineEnds(next) THEN <<>> ELSE <<next.token.type>> \o f[next.position]]
<1>1. n \in Nat
  BY DEF IsText
<1>2. \A p \in 0 .. n : NextToken(txt, p).position \in 0 .. n
  BY <1>1, LookedAt DEF NextToken
<1>3. \A p \in 0 .. n : \A x \in S : <<NextToken(txt, p).token.type>> \o x \in S
  <2>1. \A p \in 0 .. n : NextToken(txt, p).token.type \in TokenTypes(txt)
    BY DEF TokenTypes
  <2>2. \A t \in TokenTypes(txt) : \A x \in S : <<t>> \o x \in S
    OBVIOUS
  <2>. QED
    BY <2>1, <2>2
<1>4. <<>> \in S
  OBVIOUS
<1>. HIDE DEF S
<1>5. base \in [0 .. n -> S] /\ step \in [0 .. n -> [S -> S]]
  BY <1>3, <1>4
<1>6. \A p \in 0 .. n : /\ base[p] = <<>>
                        /\ \A x \in S : step[p][x] = <<NextToken(txt, p).token.type>> \o x
  OBVIOUS
<1>7. StopsAtEnd(txt, stops)
  BY DEF LineEnds, StopsAtEnd
<1>8. \E f \in [0 .. n -> S] : AlongTokens(txt, f, stops, base, step)
  <2>. HIDE DEF base, step, stops
  <2>. QED
    BY <1>5, <1>7, TokensExist
<1>. HIDE DEF base, step
<1>9. PICK f \in [0 .. n -> S] : RestSolves(txt, f)
  <2>1. PICK f \in [0 .. n -> S] : AlongTokens(txt, f, stops, base, step)
    BY <1>8
  <2>2. ASSUME NEW p \in 0 .. n
        PROVE  f[p] = IF LineEnds(NextToken(txt, p))
                        THEN <<>>
                        ELSE <<NextToken(txt, p).token.type>> \o f[NextToken(txt, p).position]
    <3>1. p \in stops <=> LineEnds(NextToken(txt, p))
      OBVIOUS
    <3>2. NextToken(txt, p).position \in 0 .. n
      BY <1>2
    <3>3. f[NextToken(txt, p).position] \in S
      BY <3>2
    <3>4. f[p] = IF p \in stops THEN base[p] ELSE step[p][f[NextToken(txt, p).position]]
      BY <2>1 DEF AlongTokens
    <3>. HIDE DEF stops
    <3>. QED
      BY <1>6, <3>1, <3>3, <3>4
  <2>. QED
    BY <2>2 DEF RestSolves
<1>10. Eq(f)
  BY <1>9 DEF NextToken, RestSolves
<1>11. Eq(RestFrom(txt))
  BY <1>10 DEF RestFrom
<1>12. RestSolves(txt, RestFrom(txt)) /\ RestFrom(txt) = [p \in 0 .. n |-> RestFrom(txt)[p]]
  BY <1>11 DEF NextToken, RestSolves
<1>. DEFINE g == RestFrom(txt)
            T == {p \in 0 .. n : g[p] \in S}
<1>13. 0 .. n \subseteq T
  <2>. HIDE DEF g
  <2>1. HeldBack(txt, T)
    BY <1>2, <1>3, <1>4, <1>12 DEF LineEnds, HeldBack, RestSolves, g
  <2>. HIDE DEF T
  <2>. QED
    BY <2>1, TokenInduction
<1>. QED
  BY <1>12, <1>13 DEF S

Last(s) == s[Len(s)]

\* The tests agree from a position on: nothing is left but spaces when no
\* token is left, and else the last of them is a colon when the last character
\* is one.
Agree(txt, p) ==
    /\ (RestFrom(txt)[p] = <<>>) <=> Blanks(txt, p)
    /\ RestFrom(txt)[p] # <<>> =>
          ((Last(RestFrom(txt)[p]) = "COLON") <=> EndsWithColon(txt, p))

LEMMA TestsAgree ==
    ASSUME NEW txt, IsText(txt), IsPlain(txt), NEW p \in 0 .. Len(txt)
    PROVE  Agree(txt, p)
<1>. DEFINE n    == Len(txt)
            rest == RestFrom(txt)
            S    == {k \in 0 .. n : Agree(txt, k)}
<1>1. n \in Nat
  BY DEF IsText
<1>2. rest \in [0 .. n -> Seq(TokenTypes(txt))] /\ RestSolves(txt, rest)
  BY RestFound
<1>. HIDE DEF rest
<1>3. ASSUME NEW k \in 0 .. n,
             NextToken(txt, k).token.type = "EOF" \/ NextToken(txt, k).position \in S
      PROVE  Agree(txt, k)
  <2>. DEFINE t == NextToken(txt, k).token.type
              q == NextToken(txt, k).position
  <2>1. CASE LineEnds(NextToken(txt, k))
    <3>1. rest[k] = <<>>
      BY <1>2, <2>1 DEF RestSolves
    <3>2. Blanks(txt, k)
      BY <2>1, PlainStep
    <3>. QED
      BY <3>1, <3>2 DEF Agree, rest
  <2>2. CASE ~LineEnds(NextToken(txt, k))
    <3>1. rest[k] = <<t>> \o rest[q]
      BY <1>2, <2>2 DEF RestSolves
    <3>2. t # "EOF"
      BY <2>2 DEF LineEnds
    <3>3. /\ q \in k + 1 .. n
          /\ RawEnd(txt, q) = RawEnd(txt, k) /\ RawEnd(txt, q) \in q .. n
          /\ \A j \in k + 1 .. q - 1 : txt[j].is = "space"
          /\ txt[q].is # "space"
          /\ (t = "COLON") <=> (txt[q].is = "COLON")
      BY <2>2, PlainStep
    <3>4. Agree(txt, q)
      BY <1>3, <3>2
    <3>5. t \in TokenTypes(txt)
      BY DEF TokenTypes
    <3>. HIDE DEF t, q
    <3>. DEFINE e == RawEnd(txt, k)
                x == rest[q]
    <3>6. x \in Seq(TokenTypes(txt))
      BY <1>1, <1>2, <3>3
    <3>7. /\ (x = <<>>) <=> Blanks(txt, q)
          /\ x # <<>> => ((Last(x) = "COLON") <=> EndsWithColon(txt, q))
      BY <3>4 DEF Agree, rest
    <3>. HIDE DEF x, e
    <3>8. /\ <<t>> \o x # <<>>
          /\ x = <<>> => Last(<<t>> \o x) = t
          /\ x # <<>> => Last(<<t>> \o x) = Last(x)
      <4>1. Len(x) \in Nat /\ Len(<<t>> \o x) = 1 + Len(x)
        BY <3>5, <3>6
      <4>2. x = <<>> => (<<t>> \o x)[1] = t /\ Len(x) = 0
        BY <3>5, <3>6
      <4>3. x # <<>> => Len(x) \in 1 .. Len(x) /\ (<<t>> \o x)[1 + Len(x)] = x[Len(x)]
        BY <3>5, <3>6
      <4>4. <<t>> \o x # <<>>
        BY <4>1
      <4>. QED
        BY <4>1, <4>2, <4>3, <4>4 DEF Last
    <3>9. RawEnd(txt, k) = e /\ RawEnd(txt, q) = e /\ q \in k + 1 .. e /\ e \in Int /\ q \in Int
      BY <1>1, <3>3 DEF e
    <3>10. ~Blanks(txt, k)
      BY <3>3, <3>9 DEF Blanks
    <3>11. Blanks(txt, q) => (EndsWithColon(txt, k) <=> txt[q].is = "COLON")
      <4>. SUFFICES ASSUME Blanks(txt, q) PROVE EndsWithColon(txt, k) <=> txt[q].is = "COLON"
        OBVIOUS
      <4>1. \A j \in q + 1 .. e : txt[j].is = "space"
        BY <3>9 DEF Blanks
      <4>2. \A j \in k + 1 .. e : j \in k + 1 .. q - 1 \/ j = q \/ j \in q + 1 .. e
        BY <3>9
      <4>3. ASSUME EndsWithColon(txt, k) PROVE txt[q].is = "COLON"
        <5>1. PICK c \in k + 1 .. e : txt[c].is = "COLON"
          BY <3>9, <4>3 DEF EndsWithColon
        <5>. QED
          BY <3>3, <4>1, <4>2, <5>1
      <4>4. ASSUME txt[q].is = "COLON" PROVE EndsWithColon(txt, k)
        BY <3>9, <4>1, <4>4 DEF EndsWithColon
      <4>. QED
        BY <4>3, <4>4
    <3>12. ~Blanks(txt, q) => (EndsWithColon(txt, k) <=> EndsWithColon(txt, q))
      <4>. SUFFICES ASSUME ~Blanks(txt, q) PROVE EndsWithColon(txt, k) <=> EndsWithColon(txt, q)
        OBVIOUS
      <4>1. PICK b \in q + 1 .. e : txt[b].is # "space"
        BY <3>9 DEF Blanks
      <4>2. ASSUME EndsWithColon(txt, k) PROVE EndsWithColon(txt, q)
        <5>1. PICK c \in k + 1 .. e : /\ txt[c].is = "COLON"
                                      /\ \A j \in c + 1 .. e : txt[j].is = "space"
          BY <3>9, <4>2 DEF EndsWithColon
        <5>2. ~(b \in c + 1 .. e)
          BY <4>1, <5>1
        <5>3. c \in q + 1 .. e
          BY <3>9, <4>1, <5>1, <5>2
        <5>. QED
          BY <3>9, <5>1, <5>3 DEF EndsWithColon
      <4>3. ASSUME EndsWithColon(txt, q) PROVE EndsWithColon(txt, k)
        <5>1. PICK c \in q + 1 .. e : /\ txt[c].is = "COLON"
                                      /\ \A j \in c + 1 .. e : txt[j].is = "space"
          BY <3>9, <4>3 DEF EndsWithColon
        <5>2. c \in k + 1 .. e
          BY <3>9, <5>1
        <5>. QED
          BY <3>9, <5>1, <5>2 DEF EndsWithColon
      <4>. QED
        BY <4>2, <4>3
    <3>13. rest[k] = <<t>> \o x
      BY <3>1 DEF x
    <3>. QED
      BY <3>3, <3>7, <3>8, <3>10, <3>11, <3>12, <3>13 DEF Agree, rest
  <2>. QED
    BY <2>1, <2>2
<1>4. HeldBack(txt, S)
  BY <1>3 DEF HeldBack
<1>5. 0 .. n \subseteq S
  <2>. HIDE DEF S
  <2>. QED
    BY <1>4, TokenInduction
<1>. QED
  BY <1>5

LEMMA LabelTestsAgree == ASSUME TextInv PROVE LabelsByToken
<1>. SUFFICES ASSUME PlainText, Token(text, lexer).type = "IDENTIFIER"
              PROVE  LET rest == RestOfLine(text, Peek(text, lexer))
                     IN  (StatementAt(text, lexer).what.kind = "label") <=> (rest[Len(rest)] = "COLON")
  BY DEF LabelsByToken
<1>. DEFINE l == Peek(text, lexer)
            x == RestFrom(text)[l.position]
            t == l.token.type
<1>1. IsText(text) /\ IsPlain(text)
  BY TextFacts DEF PlainText, IsPlain
<1>2. l \in Looked(text)
  BY <1>1, LexersLook DEF TextInv
<1>3. l.position \in 0 .. Len(text) /\ t = "IDENTIFIER"
  BY <1>1, <1>2, LookedFacts DEF Token
<1>4. RestOfLine(text, l) = <<t>> \o x
  <2>1. ~LineEnds(l)
    BY <1>3 DEF LineEnds
  <2>. QED
    BY <2>1 DEF RestOfLine, RestFrom
<1>5. x \in Seq(TokenTypes(text))
  BY <1>1, <1>3, RestFound
<1>6. Agree(text, l.position)
  BY <1>1, <1>3, TestsAgree
<1>7. (StatementAt(text, lexer).what.kind = "label") <=> EndsWithColon(text, l.position)
  <2>1. EndsWithColon(text, l.position) =>
           StatementAt(text, lexer).what = [kind |-> "label", name |-> l.token.word]
    BY <1>3 DEF StatementAt, StatementFrom, Read
  <2>2. ~EndsWithColon(text, l.position) =>
           StatementAt(text, lexer) \in {ConstantAt(text, l), InstructionAt(text, l)}
    BY <1>3 DEF StatementAt, StatementFrom
  <2>3. ConstantAt(text, l).what.kind # "label" /\ InstructionAt(text, l).what.kind # "label"
    BY <1>1, <1>2, ConstantKeeps, InstructionKeeps
  <2>. QED
    BY <2>1, <2>2, <2>3
<1>. HIDE DEF l, t, x
<1>8. /\ x = <<>> => Last(<<t>> \o x) = t
      /\ x # <<>> => Last(<<t>> \o x) = Last(x)
  <2>. DEFINE T == TokenTypes(text) \union {t}
  <2>1. x \in Seq(T) /\ t \in T
    BY <1>5
  <2>. HIDE DEF T
  <2>2. Len(x) \in Nat /\ Len(<<t>> \o x) = 1 + Len(x)
    BY <2>1
  <2>3. x = <<>> => (<<t>> \o x)[1] = t /\ Len(x) = 0
    BY <2>1
  <2>4. x # <<>> => Len(x) \in 1 .. Len(x) /\ (<<t>> \o x)[1 + Len(x)] = x[Len(x)]
    BY <2>1
  <2>. QED
    BY <2>2, <2>3, <2>4 DEF Last
<1>9. Blanks(text, l.position) => ~EndsWithColon(text, l.position)
  BY DEF Blanks, EndsWithColon
<1>10. (Last(<<t>> \o x) = "COLON") <=> EndsWithColon(text, l.position)
  BY <1>3, <1>6, <1>8, <1>9 DEF Agree, x
<1>. QED
  BY <1>4, <1>7, <1>10 DEF l, Last

----------------------------------------------------------------------------
(* The arguments.  While neither --symbol-file nor --search-dir was read,  *)
(* what main collects from the arguments taken is what was taken for names *)

Given == {argv[k] : k \in 1 .. Len(argv)}

OptionRecord ==
    [start : Word, count : Word, symbols : BOOLEAN, custom : Seq({a.dir : a \in Given}),
     filename : Given \union {Absent}, symbol_file : Given \union {Absent}]

\* What main's loop makes of each argument, and what is listed for names.
Pieces ==
    [k \in 1 .. Len(argv) |-> IF argv[k].dash \/ Skipped[k] THEN <<>> ELSE <<argv[k].hex>>]

Hexes(ns) == [k \in DOMAIN ns |-> ns[k].hex]

\* No option was read whose value main's loop does not know of.
OnlySkipped == options.symbol_file = Absent /\ options.custom = <<>>

Collected ==
    OnlySkipped =>
        /\ taken < Len(argv) => ~Skipped[taken + 1]
        /\ \A F \in [0 .. Len(argv) -> Seq(Word)] :
              Concatenates(F, Pieces) => F[taken] = Hexes(names)

\* The arguments are read before anything else is done.
AfterArguments == {"file", "words", "source", "window", "listing"}

ArgumentsTyped ==
    /\ Len(argv) \in Nat /\ \A k \in 1 .. Len(argv) : IsArgument(argv[k])
    /\ taken \in 0 .. Len(argv)
    /\ options \in OptionRecord
    /\ names \in Seq(Given)

ArgumentsInv ==
    /\ ArgumentsTyped
    /\ tool = "idle" => taken = 0 /\ options = DefaultOptions /\ names = <<>>
    /\ tool \in AfterArguments => taken = Len(argv)
    /\ Collected

\* The recursion over the arguments has a solution.
SkippedIn(a) ==
    CHOOSE f : f = [k \in 0 .. Len(a) |-> k > 1 /\ a[k - 1].text \in SkippedOptions /\ ~f[k - 1]]

LEMMA SkippedSolved ==
    ASSUME NEW a, Len(a) \in Nat
    PROVE  /\ SkippedIn(a) \in [0 .. Len(a) -> BOOLEAN]
           /\ \A k \in 0 .. Len(a) :
                 SkippedIn(a)[k] = (k > 1 /\ a[k - 1].text \in SkippedOptions /\ ~SkippedIn(a)[k - 1])
<1>. DEFINE n == Len(a)
            after(b, k) == k > 1 /\ a[k - 1].text \in SkippedOptions /\ ~b
            h == [k \in 1 .. n |-> [b \in BOOLEAN |-> after(b, k)]]
            Solution(f) == f = [k \in 0 .. n |-> k > 1 /\ a[k - 1].text \in SkippedOptions /\ ~f[k - 1]]
<1>1. h \in [1 .. n -> [BOOLEAN -> BOOLEAN]]
  OBVIOUS
<1>2. \A k \in 1 .. n : \A b \in BOOLEAN : h[k][b] = after(b, k)
  OBVIOUS
<1>. HIDE DEF h
<1>3. PICK f \in [0 .. n -> BOOLEAN] : Recursion(f, FALSE, h, n)
  BY <1>1, RecursionExists
<1>4. \A k \in 0 .. n : f[k] = (k > 1 /\ a[k - 1].text \in SkippedOptions /\ ~f[k - 1])
  <2>1. f[0] = FALSE /\ \A k \in 1 .. n : f[k] = h[k][f[k - 1]] /\ f[k - 1] \in BOOLEAN
    BY <1>3 DEF Recursion
  <2>2. \A k \in 0 .. n : k = 0 \/ k \in 1 .. n
    OBVIOUS
  <2>3. \A k \in 1 .. n : f[k] = after(f[k - 1], k)
    BY <1>2, <2>1
  <2>. QED
    BY <2>1, <2>2, <2>3
<1>5. Solution(f)
  BY <1>4
<1>6. Solution(SkippedIn(a))
  BY <1>5 DEF SkippedIn
<1>7. \A k \in 0 .. n :
         SkippedIn(a)[k] = (k > 1 /\ a[k - 1].text \in SkippedOptions /\ ~SkippedIn(a)[k - 1])
  BY <1>6
<1>8. SkippedIn(a) \in [0 .. n -> BOOLEAN]
  BY <1>6
<1>. QED
  BY <1>7, <1>8

LEMMA SkippedValues ==
    ASSUME Len(argv) \in Nat
    PROVE  /\ Skipped \in [0 .. Len(argv) -> BOOLEAN]
           /\ \A k \in 0 .. Len(argv) :
                 Skipped[k] = (k > 1 /\ argv[k - 1].text \in SkippedOptions /\ ~Skipped[k - 1])
<1>1. Skipped = SkippedIn(argv)
  BY DEF Skipped, SkippedIn
<1>. QED
  BY <1>1, SkippedSolved

\* What main's loop makes of the arguments is what it collects.
LEMMA WordsCollected ==
    ASSUME Len(argv) \in Nat, \A k \in 1 .. Len(argv) : IsArgument(argv[k])
    PROVE  /\ Pieces \in Seq(Seq(Word)) /\ Len(Pieces) = Len(argv)
           /\ \E F \in [0 .. Len(argv) -> Seq(Word)] :
                 Concatenates(F, Pieces) /\ Words = F[Len(argv)]
<1>1. Pieces \in Seq(Seq(Word)) /\ Len(Pieces) = Len(argv)
  <2>1. \A k \in 1 .. Len(argv) : argv[k].hex \in Word
    BY DEF IsArgument
  <2>. QED
    BY <2>1 DEF Pieces
<1>2. Words = Sequence!FlattenSeq(Pieces)
  BY DEF Words, Pieces
<1>. QED
  BY <1>1, <1>2, Concatenation

\* The values of an argument.
LEMMA GivenArgument ==
    ASSUME ArgumentsTyped, NEW k \in 1 .. Len(argv)
    PROVE  /\ IsArgument(argv[k]) /\ argv[k] \in Given /\ argv[k].dash \in BOOLEAN
           /\ argv[k].hex \in Word /\ argv[k].decimal \in Word
           /\ argv[k].text \in Valued \union {"-h", "-S"} => argv[k].dash
           /\ argv[k] # Absent
  BY DEF ArgumentsTyped, IsArgument, Given

\* Steps that read no argument.
LEMMA ArgumentsKept ==
    ASSUME ArgumentsInv, UNCHANGED <<argv, taken, options, names>>,
           tool' # "idle" \/ tool = "idle",
           tool' \in AfterArguments => tool \in AfterArguments \/ taken = Len(argv)
    PROVE  ArgumentsInv'
<1>1. ArgumentsTyped'
  BY DEF ArgumentsInv, ArgumentsTyped, OptionRecord, Given
<1>2. Collected'
  BY DEF ArgumentsInv, Collected, OnlySkipped, Pieces, Skipped, Hexes
<1>. QED
  BY <1>1, <1>2 DEF ArgumentsInv

\* Steps that read an option and its value, if it has one.
LEMMA OptionTaken ==
    ASSUME ArgumentsInv, AtArgument, NEW n \in {1, 2}, taken + n <= Len(argv),
           NEW o \in OptionRecord, Take(n, o),
           OnlySkipped' =>
              /\ OnlySkipped /\ Argument.dash
              /\ IF n = 1 THEN Argument.text \notin SkippedOptions ELSE Argument.text \in SkippedOptions
    PROVE  ArgumentsInv'
<1>1. /\ Len(argv) \in Nat /\ taken \in 0 .. Len(argv) /\ taken < Len(argv) /\ tool = "arguments"
      /\ UNCHANGED <<tool, argv, names>> /\ taken' = taken + n /\ options' = o
  BY DEF ArgumentsInv, ArgumentsTyped, AtArgument, Take
<1>2. ArgumentsTyped'
  BY <1>1 DEF ArgumentsInv, ArgumentsTyped, OptionRecord, Given
<1>3. Pieces' = Pieces /\ Skipped' = Skipped /\ Hexes(names)' = Hexes(names)
  BY <1>1 DEF Pieces, Skipped, Hexes
<1>4. ASSUME OnlySkipped' PROVE (taken < Len(argv))' => ~Skipped'[taken' + 1]
  <2>1. ~Skipped[taken + 1]
    BY <1>1, <1>4 DEF ArgumentsInv, Collected
  <2>2. \A k \in 0 .. Len(argv) :
           Skipped[k] = (k > 1 /\ argv[k - 1].text \in SkippedOptions /\ ~Skipped[k - 1])
    BY <1>1, SkippedValues
  <2>3. taken + 2 \in 0 .. Len(argv) =>
           Skipped[taken + 2] = (argv[taken + 1].text \in SkippedOptions)
    <3>1. (taken + 2) - 1 = taken + 1 /\ taken + 2 > 1
      BY <1>1
    <3>. QED
      BY <2>1, <2>2, <3>1
  <2>4. taken + 3 \in 0 .. Len(argv) =>
           Skipped[taken + 3] = (argv[taken + 2].text \in SkippedOptions /\ ~Skipped[taken + 2])
    <3>1. (taken + 3) - 1 = taken + 2 /\ taken + 3 > 1
      BY <1>1
    <3>. QED
      BY <2>2, <3>1
  <2>5. CASE n = 1
    <3>1. taken' + 1 = taken + 2
      BY <1>1, <2>5
    <3>2. taken + 2 \in 0 .. Len(argv) \/ ~(taken < Len(argv))'
      BY <1>1, <2>5
    <3>. QED
      BY <1>3, <1>4, <2>3, <2>5, <3>1, <3>2 DEF Argument
  <2>6. CASE n = 2
    <3>1. taken' + 1 = taken + 3 /\ taken + 2 \in 0 .. Len(argv)
      BY <1>1, <2>6
    <3>2. taken + 3 \in 0 .. Len(argv) \/ ~(taken < Len(argv))'
      BY <1>1, <2>6
    <3>. QED
      BY <1>3, <1>4, <2>3, <2>4, <2>6, <3>1, <3>2 DEF Argument
  <2>. QED
    BY <2>5, <2>6
<1>5. ASSUME OnlySkipped', NEW F \in [0 .. Len(argv) -> Seq(Word)], Concatenates(F, Pieces)
      PROVE  F[taken'] = Hexes(names)
  <2>1. /\ ~Skipped[taken + 1] /\ F[taken] = Hexes(names)
    BY <1>1, <1>5 DEF ArgumentsInv, Collected
  <2>2. \A k \in 1 .. Len(argv) : F[k] = F[k - 1] \o Pieces[k]
    <3>1. Len(Pieces) = Len(argv)
      BY <1>1, WordsCollected DEF ArgumentsInv, ArgumentsTyped
    <3>. QED
      BY <1>5, <3>1 DEF Concatenates
  <2>3. \A q \in Seq(Word) : q \o <<>> = q
    OBVIOUS
  <2>4. F[taken + 1] = F[taken]
    <3>1. taken + 1 \in 1 .. Len(argv) /\ (taken + 1) - 1 = taken
      BY <1>1
    <3>2. Pieces[taken + 1] = <<>>
      BY <1>5, <3>1 DEF Pieces, Argument
    <3>. QED
      BY <1>1, <2>2, <2>3, <3>1, <3>2
  <2>5. ASSUME n = 2 PROVE F[taken + 2] = F[taken + 1]
    <3>1. /\ taken + 2 \in 1 .. Len(argv) /\ (taken + 2) - 1 = taken + 1 /\ taken + 2 > 1
          /\ taken + 2 \in 0 .. Len(argv) /\ taken + 1 \in 0 .. Len(argv)
      BY <1>1, <2>5
    <3>2. Skipped[taken + 2] = (argv[taken + 1].text \in SkippedOptions /\ ~Skipped[taken + 1])
      BY <1>1, <3>1, SkippedValues
    <3>3. Skipped[taken + 2]
      <4>1. argv[taken + 1].text \in SkippedOptions
        BY <1>5, <2>5 DEF Argument
      <4>2. Skipped[taken + 2] = TRUE
        BY <2>1, <3>2, <4>1
      <4>. QED
        BY <4>2
    <3>4. Pieces[taken + 2] = <<>>
      BY <3>1, <3>3 DEF Pieces
    <3>. QED
      BY <2>2, <2>3, <3>1, <3>4
  <2>. QED
    BY <1>1, <2>1, <2>4, <2>5
<1>6. Collected'
  BY <1>1, <1>3, <1>4, <1>5 DEF Collected
<1>. QED
  BY <1>1, <1>2, <1>6 DEF ArgumentsInv, AfterArguments
\* Steps that read a name.
LEMMA NameTaken == ASSUME ArgumentsInv, ReadName PROVE ArgumentsInv'
<1>1. /\ Len(argv) \in Nat /\ taken \in 0 .. Len(argv) /\ taken < Len(argv) /\ tool = "arguments"
      /\ UNCHANGED <<tool, argv>> /\ taken' = taken + 1 /\ names' = Append(names, Argument)
      /\ taken + 1 \in 1 .. Len(argv) /\ (taken + 1) - 1 = taken
  BY DEF ArgumentsInv, ArgumentsTyped, AtArgument, ReadName
<1>2. Argument \in Given /\ ~Argument.dash /\ Argument.text \notin Valued
  BY <1>1, GivenArgument DEF ArgumentsInv, Argument, ReadName
<1>3. /\ options' \in OptionRecord /\ OnlySkipped' = OnlySkipped
  <2>1. options \in OptionRecord
    BY DEF ArgumentsInv, ArgumentsTyped
  <2>2. \/ options' = options
        \/ options' = [options EXCEPT !.filename = Argument]
    BY DEF ReadName
  <2>. QED
    BY <1>2, <2>1, <2>2 DEF OptionRecord, OnlySkipped
<1>4. ArgumentsTyped'
  <2>1. Given' = Given /\ OptionRecord' = OptionRecord
    BY <1>1 DEF Given, OptionRecord
  <2>2. names' \in Seq(Given)
    BY <1>1, <1>2 DEF ArgumentsInv, ArgumentsTyped
  <2>3. taken' \in 0 .. Len(argv)
    BY <1>1
  <2>. QED
    BY <1>1, <1>3, <2>1, <2>2, <2>3 DEF ArgumentsInv, ArgumentsTyped
<1>5. Pieces' = Pieces /\ Skipped' = Skipped
  BY <1>1 DEF Pieces, Skipped
<1>6. (taken < Len(argv))' => ~Skipped'[taken' + 1]
  <2>1. taken + 2 \in 0 .. Len(argv) =>
           Skipped[taken + 2] = (argv[taken + 1].text \in SkippedOptions /\ ~Skipped[taken + 1])
    <3>1. (taken + 2) - 1 = taken + 1 /\ taken + 2 > 1
      BY <1>1
    <3>. QED
      BY <1>1, <3>1, SkippedValues
  <2>2. taken' + 1 = taken + 2 /\ (taken + 2 \in 0 .. Len(argv) \/ ~(taken < Len(argv))')
    BY <1>1
  <2>3. argv[taken + 1].text \notin SkippedOptions
    BY <1>2 DEF Argument, SkippedOptions, Valued
  <2>. QED
    BY <1>5, <2>1, <2>2, <2>3
<1>7. Hexes(names)' = Append(Hexes(names), Argument.hex)
  <2>1. names \in Seq(Given) /\ Len(names) \in Nat
    BY DEF ArgumentsInv, ArgumentsTyped
  <2>2. Hexes(Append(names, Argument)) = Append(Hexes(names), Argument.hex)
    BY <1>2, <2>1 DEF Hexes
  <2>. QED
    BY <1>1, <2>2 DEF Hexes
<1>8. ASSUME OnlySkipped', NEW F \in [0 .. Len(argv) -> Seq(Word)], Concatenates(F, Pieces)
      PROVE  F[taken'] = Hexes(names)'
  <2>1. ~Skipped[taken + 1] /\ F[taken] = Hexes(names)
    BY <1>1, <1>3, <1>8 DEF ArgumentsInv, Collected
  <2>2. F[taken + 1] = F[taken] \o Pieces[taken + 1]
    <3>1. Len(Pieces) = Len(argv)
      BY <1>1, WordsCollected DEF ArgumentsInv, ArgumentsTyped
    <3>. QED
      BY <1>1, <1>8, <3>1 DEF Concatenates
  <2>3. Pieces[taken + 1] = <<Argument.hex>>
    BY <1>1, <1>2, <2>1 DEF Pieces, Argument
  <2>4. Argument.hex \in Word /\ F[taken] \in Seq(Word)
    BY <1>1, GivenArgument DEF ArgumentsInv, Argument
  <2>5. \A q \in Seq(Word), w \in Word : q \o <<w>> = Append(q, w)
    OBVIOUS
  <2>. QED
    BY <1>1, <1>7, <2>1, <2>2, <2>3, <2>4, <2>5
<1>9. Collected'
  BY <1>1, <1>5, <1>6, <1>8 DEF Collected
<1>. QED
  BY <1>1, <1>4, <1>9 DEF ArgumentsInv, AfterArguments

\* Every step of parse_arguments, and main's decision after it.
LEMMA ReadArgumentsOK == ASSUME ArgumentsInv, ReadArguments PROVE ArgumentsInv'
<1>1. /\ options \in OptionRecord /\ Len(argv) \in Nat /\ taken \in 0 .. Len(argv)
  BY DEF ArgumentsInv, ArgumentsTyped
<1>2. AtArgument => taken + 1 \in 1 .. Len(argv) /\ taken + 1 <= Len(argv) /\ tool = "arguments"
  BY <1>1 DEF AtArgument
<1>3. HasValue => taken + 2 \in 1 .. Len(argv) /\ taken + 2 <= Len(argv)
  BY <1>1 DEF HasValue
<1>4. AtArgument /\ Argument.text \in Valued \union {"-h", "-S"} => Argument.dash
  BY <1>2, GivenArgument DEF ArgumentsInv, Argument
<1>5. HasValue => /\ Value \in Given /\ Value.hex \in Word /\ Value.decimal \in Word
                  /\ Value # Absent
  BY <1>3, GivenArgument DEF ArgumentsInv, Value
<1>6. ASSUME Stop("helped") \/ Stop("refused"), tool = "arguments" PROVE ArgumentsInv'
  BY <1>6, ArgumentsKept DEF Stop, AfterArguments
<1>7. CASE ShowHelp \/ ValueMissing
  BY <1>2, <1>6, <1>7 DEF ShowHelp, ValueMissing, AtOption
<1>8. CASE ReadFormat
  <2>1. AtArgument /\ Argument.text = "-f" /\ HasValue
    BY <1>8 DEF ReadFormat, AtOption
  <2>2. CASE Stop("refused")
    BY <1>2, <1>6, <2>1, <2>2
  <2>3. CASE Take(2, options)
    <3>1. OnlySkipped' => OnlySkipped
      BY <2>3 DEF Take, OnlySkipped
    <3>2. Argument.dash /\ Argument.text \in SkippedOptions
      BY <1>4, <2>1 DEF Valued, SkippedOptions
    <3>. QED
      BY <1>1, <1>3, <2>1, <2>3, <3>1, <3>2, OptionTaken
  <2>. QED
    BY <1>8, <2>2, <2>3 DEF ReadFormat
<1>9. CASE ReadStart \/ ReadCount
  <2>1. AtArgument /\ Argument.text \in {"-s", "-c"} /\ HasValue
    BY <1>9 DEF ReadStart, ReadCount, AtOption
  <2>2. PICK o \in OptionRecord : /\ Take(2, o) /\ o.symbol_file = options.symbol_file
                                  /\ o.custom = options.custom
    <3>1. /\ [options EXCEPT !.start = Value.hex] \in OptionRecord
          /\ [options EXCEPT !.count = Value.decimal] \in OptionRecord
      BY <1>1, <1>5, <2>1 DEF OptionRecord
    <3>. QED
      BY <1>1, <1>9, <3>1 DEF ReadStart, ReadCount, OptionRecord
  <2>3. OnlySkipped' => OnlySkipped
    BY <2>2 DEF Take, OnlySkipped
  <2>4. Argument.dash /\ Argument.text \in SkippedOptions
    BY <1>4, <2>1 DEF Valued, SkippedOptions
  <2>. QED
    BY <1>3, <2>1, <2>2, <2>3, <2>4, OptionTaken
<1>10. CASE ReadSymbolFile
  <2>1. AtArgument /\ HasValue /\ Take(2, [options EXCEPT !.symbol_file = Value])
    BY <1>10 DEF ReadSymbolFile, AtOption
  <2>2. [options EXCEPT !.symbol_file = Value] \in OptionRecord
    BY <1>1, <1>5, <2>1 DEF OptionRecord
  <2>3. ~OnlySkipped'
    BY <1>1, <1>5, <2>1 DEF Take, OnlySkipped, OptionRecord
  <2>. QED
    BY <1>3, <2>1, <2>2, <2>3, OptionTaken
<1>11. CASE ReadSearchDir
  <2>1. AtArgument /\ HasValue
    BY <1>11 DEF ReadSearchDir, AtOption
  <2>2. CASE Stop("refused")
    BY <1>2, <1>6, <2>1, <2>2
  <2>3. CASE Take(2, [options EXCEPT !.custom = Append(@, Value.dir)])
    <3>1. options.custom \in Seq({a.dir : a \in Given}) /\ Value.dir \in {a.dir : a \in Given}
      BY <1>1, <1>5, <2>1 DEF OptionRecord
    <3>2. /\ Append(options.custom, Value.dir) \in Seq({a.dir : a \in Given})
          /\ Append(options.custom, Value.dir) # <<>>
      BY <3>1
    <3>3. [options EXCEPT !.custom = Append(@, Value.dir)] \in OptionRecord
      BY <1>1, <3>2 DEF OptionRecord
    <3>4. ~OnlySkipped'
      BY <1>1, <2>3, <3>2 DEF Take, OnlySkipped, OptionRecord
    <3>. QED
      BY <1>3, <2>1, <2>3, <3>3, <3>4, OptionTaken
  <2>. QED
    BY <1>11, <2>2, <2>3 DEF ReadSearchDir
<1>12. CASE ReadSymbols \/ ReadOther
  <2>1. AtArgument /\ Argument.dash /\ Argument.text \notin SkippedOptions
    BY <1>4, <1>12 DEF ReadSymbols, ReadOther, AtOption, Valued, SkippedOptions
  <2>2. PICK o \in OptionRecord : /\ Take(1, o) /\ o.symbol_file = options.symbol_file
                                  /\ o.custom = options.custom
    <3>1. [options EXCEPT !.symbols = TRUE] \in OptionRecord
      BY <1>1 DEF OptionRecord
    <3>. QED
      BY <1>1, <1>12, <3>1 DEF ReadSymbols, ReadOther, OptionRecord
  <2>3. OnlySkipped' => OnlySkipped
    BY <2>2 DEF Take, OnlySkipped
  <2>. QED
    BY <1>2, <2>1, <2>2, <2>3, OptionTaken
<1>13. CASE ReadName
  BY <1>13, NameTaken
<1>14. CASE ArgumentsRead
  BY <1>14, ArgumentsKept DEF ArgumentsRead, Stop
<1>. QED
  BY <1>7, <1>8, <1>9, <1>10, <1>11, <1>12, <1>13, <1>14 DEF ReadArguments
\* The tool is given an invocation.
Invoked == \E d \in Documents : text = d.text

LEMMA StartToolOK == ASSUME ArgumentsInv, Invoked, StartTool PROVE ArgumentsInv' /\ NotFound \notin holders'
<1>1. PICK v \in Invocations(text) : argv' = v.argv /\ holders' = v.holders
  BY DEF StartTool
<1>2. IsInvocation(v)
  BY ListingAssumption DEF Invoked
<1>3. /\ taken' = 0 /\ options' = DefaultOptions /\ names' = <<>> /\ tool' = "arguments"
  BY DEF ArgumentsInv, StartTool
<1>4. Len(argv') \in Nat /\ \A k \in 1 .. Len(argv') : IsArgument(argv'[k])
  BY <1>1, <1>2 DEF IsInvocation
<1>5. DefaultOptions \in OptionRecord'
  BY WordFacts DEF DefaultOptions, OptionRecord
<1>6. ArgumentsTyped'
  BY <1>3, <1>4, <1>5 DEF ArgumentsTyped
<1>7. (taken < Len(argv))' => ~Skipped'[taken' + 1]
  <2>1. Skipped' = SkippedIn(argv')
    BY DEF Skipped, SkippedIn
  <2>2. \A k \in 0 .. Len(argv') :
           Skipped'[k] = (k > 1 /\ argv'[k - 1].text \in SkippedOptions /\ ~Skipped'[k - 1])
    BY <1>4, <2>1, SkippedSolved
  <2>3. ASSUME 1 \in 0 .. Len(argv') PROVE ~Skipped'[1]
    <3>1. ~(1 > 1)
      OBVIOUS
    <3>. QED
      BY <2>2, <2>3, <3>1
  <2>. QED
    BY <1>3, <1>4, <2>3
<1>8. Hexes(names') = <<>>
  BY <1>3 DEF Hexes
<1>9. Collected'
  BY <1>3, <1>7, <1>8 DEF Collected, Concatenates, Hexes
<1>. QED
  BY <1>1, <1>2, <1>3, <1>6, <1>9 DEF ArgumentsInv, AfterArguments, IsInvocation
----------------------------------------------------------------------------
(* The search for a source. *)

SearchInv ==
    /\ NotFound \notin holders
    /\ tool \in {"source", "window", "listing"} /\ Searched # Absent => found = FoundDir

\* The directories the rounds of the search add.
Climbed(dir) == Sequence!FlattenSeq([i \in Rounds |-> RoundDirs(dir, i)])

\* The directories a search is made of are sequences.
LEMMA PathParts ==
    ASSUME ArgumentsTyped, NEW dir
    PROVE  /\ SearchPath(dir) = ((<<dir>> \o options.custom) \o Climbed(dir)) \o Here
           /\ \E S : {<<dir>>, options.custom, Climbed(dir), Here} \subseteq Seq(S)
<1>. DEFINE C == options.custom
            Q == [i \in Rounds |-> RoundDirs(dir, i)]
            A == {Append(RoundDir(dir, i), SourceDirs[i]) : i \in Rounds}
            B == {<<SourceDirs[i]>> : i \in Rounds}
            F == Sequence!FlattenSeq(Q)
            S == {dir} \union {a.dir : a \in Given} \union A \union B \union {<<>>}
<1>1. Rounds = 1 .. 8 /\ Len(SourceDirs) = 8
  BY DEF Rounds, SourceDirs
<1>2. C \in Seq({a.dir : a \in Given})
  BY DEF ArgumentsTyped, OptionRecord
<1>3. ASSUME NEW i \in Rounds PROVE RoundDirs(dir, i) \in Seq(A \union B)
  <2>. DEFINE a == Append(RoundDir(dir, i), SourceDirs[i])
              b == <<SourceDirs[i]>>
  <2>1. a \in A \union B /\ b \in A \union B
    OBVIOUS
  <2>2. \/ RoundDirs(dir, i) = <<a>> \o <<b>>
        \/ RoundDirs(dir, i) = <<a>> \o <<>>
    BY DEF RoundDirs
  <2>. HIDE DEF a, b
  <2>. DEFINE T == A \union B
  <2>3. a \in T /\ b \in T
    BY <2>1
  <2>. HIDE DEF T
  <2>4. <<a>> \in Seq(T) /\ <<b>> \in Seq(T) /\ <<>> \in Seq(T)
    BY <2>3
  <2>5. \A x, y \in Seq(T) : x \o y \in Seq(T)
    OBVIOUS
  <2>6. RoundDirs(dir, i) \in Seq(T)
    BY <2>2, <2>4, <2>5
  <2>. QED
    BY <2>6 DEF T
<1>4. Q \in Seq(Seq(A \union B))
  BY <1>1, <1>3
<1>5. F \in Seq(A \union B)
  <2>. HIDE DEF Q, A, B
  <2>. QED
    BY <1>4, FlattenTyped
<1>6. Here \in Seq(B \union {<<>>})
  <2>1. [i \in Rounds |-> <<SourceDirs[i]>>] \in Seq(B)
    BY <1>1
  <2>. HIDE DEF B
  <2>. QED
    BY <2>1 DEF Here
<1>7. {<<dir>>, C, F, Here} \subseteq Seq(S)
  <2>1. /\ dir \in S /\ {a.dir : a \in Given} \subseteq S
        /\ A \union B \subseteq S /\ B \union {<<>>} \subseteq S
    OBVIOUS
  <2>. HIDE DEF S, F, A, B
  <2>. QED
    BY <1>2, <1>5, <1>6, <2>1
<1>8. SearchPath(dir) = ((<<dir>> \o C) \o F) \o Here
  BY DEF SearchPath
<1>9. F = Climbed(dir)
  BY DEF Climbed
<1>. HIDE DEF S, F
<1>. QED
  BY <1>7, <1>8, <1>9
\* The least element of a set of positions.
LEMMA LeastIndex ==
    ASSUME NEW S, S \subseteq Nat, S # {}
    PROVE  Set!Min(S) \in S /\ \A x \in S : Set!Min(S) <= x
<1>1. \E x \in S : \A y \in S : x <= y
  BY LeastElement
<1>. QED
  BY <1>1 DEF Set!Min

\* The parts of a path.
LEMMA FourParts ==
    ASSUME NEW S, NEW d \in S, NEW C \in Seq(S), NEW F \in Seq(S), NEW H \in Seq(S),
           NEW path, path = ((<<d>> \o C) \o F) \o H
    PROVE  /\ DOMAIN path = 1 .. Len(path) /\ Len(path) \in Nat
           /\ Len(path) = ((1 + Len(C)) + Len(F)) + Len(H)
           /\ DOMAIN C = 1 .. Len(C) /\ Len(C) \in Nat /\ Len(F) \in Nat /\ Len(H) \in Nat
           /\ DOMAIN H = 1 .. Len(H)
           /\ path[1] = d
           /\ \A k \in 1 .. Len(C) : path[1 + k] = C[k]
           /\ \A k \in 1 .. Len(H) : path[((1 + Len(C)) + Len(F)) + k] = H[k]
<1>1. Len(C) \in Nat /\ Len(F) \in Nat /\ Len(H) \in Nat
  OBVIOUS
<1>2. PICK B : B = <<d>> \o C
  OBVIOUS
<1>3. B \in Seq(S) /\ Len(B) = 1 + Len(C) /\ B[1] = d /\ \A k \in 1 .. Len(C) : B[1 + k] = C[k]
  BY <1>2
<1>4. PICK E : E = B \o F
  OBVIOUS
<1>5. E \in Seq(S) /\ Len(E) = Len(B) + Len(F) /\ \A x \in 1 .. Len(B) : E[x] = B[x]
  <2>1. B \in Seq(S)
    BY <1>3
  <2>2. /\ B \o F \in Seq(S) /\ Len(B \o F) = Len(B) + Len(F)
        /\ \A x \in 1 .. Len(B) : (B \o F)[x] = B[x]
    BY <2>1
  <2>. QED
    BY <1>4, <2>2
<1>6. path = E \o H
  BY <1>2, <1>4
<1>7. /\ path \in Seq(S) /\ Len(path) = Len(E) + Len(H)
      /\ \A x \in 1 .. Len(E) : path[x] = E[x]
      /\ \A x \in 1 .. Len(H) : path[Len(E) + x] = H[x]
  <2>1. E \in Seq(S)
    BY <1>5
  <2>2. /\ E \o H \in Seq(S) /\ Len(E \o H) = Len(E) + Len(H)
        /\ \A x \in 1 .. Len(E) : (E \o H)[x] = E[x]
        /\ \A x \in 1 .. Len(H) : (E \o H)[Len(E) + x] = H[x]
    BY <2>1
  <2>. QED
    BY <1>6, <2>2
<1>8. /\ 1 \in 1 .. Len(B) /\ 1 \in 1 .. Len(E)
      /\ \A k \in 1 .. Len(C) : 1 + k \in 1 .. Len(B) /\ 1 + k \in 1 .. Len(E)
  BY <1>1, <1>3, <1>5
<1>9. path[1] = d /\ \A k \in 1 .. Len(C) : path[1 + k] = C[k]
  BY <1>3, <1>5, <1>7, <1>8
<1>. QED
  BY <1>1, <1>3, <1>5, <1>7, <1>9

\* The directory found is one on the path, and the first that holds the source.
LEMMA FoundFirst ==
    ASSUME ArgumentsTyped, SearchInv,
           Searched # Absent, tool \in {"source", "window", "listing"}
    PROVE  SearchOutcome
<1>. DEFINE dir  == Searched.dir
            D    == <<dir>>
            C    == options.custom
            F    == Climbed(dir)
            path == SearchPath(dir)
            hits == {k \in DOMAIN path : path[k] \in holders}
            held == {k \in DOMAIN C : C[k] \in holders}
            m    == Set!Min(hits)
<1>1. found = IF hits = {} THEN NotFound ELSE path[m]
  BY DEF SearchInv, FoundDir
<1>2. path = ((D \o C) \o F) \o Here /\ \E S : {D, C, F, Here} \subseteq Seq(S)
  BY PathParts
<1>3. /\ DOMAIN path = 1 .. Len(path) /\ Len(path) \in Nat
      /\ Len(path) = ((1 + Len(C)) + Len(F)) + Len(Here)
      /\ DOMAIN C = 1 .. Len(C) /\ Len(C) \in Nat /\ Len(F) \in Nat /\ Len(Here) \in Nat
      /\ DOMAIN Here = 1 .. Len(Here)
      /\ path[1] = dir
      /\ \A k \in 1 .. Len(C) : path[1 + k] = C[k]
      /\ \A k \in 1 .. Len(Here) : path[((1 + Len(C)) + Len(F)) + k] = Here[k]
  <2>. HIDE DEF path, C, F
  <2>1. PICK S : D \in Seq(S) /\ C \in Seq(S) /\ F \in Seq(S) /\ Here \in Seq(S)
    BY <1>2
  <2>2. path = ((D \o C) \o F) \o Here /\ dir \in S
    BY <1>2, <2>1
  <2>. HIDE DEF dir
  <2>. QED
    BY <2>1, <2>2, FourParts
<1>. HIDE DEF path, C, F
<1>4. hits \subseteq Nat /\ held \subseteq Nat
  BY <1>3
<1>5. hits # {} => m \in hits /\ \A x \in hits : m <= x
  BY <1>4, LeastIndex
<1>6. found # NotFound => found \in holders
  BY <1>1, <1>5
<1>7. ASSUME dir \in holders PROVE found = dir
  <2>1. 1 \in hits
    BY <1>3, <1>7
  <2>2. m = 1
    <3>1. m \in hits /\ m <= 1
      BY <1>5, <2>1
    <3>2. \A x \in hits : x \in Nat /\ x >= 1
      BY <1>3
    <3>. HIDE DEF m, hits
    <3>. QED
      BY <3>1, <3>2
  <2>. QED
    BY <1>1, <1>3, <2>1, <2>2
<1>8. ASSUME dir \notin holders, held # {} PROVE found = C[Set!Min(held)]
  <2>. DEFINE h == Set!Min(held)
  <2>1. h \in held /\ \A x \in held : h <= x
    BY <1>4, <1>8, LeastIndex
  <2>. HIDE DEF h
  <2>2. h \in 1 .. Len(C) /\ 1 + h \in hits
    BY <1>3, <2>1
  <2>3. m \in hits /\ m <= 1 + h
    BY <1>5, <2>2
  <2>4. m # 1
    BY <1>3, <1>8, <2>3
  <2>5. m - 1 \in 1 .. Len(C) /\ 1 + (m - 1) = m
    BY <1>3, <2>2, <2>3, <2>4
  <2>6. m - 1 \in held
    BY <1>3, <2>3, <2>5
  <2>7. h <= m - 1
    BY <2>1, <2>6
  <2>8. m = 1 + h
    BY <1>4, <2>2, <2>3, <2>5, <2>7
  <2>9. found = C[h]
    BY <1>1, <1>3, <2>2, <2>8
  <2>. QED
    BY <2>9 DEF h
<1>9. ASSUME holders \intersect Sequence!Range(Here) # {} PROVE found # NotFound
  <2>1. PICK k \in 1 .. Len(Here) : Here[k] \in holders
    BY <1>3, <1>9 DEF Sequence!Range
  <2>2. ((1 + Len(C)) + Len(F)) + k \in hits
    BY <1>3, <2>1
  <2>3. found \in holders
    BY <1>1, <1>5, <2>2
  <2>. QED
    BY <2>3 DEF SearchInv
<1>. QED
  BY <1>6, <1>7, <1>8, <1>9 DEF SearchOutcome, C

----------------------------------------------------------------------------
(* The bytes of a text. *)

\* A text that can be written.
IsWritten(txt) ==
    /\ IsText(txt)
    /\ \A j \in 1 .. Len(txt) :
          /\ Written(txt[j]) \in Seq(Byte) /\ Written(txt[j]) # <<>>
          /\ ~Wordy(txt[j]) => Len(Written(txt[j])) = 1
          /\ \A k \in 1 .. Len(txt) :
                txt[j].is = "word" /\ txt[k].is = "word" /\ Written(txt[j]) = Written(txt[k])
                    => txt[j] = txt[k]

FileOf(txt) == Sequence!FlattenSeq([k \in 1 .. Len(txt) |-> Letters(txt[k])])

\* The kind of the bytes of a character.
ByteKind(c) == IF Wordy(c) THEN "name" ELSE c.is

\* The bytes from O[k - 1] on, up to O[k], are those of the character k.
IsSpelling(txt, O, f) ==
    /\ O \in [0 .. Len(txt) -> Nat] /\ O[0] = 0 /\ O[Len(txt)] = Len(f)
    /\ \A k \in 1 .. Len(txt) :
          /\ O[k] = O[k - 1] + Len(Written(txt[k]))
          /\ \A j \in O[k - 1] + 1 .. O[k] :
                f[j].is = ByteKind(txt[k]) /\ f[j].byte = Written(txt[k])[j - O[k - 1]]

Offsets(txt) == CHOOSE O : IsSpelling(txt, O, FileOf(txt))

LEMMA OffsetsFound == ASSUME NEW txt, IsWritten(txt) PROVE IsSpelling(txt, Offsets(txt), FileOf(txt))
<1>. DEFINE n == Len(txt)
            seqs == [k \in 1 .. n |-> Letters(txt[k])]
            S == [is : Kinds \union {"name"}, byte : Byte]
<1>1. n \in Nat /\ \A k \in 1 .. n : txt[k].is \in Kinds /\ Written(txt[k]) \in Seq(Byte)
  BY DEF IsWritten, IsText
<1>2. ASSUME NEW k \in 1 .. n
      PROVE  /\ Letters(txt[k]) \in Seq(S) /\ Len(Letters(txt[k])) = Len(Written(txt[k]))
             /\ Len(Written(txt[k])) \in Nat
             /\ \A j \in 1 .. Len(Written(txt[k])) :
                   Letters(txt[k])[j] = [is |-> ByteKind(txt[k]), byte |-> Written(txt[k])[j]]
  <2>. DEFINE w == Written(txt[k])
              b == ByteKind(txt[k])
  <2>1. w \in Seq(Byte) /\ b \in Kinds \union {"name"}
    BY <1>1 DEF ByteKind
  <2>2. Letters(txt[k]) = [j \in DOMAIN w |-> [is |-> b, byte |-> w[j]]]
    BY DEF Letters, ByteKind
  <2>. HIDE DEF w, b
  <2>3. DOMAIN w = 1 .. Len(w) /\ Len(w) \in Nat /\ \A j \in 1 .. Len(w) : w[j] \in Byte
    BY <2>1
  <2>4. Letters(txt[k]) = [j \in 1 .. Len(w) |-> [is |-> b, byte |-> w[j]]]
    BY <2>2, <2>3
  <2>5. Letters(txt[k]) \in Seq(S) /\ Len(Letters(txt[k])) = Len(w)
    BY <2>1, <2>3, <2>4
  <2>. QED
    BY <2>3, <2>4, <2>5 DEF w, b
<1>3. seqs \in Seq(Seq(S)) /\ Len(seqs) = n
  <2>. HIDE DEF S
  <2>. QED
    BY <1>1, <1>2
<1>. HIDE DEF S
<1>4. PICK F \in [0 .. n -> Seq(S)] : Concatenates(F, seqs) /\ Sequence!FlattenSeq(seqs) = F[n]
  BY <1>3, Concatenation
<1>. DEFINE f == FileOf(txt)
            O == [k \in 0 .. n |-> Len(F[k])]
<1>5. f = F[n] /\ F[0] = <<>> /\ \A k \in 1 .. n : F[k] = F[k - 1] \o Letters(txt[k])
  <2>1. \A k \in 1 .. n : seqs[k] = Letters(txt[k])
    OBVIOUS
  <2>. QED
    BY <1>3, <1>4, <2>1 DEF Concatenates, FileOf
<1>6. ASSUME NEW k \in 1 .. n PROVE StartsWith(f, F[k])
  <2>1. k \in 0 .. n /\ n \in k .. n
    BY <1>1
  <2>. HIDE DEF seqs, f, n
  <2>2. k \in 0 .. Len(seqs) /\ n \in k .. Len(seqs) /\ F \in [0 .. Len(seqs) -> Seq(S)]
    BY <1>3, <1>4, <2>1
  <2>3. StartsWith(F[n], F[k])
    BY <1>3, <1>4, <2>2, Prefixes
  <2>. QED
    BY <1>5, <2>3
<1>. HIDE DEF f, seqs
<1>7. ASSUME NEW k \in 1 .. n
      PROVE  /\ O[k] = O[k - 1] + Len(Written(txt[k]))
             /\ \A j \in O[k - 1] + 1 .. O[k] :
                   f[j].is = ByteKind(txt[k]) /\ f[j].byte = Written(txt[k])[j - O[k - 1]]
  <2>. DEFINE a == F[k - 1]
              b == Letters(txt[k])
              c == F[k]
              w == Written(txt[k])
  <2>1. k \in 0 .. n /\ k - 1 \in 0 .. n
    BY <1>1
  <2>2. a \in Seq(S) /\ b \in Seq(S) /\ c = a \o b /\ O[k] = Len(c) /\ O[k - 1] = Len(a) /\ Len(b) = Len(w)
    BY <1>2, <1>4, <1>5, <2>1
  <2>3. StartsWith(f, c)
    BY <1>6
  <2>4. \A j \in 1 .. Len(w) : b[j] = [is |-> ByteKind(txt[k]), byte |-> w[j]]
    BY <1>2
  <2>. HIDE DEF a, b, c, w, O
  <2>5. /\ Len(c) = Len(a) + Len(b) /\ Len(a) \in Nat /\ Len(b) \in Nat
        /\ \A x \in 1 .. Len(b) : c[Len(a) + x] = b[x]
    <3>1. a \in Seq(S) /\ b \in Seq(S) /\ c = a \o b
      BY <2>2
    <3>. QED
      BY <3>1, JoinedSequences
  <2>6. ASSUME NEW j \in Len(a) + 1 .. Len(c) PROVE f[j] = b[j - Len(a)] /\ j - Len(a) \in 1 .. Len(w)
    <3>1. j - Len(a) \in 1 .. Len(b) /\ Len(a) + (j - Len(a)) = j /\ j \in 1 .. Len(c)
      BY <2>5
    <3>2. c[j] = b[j - Len(a)]
      BY <2>5, <3>1
    <3>. QED
      BY <2>2, <2>3, <3>1, <3>2 DEF StartsWith
  <2>7. ASSUME NEW j \in Len(a) + 1 .. Len(c) PROVE f[j].is = ByteKind(txt[k]) /\ f[j].byte = w[j - Len(a)]
    <3>1. f[j] = [is |-> ByteKind(txt[k]), byte |-> w[j - Len(a)]]
      BY <2>4, <2>6
    <3>. QED
      BY <3>1
  <2>. QED
    BY <2>2, <2>5, <2>7 DEF w
<1>8. O \in [0 .. n -> Nat] /\ O[0] = 0 /\ O[n] = Len(f)
  <2>1. \A k \in 0 .. n : Len(F[k]) \in Nat
    BY <1>4
  <2>. QED
    BY <1>1, <1>5, <2>1
<1>9. IsSpelling(txt, O, f)
  <2>. HIDE DEF O
  <2>. QED
    BY <1>7, <1>8 DEF IsSpelling
<1>. QED
  BY <1>9 DEF Offsets, f

\* Every byte is one of one character, in the order of these.
LEMMA SpellingFacts ==
    ASSUME NEW txt, IsWritten(txt), NEW O, NEW f, IsSpelling(txt, O, f)
    PROVE  /\ Len(txt) \in Nat /\ Len(f) \in Nat
           /\ \A a, b \in 0 .. Len(txt) : a < b => O[a] < O[b]
           /\ \A k \in 1 .. Len(txt) : ~Wordy(txt[k]) => O[k] = O[k - 1] + 1
           /\ \A j \in 1 .. Len(f) : \E k \in 1 .. Len(txt) : j \in O[k - 1] + 1 .. O[k]
<1>. DEFINE n == Len(txt)
<1>1. /\ n \in Nat /\ O \in [0 .. n -> Nat] /\ O[0] = 0 /\ O[n] = Len(f)
      /\ \A k \in 1 .. n : O[k] = O[k - 1] + Len(Written(txt[k]))
  BY DEF IsSpelling, IsWritten, IsText
<1>. HIDE DEF n
<1>2. ASSUME NEW k \in 1 .. n PROVE Len(Written(txt[k])) \in Nat /\ Len(Written(txt[k])) > 0
  <2>. DEFINE w == Written(txt[k])
  <2>1. w \in Seq(Byte) /\ w # <<>>
    BY DEF IsWritten, n
  <2>. HIDE DEF w
  <2>2. Len(w) \in Nat \ {0}
    BY <2>1, EmptySeq
  <2>. QED
    BY <2>2 DEF w
<1>3. ASSUME NEW k \in 1 .. n PROVE k \in 0 .. n /\ k - 1 \in 0 .. n /\ O[k] \in Nat /\ O[k - 1] \in Nat /\ O[k - 1] < O[k]
  <2>1. k \in 0 .. n /\ k - 1 \in 0 .. n
    BY <1>1
  <2>2. O[k] \in Nat /\ O[k - 1] \in Nat /\ O[k] = O[k - 1] + Len(Written(txt[k]))
    BY <1>1, <2>1
  <2>. QED
    BY <1>2, <2>1, <2>2
<1>4. ASSUME NEW a \in 0 .. n, NEW b \in 0 .. n, a < b PROVE O[a] < O[b]
  <2>. DEFINE Bad == {c \in 0 .. n : a < c /\ ~(O[a] < O[c])}
  <2>. SUFFICES ASSUME Bad # {} PROVE FALSE
    BY <1>4
  <2>1. PICK c \in Bad : \A d \in Bad : c <= d
    <3>1. Bad \in SUBSET Nat
      BY <1>1
    <3>. HIDE DEF Bad
    <3>. QED
      BY <3>1, LeastElement
  <2>2. c \in 1 .. n /\ c - 1 \in 0 .. n /\ a \in Nat /\ a < c /\ c - 1 \notin Bad
    BY <1>1, <2>1
  <2>3. O[c - 1] < O[c] /\ O[a] \in Nat /\ O[c] \in Nat /\ O[c - 1] \in Nat
    BY <1>1, <1>3, <2>2
  <2>4. a = c - 1 \/ O[a] < O[c - 1]
    BY <1>1, <2>2
  <2>. QED
    BY <2>1, <2>3, <2>4
<1>5. ASSUME NEW k \in 1 .. n, ~Wordy(txt[k]) PROVE O[k] = O[k - 1] + 1
  BY <1>1, <1>5 DEF IsWritten, n
<1>6. ASSUME NEW j \in 1 .. Len(f) PROVE \E k \in 1 .. n : j \in O[k - 1] + 1 .. O[k]
  <2>. DEFINE T == {k \in 0 .. n : j <= O[k]}
  <2>1. n \in T /\ T \in SUBSET Nat
    BY <1>1
  <2>2. PICK k \in T : \A d \in T : k <= d
    <3>. HIDE DEF T
    <3>. QED
      BY <2>1, LeastElement
  <2>3. k # 0 /\ k \in 1 .. n
    BY <1>1, <2>2
  <2>4. k - 1 \notin T /\ k - 1 \in 0 .. n
    BY <1>1, <2>2, <2>3
  <2>5. O[k - 1] < j /\ j <= O[k] /\ O[k - 1] \in Nat /\ O[k] \in Nat
    BY <1>1, <1>3, <2>2, <2>3, <2>4
  <2>. QED
    BY <2>3, <2>5
<1>7. Len(f) \in Nat
  BY <1>1
<1>. QED
  BY <1>1, <1>4, <1>5, <1>6, <1>7 DEF n

LEMMA FileKept == ASSUME text' = text PROVE File' = File
<1>1. File = FileOf(text) /\ File' = FileOf(text')
  BY DEF File, FileOf
<1>. QED
  BY <1>1

LEMMA FileLength == ASSUME IsWritten(text) PROVE Len(File) \in Nat
<1>1. File = FileOf(text)
  BY DEF File, FileOf
<1>. QED
  BY <1>1, OffsetsFound, SpellingFacts

\* The document of the program can be written.
LEMMA TextWritten == ASSUME TextInv PROVE IsWritten(text)
<1>1. PICK d \in Documents : text = d.text
  BY DEF TextInv
<1>. QED
  BY <1>1, WrittenAssumption, TextFacts DEF IsWritten

\* A piece ends behind where it starts: at a newline, at the end, or full.
LEMMA PieceEndFound ==
    ASSUME NEW f, Len(f) \in Nat, NEW p \in 0 .. Len(f), p # Len(f), NEW q, q = PieceEnd(f, p)
    PROVE  /\ q \in p + 1 .. Len(f)
           /\ q \in {Len(f), p + LineLimit} \/ f[q].is = "NEWLINE"
           /\ q <= p + LineLimit
           /\ \A k \in p + 1 .. q - 1 : f[k].is # "NEWLINE"
<1>. DEFINE n == Len(f)
            Ends(x) == x \in {n, p + LineLimit} \/ f[x].is = "NEWLINE"
            Good(x) == Ends(x) /\ x <= p + LineLimit /\ \A k \in p + 1 .. x - 1 : f[k].is # "NEWLINE"
            T == {x \in p + 1 .. n : Ends(x)}
<1>1. LineLimit \in Nat \ {0} /\ n \in Nat /\ p \in Nat /\ p < n
  BY LimitsAssumption
<1>2. n \in T /\ T \in SUBSET Nat
  BY <1>1
<1>3. PICK x \in T : \A y \in T : x <= y
  <2>. HIDE DEF T
  <2>. QED
    BY <1>2, LeastElement
<1>4. Good(x)
  <2>1. p + LineLimit \in T \/ n < p + LineLimit
    BY <1>1
  <2>2. x <= p + LineLimit
    BY <1>1, <1>3, <2>1
  <2>3. \A k \in p + 1 .. x - 1 : k \notin T /\ k \in p + 1 .. n
    BY <1>1, <1>3
  <2>. QED
    BY <1>3, <2>2, <2>3
<1>5. q = CHOOSE y \in p + 1 .. n : Good(y)
  BY DEF PieceEnd
<1>6. q \in p + 1 .. n /\ Good(q)
  BY <1>3, <1>4, <1>5
<1>. QED
  BY <1>6

----------------------------------------------------------------------------
(* The tool's own invariant: the assembler rests while the tool runs, the  *)
(* mode does not change, and the rows are the words from the start on.     *)

\* The steps of the parser, and those of the tool.
ParserMoves == [ParserNext]_textVars /\ UNCHANGED toolVars
ToolMoves   == Disassemble /\ UNCHANGED textVars

LEMMA StepParts == ASSUME [ListingNext]_listingVars PROVE ParserMoves \/ ToolMoves
  BY DEF ListingNext, listingVars, ParserMoves, ToolMoves

LEMMA ParserRests == ASSUME stage \in Ended, [ParserNext]_textVars PROVE UNCHANGED textVars
<1>1. stage \notin Passes /\ stage \notin {"strings", "write"}
  BY DEF Ended, Passes
<1>. QED
  BY <1>1 DEF ParserNext, AssembleText, ParserExited, ParseStatement, AfterParse, CopyString, CopyAborts,
              StringsTooLong, OtherSymbol, StringsDone, WriteFile, AtString

\* The file is bytes behind a header.
FileInv ==
    /\ output_file.body \in Seq(Byte)
    /\ output_file.exists => output_file.header \in Word

\* What the tool is at, and why.
ControlInv ==
    /\ tool \in {"idle", "arguments", "file", "words", "source", "window", "listing",
                 "listed", "helped", "refused"}
    /\ tool # "idle" => stage \in Ended
    /\ tool = "words" => ~HasFilename
    /\ tool \in {"file", "window"} => HasFilename
    /\ tool \in {"source", "window", "listing"} /\ HasFilename => BinaryExists

\* The rows listed so far.
RowsInv ==
    /\ tool \notin {"listing", "listed"} => rows = <<>>
    /\ Len(rows) \in Nat /\ \E T : rows \in Seq(T)
    /\ \A k \in DOMAIN rows : rows[k].address \in Word /\ rows[k].word \in Word
    /\ tool \in {"listing", "listed"} /\ HasFilename =>
          /\ StartIndex < Total
          /\ \A k \in DOMAIN rows :
                /\ rows[k].address = (options.start + 4 * (k - 1)) % WordSpan
                /\ rows[k].word = FileWord(StartIndex + (k - 1))
                /\ StartIndex + (k - 1) < EndIndex
    /\ tool = "listed" /\ HasFilename => StartIndex + Len(rows) >= EndIndex

\* What the tool read of the source.
LabelsInv ==
    /\ \E T : labels \in Seq(T)
    /\ Len(labels) <= Set!Max({MaxSymbols, Len(SampleLabels)})
    /\ scanned \in 0 .. Len(File)
    /\ address \in Word

ToolInv == ArgumentsInv /\ SearchInv /\ FileInv /\ ControlInv /\ RowsInv /\ LabelsInv

\* The invariant's part about the source, where nothing of it is read.
LEMMA LabelsKept == ASSUME LabelsInv, UNCHANGED <<labels, scanned, address, text>> PROVE LabelsInv'
  BY FileKept DEF LabelsInv

\* While the parser moves, the tool waits.
LEMMA ToolWaits ==
    ASSUME ToolInv, FileInv', text' = text, ParserMoves
    PROVE  ToolInv'
<1>1. UNCHANGED <<tool, argv, taken, options, names, holders, found, labels, scanned, address, rows>>
  BY DEF ParserMoves, toolVars, optionVars
<1>2. ArgumentsInv' /\ SearchInv'
  <2>1. ArgumentsInv'
    BY <1>1, ArgumentsKept DEF ToolInv
  <2>2. SearchInv'
    BY <1>1 DEF ToolInv, SearchInv, Searched, HasFilename, FoundDir, SearchPath
  <2>. QED
    BY <2>1, <2>2
<1>3. LabelsInv'
  BY <1>1, LabelsKept DEF ToolInv
<1>4. CASE tool = "idle"
  <2>1. rows = <<>> /\ DOMAIN rows = {}
    BY <1>4 DEF ToolInv, RowsInv
  <2>2. ControlInv' /\ RowsInv'
    BY <1>1, <1>4, <2>1 DEF ToolInv, ControlInv, RowsInv
  <2>. QED
    BY <1>2, <1>3, <2>2 DEF ToolInv
<1>5. CASE tool # "idle"
  <2>1. UNCHANGED textVars
    BY <1>5, ParserRests DEF ParserMoves, ToolInv, ControlInv
  <2>2. UNCHANGED <<stage, output_file>>
    BY <2>1 DEF textVars, asmVars
  <2>3. ControlInv'
    BY <1>1, <2>2 DEF ToolInv, ControlInv, HasFilename, BinaryExists, Words, Skipped
  <2>4. RowsInv'
    BY <1>1, <2>2 DEF ToolInv, RowsInv, HasFilename, StartIndex, Total, EndIndex, Count, FileWord
  <2>. QED
    BY <1>2, <1>3, <2>3, <2>4 DEF ToolInv
<1>. QED
  BY <1>4, <1>5

\* The least and the greatest of two numbers.
LEMMA MinOfTwo ==
    ASSUME NEW a \in Nat, NEW b \in Nat
    PROVE  Set!Min({a, b}) = IF a <= b THEN a ELSE b
<1>1. Set!Min({a, b}) \in {a, b} /\ Set!Min({a, b}) <= a /\ Set!Min({a, b}) <= b
  BY LeastIndex
<1>. QED
  BY <1>1

LEMMA MaxOfTwo ==
    ASSUME NEW a \in Nat, NEW b \in Nat
    PROVE  Set!Max({a, b}) = IF a <= b THEN b ELSE a
<1>1. \E x \in {a, b} : \A y \in {a, b} : x >= y
  OBVIOUS
<1>2. Set!Max({a, b}) \in {a, b} /\ \A y \in {a, b} : Set!Max({a, b}) >= y
  BY <1>1 DEF Set!Max
<1>. QED
  BY <1>2

\* Whole words of bytes.
LEMMA Quarter ==
    ASSUME NEW n \in Nat
    PROVE  n \div 4 \in Nat /\ 4 * (n \div 4) <= n /\ n < 4 * (n \div 4) + 4
  OBVIOUS

\* The window of a file.
LEMMA WindowFacts ==
    ASSUME ArgumentsTyped, FileInv
    PROVE  /\ Total \in Nat \ {0} /\ StartIndex \in Nat /\ Count \in Nat \ {0}
           /\ EndIndex \in Nat /\ EndIndex <= Total
           /\ EndIndex = IF (StartIndex + Count) % WordSpan <= Total
                           THEN (StartIndex + Count) % WordSpan ELSE Total
           /\ options.start \in Word /\ options.start \in Nat
<1>1. options.start \in Word /\ options.count \in Word /\ WordSpan \in Nat \ {0} /\ Word \subseteq Nat
  BY WordFacts DEF ArgumentsTyped, OptionRecord
<1>2. Len(output_file.body) \in Nat
  BY DEF FileInv
<1>3. Total \in Nat \ {0}
  <2>. DEFINE m == Len(output_file.body) \div 4
  <2>1. m \in Nat
    BY <1>2, Quarter
  <2>2. Total = 1 + m
    BY DEF Total
  <2>. HIDE DEF m
  <2>. QED
    BY <2>1, <2>2
<1>4. StartIndex \in Nat
  <2>1. options.start \div 4 \in Nat
    BY <1>1, Quarter
  <2>. QED
    BY <2>1 DEF StartIndex
<1>5. Count \in Nat \ {0}
  BY <1>1, <1>3 DEF Count
<1>6. (StartIndex + Count) % WordSpan \in Nat
  BY <1>1, <1>4, <1>5, ModRange
<1>7. EndIndex = IF (StartIndex + Count) % WordSpan <= Total
                   THEN (StartIndex + Count) % WordSpan ELSE Total
  BY <1>3, <1>6, MinOfTwo DEF EndIndex
<1>8. EndIndex \in Nat /\ EndIndex <= Total
  BY <1>3, <1>6, <1>7
<1>. QED
  BY <1>1, <1>3, <1>4, <1>5, <1>7, <1>8

\* The words of the file, its header among them, are words.
LEMMA FileWordTyped ==
    ASSUME FileInv, output_file.exists, NEW k \in Nat, k < Total
    PROVE  FileWord(k) \in Word
<1>1. CASE k = 0
  BY <1>1 DEF FileWord, FileInv
<1>2. CASE k # 0
  <2>. DEFINE n    == Len(output_file.body)
              b(j) == output_file.body[4 * (k - 1) + j]
              B    == ByteSpan
  <2>1. n \in Nat
    BY DEF FileInv
  <2>2. k - 1 \in Nat /\ k < 1 + n \div 4
    <3>. DEFINE m == n \div 4
    <3>1. Total = 1 + m
      BY DEF Total
    <3>. HIDE DEF m
    <3>2. k < 1 + m /\ k - 1 \in Nat
      BY <1>2, <3>1
    <3>. QED
      BY <3>2 DEF m
  <2>3. 4 * k <= n
    <3>. HIDE DEF n
    <3>1. n \div 4 \in Nat /\ 4 * (n \div 4) <= n
      BY <2>1, Quarter
    <3>. QED
      BY <2>1, <2>2, <3>1
  <2>4. ASSUME NEW j \in 1 .. 4 PROVE b(j) \in 0 .. B - 1
    <3>1. 4 * (k - 1) + j \in 1 .. n
      BY <2>1, <2>2, <2>3
    <3>2. \A x \in 1 .. n : output_file.body[x] \in Byte
      BY DEF FileInv
    <3>. HIDE DEF n
    <3>. QED
      BY <3>1, <3>2 DEF Byte
  <2>5. b(1) \in 0 .. B - 1 /\ b(2) \in 0 .. B - 1 /\ b(3) \in 0 .. B - 1 /\ b(4) \in 0 .. B - 1
    BY <2>4
  <2>6. B \in Nat \ {0} /\ B * B \in Nat /\ B * (B * B) \in Nat
    BY ByteAssumption, ProductPositive
  <2>7. FileWord(k) = b(1) + B * (b(2) + B * (b(3) + B * b(4)))
    BY <1>2 DEF FileWord
  <2>8. WordSpan = B * (B * (B * B))
    BY ByteAssumption
  <2>. HIDE DEF b, B
  <2>9. B * b(4) + b(3) \in 0 .. B * B - 1
    BY <2>5, <2>6, ComposeRange
  <2>10. b(3) + B * b(4) \in 0 .. B * B - 1
    <3>1. B * b(4) \in Nat
      BY <2>5, <2>6
    <3>. QED
      BY <2>5, <2>6, <2>9, <3>1
  <2>. DEFINE u == b(3) + B * b(4)
              v == b(2) + B * u
  <2>11. v \in 0 .. B * (B * B) - 1
    <3>. HIDE DEF u
    <3>1. B * u + b(2) \in 0 .. B * (B * B) - 1
      BY <2>5, <2>6, <2>10, ComposeRange DEF u
    <3>2. B * u \in Nat
      BY <2>6, <2>10 DEF u
    <3>. QED
      BY <2>5, <2>6, <3>1, <3>2
  <2>12. b(1) + B * v \in 0 .. B * (B * (B * B)) - 1
    <3>. HIDE DEF v
    <3>1. B * v + b(1) \in 0 .. B * (B * (B * B)) - 1
      BY <2>5, <2>6, <2>11, ComposeRange DEF v
    <3>2. B * v \in Nat
      BY <2>6, <2>11 DEF v
    <3>. QED
      BY <2>5, <2>6, <3>1, <3>2
  <2>. QED
    BY <2>7, <2>8, <2>12 DEF Word
<1>. QED
  BY <1>1, <1>2

\* Steps of the tool that list nothing, and go no further than to the listing.
LEMMA NothingListed ==
    ASSUME ToolInv, UNCHANGED <<rows, options, output_file>>, rows = <<>>,
           tool' # "listed",
           tool' = "listing" /\ HasFilename => StartIndex < Total
    PROVE  RowsInv'
<1>1. rows' = <<>> /\ DOMAIN rows' = {} /\ Len(rows') = 0 /\ rows' \in Seq({})
  OBVIOUS
<1>. QED
  BY <1>1 DEF RowsInv, HasFilename, StartIndex, Total

\* The sample table is one the tool can hold.
LEMMA SampleTable ==
    /\ Len(SampleLabels) = 5 /\ MaxSymbols \in Nat
    /\ \E T : SampleLabels \in Seq(T)
    /\ Set!Max({MaxSymbols, Len(SampleLabels)}) >= 5
    /\ Set!Max({MaxSymbols, Len(SampleLabels)}) >= MaxSymbols
    /\ Set!Max({MaxSymbols, Len(SampleLabels)}) \in Nat
<1>1. Len(SampleLabels) = 5
  BY DEF SampleLabels
<1>2. MaxSymbols \in Nat
  BY SymbolTableAssumption
<1>3. Set!Max({MaxSymbols, Len(SampleLabels)}) = IF MaxSymbols <= 5 THEN 5 ELSE MaxSymbols
  BY <1>1, <1>2, MaxOfTwo
<1>4. \E T : SampleLabels \in Seq(T)
  <2>. DEFINE T == {SampleLabels[i] : i \in 1 .. 5}
  <2>1. SampleLabels \in Seq(T)
    BY DEF SampleLabels
  <2>. QED
    BY <2>1
<1>. QED
  BY <1>1, <1>2, <1>3, <1>4

LEMMA LabelsReplaced ==
    ASSUME LabelsInv, labels' = labels \/ labels' = SampleLabels, UNCHANGED <<scanned, address, text>>
    PROVE  LabelsInv'
<1>1. (\E T : labels' \in Seq(T)) /\ Len(labels') <= Set!Max({MaxSymbols, Len(SampleLabels)})
  BY SampleTable DEF LabelsInv
<1>. QED
  BY <1>1, FileKept DEF LabelsInv

LEMMA StartToolStep ==
    ASSUME ToolInv, Invoked, StartTool, UNCHANGED textVars
    PROVE  ToolInv'
<1>1. /\ tool = "idle" /\ tool' = "arguments" /\ stage \in Ended
      /\ UNCHANGED <<taken, options, names, found, labels, scanned, address, rows, stage, output_file, text>>
  BY DEF StartTool, textVars, asmVars
<1>2. ArgumentsInv' /\ SearchInv'
  BY <1>1, StartToolOK DEF ToolInv, SearchInv
<1>3. RowsInv'
  BY <1>1, NothingListed DEF ToolInv, RowsInv
<1>4. LabelsInv' /\ FileInv' /\ ControlInv'
  BY <1>1, LabelsKept DEF ToolInv, FileInv, ControlInv
<1>. QED
  BY <1>2, <1>3, <1>4 DEF ToolInv

LEMMA UseArgumentsStep ==
    ASSUME ToolInv, UseArguments, UNCHANGED textVars
    PROVE  ToolInv'
<1>1. /\ tool = "arguments"
      /\ UNCHANGED <<holders, found, labels, scanned, address, rows, stage, output_file, text>>
      /\ \/ tool' \in {"arguments", "helped", "refused"}
         \/ /\ UNCHANGED options
            /\ tool' = IF HasFilename THEN "file" ELSE IF SymbolsOnly THEN "listed"
                       ELSE IF Words # <<>> THEN "words" ELSE "refused"
  <2>1. /\ ReadArguments
        /\ UNCHANGED <<holders, found, labels, scanned, address, rows, stage, output_file, text>>
    BY DEF UseArguments, textVars, asmVars
  <2>. QED
    BY <2>1 DEF ReadArguments, ShowHelp, ValueMissing, ReadFormat, ReadStart, ReadCount, ReadSymbolFile,
                ReadSearchDir, ReadSymbols, ReadOther, ReadName, ArgumentsRead, Stop, Take, AtOption, AtArgument
<1>2. ArgumentsInv'
  BY ReadArgumentsOK DEF ToolInv, UseArguments
<1>3. SearchInv' /\ FileInv' /\ LabelsInv'
  BY <1>1, LabelsKept DEF ToolInv, SearchInv, FileInv
<1>4. stage' \in Ended /\ rows' = <<>> /\ DOMAIN rows' = {} /\ Len(rows') = 0 /\ rows' \in Seq({})
  BY <1>1 DEF ToolInv, ControlInv, RowsInv
<1>5. tool' = "listed" => ~HasFilename'
  BY <1>1 DEF HasFilename
<1>6. tool' = "words" => ~HasFilename'
  BY <1>1 DEF HasFilename
<1>7. tool' = "file" => HasFilename'
  BY <1>1 DEF HasFilename
<1>8. tool' \in {"arguments", "helped", "refused", "file", "listed", "words"}
  BY <1>1
<1>9. RowsInv'
  BY <1>4, <1>5, <1>8 DEF RowsInv
<1>10. ControlInv'
  BY <1>4, <1>6, <1>7, <1>8 DEF ControlInv
<1>. QED
  BY <1>2, <1>3, <1>9, <1>10 DEF ToolInv

\* Loading the symbols, of a source or the sample table.
LEMMA LoadSymbolsStep ==
    ASSUME ToolInv, UNCHANGED textVars,
           \/ tool = "words" /\ ListWords
           \/ ListFile
    PROVE  ToolInv'
<1>1. UNCHANGED <<argv, taken, options, names, holders, scanned, address, rows, stage, output_file, text>>
  BY DEF ListWords, ListFile, LoadSymbols, Stop, textVars, asmVars
<1>2. /\ \/ tool = "words" /\ tool' \in {"listing", "source"} /\ ~HasFilename
         \/ tool = "file" /\ tool' \in {"window", "source"} /\ HasFilename /\ BinaryExists
      /\ labels' = labels \/ labels' = SampleLabels
      /\ Searched # Absent => found' = FoundDir
  BY DEF ListWords, ListFile, LoadSymbols, Stop, ToolInv, ControlInv
<1>3. ArgumentsInv'
  BY <1>1, <1>2, ArgumentsKept DEF ToolInv, AfterArguments
<1>4. SearchInv'
  <2>1. Searched' = Searched /\ FoundDir' = FoundDir
    BY <1>1 DEF Searched, HasFilename, FoundDir, SearchPath
  <2>. QED
    BY <1>1, <1>2, <2>1 DEF ToolInv, SearchInv
<1>5. FileInv' /\ LabelsInv'
  BY <1>1, <1>2, LabelsReplaced DEF ToolInv, FileInv
<1>6. ControlInv'
  BY <1>1, <1>2 DEF ToolInv, ControlInv, HasFilename, BinaryExists
<1>7. RowsInv'
  BY <1>1, <1>2, NothingListed DEF ToolInv, RowsInv
<1>. QED
  BY <1>3, <1>4, <1>5, <1>6, <1>7 DEF ToolInv

LEMMA NoBinaryStep ==
    ASSUME ToolInv, NoBinary, UNCHANGED textVars
    PROVE  ToolInv'
<1>1. /\ tool = "file" /\ tool' = "refused"
      /\ UNCHANGED <<argv, taken, options, names, holders, found, labels, scanned, address, rows,
                     stage, output_file, text>>
  BY DEF NoBinary, Stop, textVars, asmVars
<1>2. ArgumentsInv'
  BY <1>1, ArgumentsKept DEF ToolInv, AfterArguments
<1>3. SearchInv' /\ FileInv' /\ LabelsInv' /\ ControlInv'
  BY <1>1, LabelsKept DEF ToolInv, SearchInv, FileInv, ControlInv
<1>4. RowsInv'
  BY <1>1, NothingListed DEF ToolInv, RowsInv
<1>. QED
  BY <1>2, <1>3, <1>4 DEF ToolInv

\* The source is read no further than to its end, and the table never grows
\* past its size.
LEMMA LineReadOn ==
    ASSUME LabelsInv, IsWritten(text), ReadingLine, text' = text,
           labels' = labels \/ \E c : labels' = WithLabel(c),
           address' = address \/ address' = (address + 4) % WordSpan
    PROVE  LabelsInv'
<1>1. scanned' \in 0 .. Len(File')
  <2>1. Len(File) \in Nat /\ scanned \in 0 .. Len(File) /\ scanned # Len(File)
    BY FileLength DEF LabelsInv, ReadingLine
  <2>2. PieceEnd(File, scanned) \in scanned + 1 .. Len(File)
    BY <2>1, PieceEndFound
  <2>. QED
    BY <2>1, <2>2, FileKept DEF ReadingLine
<1>2. address' \in Word
  <2>1. address \in Nat /\ WordSpan \in Nat \ {0}
    BY WordFacts DEF LabelsInv
  <2>2. (address + 4) % WordSpan \in 0 .. WordSpan - 1
    BY <2>1, ModRange
  <2>. QED
    BY <2>2 DEF LabelsInv, Word
<1>3. (\E T : labels' \in Seq(T)) /\ Len(labels') <= Set!Max({MaxSymbols, Len(SampleLabels)})
  <2>1. CASE labels' = labels
    BY <2>1 DEF LabelsInv
  <2>2. CASE labels' # labels
    <3>1. PICK c : labels' = WithLabel(c)
      BY <2>2
    <3>. DEFINE e == [label |-> c, address |-> address]
    <3>2. labels' = Append(labels, e) /\ ~(Len(labels) >= MaxSymbols)
      BY <2>2, <3>1 DEF WithLabel
    <3>. HIDE DEF e
    <3>3. PICK T : labels \in Seq(T)
      BY DEF LabelsInv
    <3>4. labels \in Seq(T \union {e}) /\ Len(labels) \in Nat
      BY <3>3
    <3>5. labels' \in Seq(T \union {e}) /\ Len(labels') = Len(labels) + 1
      BY <3>2, <3>4
    <3>6. Len(labels') <= MaxSymbols
      BY <3>2, <3>4, <3>5, SampleTable
    <3>. QED
      BY <3>4, <3>5, <3>6, SampleTable
  <2>. QED
    BY <2>1, <2>2
<1>. QED
  BY <1>1, <1>2, <1>3 DEF LabelsInv

LEMMA SourceStep ==
    ASSUME ToolInv, IsWritten(text), UNCHANGED textVars,
           SkipComment \/ LabelLine \/ CountedLine \/ SourceRead
    PROVE  ToolInv'
<1>1. /\ tool = "source"
      /\ UNCHANGED <<argv, taken, options, names, holders, found, rows, stage, output_file, text>>
  BY DEF SkipComment, LabelLine, CountedLine, SourceRead, ReadingLine, Stop, textVars, asmVars, optionVars
<1>2. tool' = "source" \/ tool' = IF HasFilename THEN "window" ELSE "listing"
  BY DEF SkipComment, LabelLine, CountedLine, SourceRead, ReadingLine, Stop, optionVars
<1>3. ArgumentsInv'
  BY <1>1, <1>2, ArgumentsKept DEF ToolInv, AfterArguments
<1>4. SearchInv'
  <2>1. Searched' = Searched /\ FoundDir' = FoundDir
    BY <1>1 DEF Searched, HasFilename, FoundDir, SearchPath
  <2>. QED
    BY <1>1, <1>2, <2>1 DEF ToolInv, SearchInv
<1>5. LabelsInv'
  <2>1. CASE SkipComment \/ LabelLine \/ CountedLine
    <3>1. /\ ReadingLine
          /\ labels' = labels \/ \E c : labels' = WithLabel(c)
          /\ address' = address \/ address' = (address + 4) % WordSpan
      BY <2>1 DEF SkipComment, LabelLine, CountedLine
    <3>. QED
      BY <1>1, <3>1, LineReadOn DEF ToolInv
  <2>2. CASE SourceRead
    BY <1>1, <2>2, LabelsReplaced DEF SourceRead, ToolInv
  <2>. QED
    BY <2>1, <2>2
<1>6. FileInv' /\ ControlInv'
  BY <1>1, <1>2 DEF ToolInv, FileInv, ControlInv, HasFilename, BinaryExists
<1>7. RowsInv'
  BY <1>1, <1>2, NothingListed DEF ToolInv, RowsInv
<1>. QED
  BY <1>3, <1>4, <1>5, <1>6, <1>7 DEF ToolInv

LEMMA CheckWindowStep ==
    ASSUME ToolInv, CheckWindow, UNCHANGED textVars
    PROVE  ToolInv'
<1>1. /\ tool = "window" /\ tool' = IF StartIndex >= Total THEN "refused" ELSE "listing"
      /\ UNCHANGED <<argv, taken, options, names, holders, found, labels, scanned, address, rows,
                     stage, output_file, text>>
  BY DEF CheckWindow, Stop, textVars, asmVars
<1>2. ArgumentsInv'
  BY <1>1, ArgumentsKept DEF ToolInv, AfterArguments
<1>3. SearchInv'
  <2>1. Searched' = Searched /\ FoundDir' = FoundDir
    BY <1>1 DEF Searched, HasFilename, FoundDir, SearchPath
  <2>. QED
    BY <1>1, <2>1 DEF ToolInv, SearchInv
<1>4. FileInv' /\ LabelsInv' /\ ControlInv'
  BY <1>1, LabelsKept DEF ToolInv, FileInv, ControlInv, HasFilename, BinaryExists
<1>5. RowsInv'
  <2>1. tool' = "listing" => StartIndex < Total
    BY <1>1, WindowFacts DEF ToolInv, ArgumentsInv
  <2>. QED
    BY <1>1, <2>1, NothingListed DEF ToolInv, RowsInv
<1>. QED
  BY <1>2, <1>3, <1>4, <1>5 DEF ToolInv

\* A row more.
LEMMA RowAppended ==
    ASSUME NEW e, \E T : rows \in Seq(T), rows' = Append(rows, e)
    PROVE  /\ Len(rows') = Len(rows) + 1 /\ Len(rows') \in Nat /\ Len(rows) \in Nat
           /\ \E T : rows' \in Seq(T)
           /\ DOMAIN rows' = 1 .. Len(rows) + 1 /\ DOMAIN rows = 1 .. Len(rows)
           /\ rows'[Len(rows) + 1] = e /\ \A k \in DOMAIN rows : rows'[k] = rows[k]
<1>1. PICK T : rows \in Seq(T)
  OBVIOUS
<1>2. rows \in Seq(T \union {e})
  BY <1>1
<1>3. rows' \in Seq(T \union {e})
  BY <1>2
<1>. QED
  BY <1>2, <1>3

LEMMA ListRowStep ==
    ASSUME ToolInv, ListRow, UNCHANGED textVars
    PROVE  ToolInv'
<1>1. /\ tool = "listing" /\ tool' = tool
      /\ UNCHANGED <<argv, taken, options, names, holders, found, labels, scanned, address,
                     stage, output_file, text>>
  BY DEF ListRow, textVars, asmVars, optionVars
<1>2. ArgumentsInv'
  BY <1>1, ArgumentsKept DEF ToolInv
<1>3. SearchInv'
  <2>1. Searched' = Searched /\ FoundDir' = FoundDir
    BY <1>1 DEF Searched, HasFilename, FoundDir, SearchPath
  <2>. QED
    BY <1>1, <2>1 DEF ToolInv, SearchInv
<1>4. FileInv' /\ LabelsInv' /\ ControlInv'
  BY <1>1, LabelsKept DEF ToolInv, FileInv, ControlInv, HasFilename, BinaryExists
<1>5. /\ HasFilename' = HasFilename /\ StartIndex' = StartIndex /\ Total' = Total /\ EndIndex' = EndIndex
      /\ \A k : FileWord(k)' = FileWord(k)
  BY <1>1 DEF HasFilename, StartIndex, Total, EndIndex, Count, FileWord
<1>. DEFINE n == Len(rows)
            a(k) == (options.start + 4 * (k - 1)) % WordSpan
<1>6. n \in Nat /\ (\E T : rows \in Seq(T)) /\ DOMAIN rows = 1 .. n
  <2>1. PICK T : rows \in Seq(T)
    BY DEF ToolInv, RowsInv
  <2>. QED
    BY <2>1
<1>7. \A k \in DOMAIN rows : rows[k].address \in Word /\ rows[k].word \in Word
  BY DEF ToolInv, RowsInv
<1>8. WordSpan \in Nat \ {0} /\ Word = 0 .. WordSpan - 1
  BY WordFacts DEF Word
<1>9. CASE HasFilename
  <2>1. /\ StartIndex < Total
        /\ \A k \in DOMAIN rows : /\ rows[k].address = a(k)
                                  /\ rows[k].word = FileWord(StartIndex + (k - 1))
                                  /\ StartIndex + (k - 1) < EndIndex
    BY <1>1, <1>9 DEF ToolInv, RowsInv
  <2>. DEFINE b == (options.start + 4 * n) % WordSpan
              w == FileWord(StartIndex + n)
              e == [address |-> b, word |-> w, tag |-> Tag(b)]
  <2>2. StartIndex + n < EndIndex /\ rows' = Append(rows, e)
    BY <1>9 DEF ListRow, Row
  <2>3. e.address = b /\ e.word = w
    OBVIOUS
  <2>4. b \in Word
    <3>. DEFINE c == options.start + 4 * n
    <3>1. c \in Nat
      BY <1>6, WindowFacts DEF ToolInv, ArgumentsInv
    <3>. HIDE DEF c
    <3>2. c % WordSpan \in Word
      BY <1>8, <3>1, ModRange
    <3>. QED
      BY <3>2 DEF c
  <2>5. w \in Word
    <3>1. StartIndex + n \in Nat /\ StartIndex + n < Total
      BY <1>6, <2>2, WindowFacts DEF ToolInv, ArgumentsInv
    <3>2. output_file.exists
      BY <1>1, <1>9 DEF ToolInv, ControlInv, BinaryExists
    <3>. QED
      BY <3>1, <3>2, FileWordTyped DEF ToolInv
  <2>6. a(n + 1) = b /\ (n + 1) - 1 = n
    BY <1>6
  <2>. HIDE DEF a, b, w, e
  <2>7. /\ DOMAIN rows' = 1 .. n + 1 /\ rows'[n + 1] = e /\ \A k \in 1 .. n : rows'[k] = rows[k]
        /\ Len(rows') \in Nat /\ \E T : rows' \in Seq(T)
    BY <1>6, <2>2, RowAppended
  <2>8. \A k \in 1 .. n + 1 : k \in 1 .. n \/ k = n + 1
    BY <1>6
  <2>9. \A k \in DOMAIN rows' : rows'[k].address \in Word /\ rows'[k].word \in Word
    BY <1>6, <1>7, <2>3, <2>4, <2>5, <2>7, <2>8
  <2>10. \A k \in DOMAIN rows' : /\ rows'[k].address = a(k)
                                 /\ rows'[k].word = FileWord(StartIndex + (k - 1))
                                 /\ StartIndex + (k - 1) < EndIndex
    BY <1>6, <2>1, <2>2, <2>3, <2>6, <2>7, <2>8 DEF w
  <2>. QED
    BY <1>1, <1>2, <1>3, <1>4, <1>5, <2>1, <2>7, <2>9, <2>10 DEF ToolInv, RowsInv, a
<1>10. CASE ~HasFilename
  <2>. DEFINE b == (4 * n) % WordSpan
              w == Words[n + 1]
              e == [address |-> b, word |-> w, tag |-> Tag(b)]
  <2>1. n < Len(Words) /\ rows' = Append(rows, e)
    BY <1>10 DEF ListRow, Row
  <2>2. e.address = b /\ e.word = w
    OBVIOUS
  <2>3. b \in Word
    BY <1>6, <1>8, ModRange
  <2>4. w \in Word
    <3>1. Words \in Seq(Word)
      <4>1. PICK F \in [0 .. Len(argv) -> Seq(Word)] : Words = F[Len(argv)]
        BY WordsCollected DEF ToolInv, ArgumentsInv, ArgumentsTyped
      <4>2. Len(argv) \in 0 .. Len(argv)
        BY DEF ToolInv, ArgumentsInv, ArgumentsTyped
      <4>. QED
        BY <4>1, <4>2
    <3>2. n + 1 \in 1 .. Len(Words)
      BY <1>6, <2>1, <3>1
    <3>. QED
      BY <3>1, <3>2
  <2>. HIDE DEF b, w, e
  <2>5. /\ DOMAIN rows' = 1 .. n + 1 /\ rows'[n + 1] = e /\ \A k \in 1 .. n : rows'[k] = rows[k]
        /\ Len(rows') \in Nat /\ \E T : rows' \in Seq(T)
    BY <1>6, <2>1, RowAppended
  <2>6. \A k \in 1 .. n + 1 : k \in 1 .. n \/ k = n + 1
    BY <1>6
  <2>7. \A k \in DOMAIN rows' : rows'[k].address \in Word /\ rows'[k].word \in Word
    BY <1>6, <1>7, <2>2, <2>3, <2>4, <2>5, <2>6
  <2>. QED
    BY <1>1, <1>2, <1>3, <1>4, <1>5, <1>10, <2>5, <2>7 DEF ToolInv, RowsInv
<1>. QED
  BY <1>9, <1>10

LEMMA RowsDoneStep ==
    ASSUME ToolInv, RowsDone, UNCHANGED textVars
    PROVE  ToolInv'
<1>1. /\ tool = "listing" /\ tool' = "listed"
      /\ HasFilename => StartIndex + Len(rows) >= EndIndex
      /\ UNCHANGED <<argv, taken, options, names, holders, found, labels, scanned, address, rows,
                     stage, output_file, text>>
  BY DEF RowsDone, Stop, textVars, asmVars
<1>2. ArgumentsInv'
  BY <1>1, ArgumentsKept DEF ToolInv, AfterArguments
<1>3. SearchInv' /\ FileInv' /\ LabelsInv' /\ ControlInv'
  BY <1>1, LabelsKept DEF ToolInv, SearchInv, FileInv, ControlInv
<1>4. /\ HasFilename' = HasFilename /\ StartIndex' = StartIndex /\ Total' = Total /\ EndIndex' = EndIndex
      /\ \A k : FileWord(k)' = FileWord(k)
  BY <1>1 DEF HasFilename, StartIndex, Total, EndIndex, Count, FileWord
<1>5. RowsInv'
  BY <1>1, <1>4 DEF ToolInv, RowsInv
<1>. QED
  BY <1>2, <1>3, <1>5 DEF ToolInv

LEMMA ToolStep ==
    ASSUME ToolInv, Invoked, IsWritten(text), ToolMoves
    PROVE  ToolInv'
  BY StartToolStep, UseArgumentsStep, LoadSymbolsStep, NoBinaryStep, SourceStep, CheckWindowStep,
     ListRowStep, RowsDoneStep DEF ToolMoves, Disassemble, ListWords

----------------------------------------------------------------------------
(* A listing, read by the assembler: every text that Shown gives, token by *)
(* token.                                                                  *)

\* Characters of a line without labels, comments and literals.
Quiet == {"word", "number", "COMMA", "HASH", "LBRACKET", "RBRACKET", "UNKNOWN", "space"}

IsQuiet(txt) == Len(txt) \in Nat /\ \A k \in 1 .. Len(txt) : txt[k].is \in Quiet

\* The token at a position of a quiet text, after at most one space.
LEMMA QuietToken ==
    ASSUME NEW txt, IsQuiet(txt), NEW p \in 0 .. Len(txt)
    PROVE  /\ p = Len(txt) => NextToken(txt, p) = [token |-> [type |-> "EOF"], position |-> p]
           /\ p < Len(txt) /\ txt[p + 1].is # "space" => NextToken(txt, p) = Scanned(txt, p)
           /\ p + 1 < Len(txt) /\ txt[p + 1].is = "space" /\ txt[p + 2].is # "space" =>
                 NextToken(txt, p) = Scanned(txt, p + 1)
<1>. DEFINE n == Len(txt)
<1>1. n \in Nat /\ At(txt, n) = "end"
  BY DEF IsQuiet, At
<1>2. \A k \in 0 .. n : At(txt, k) \notin {"cr", "semicolon"}
  BY <1>1 DEF IsQuiet, Quiet, At
<1>3. ASSUME NEW q \in p .. n, At(txt, q) \notin {"space", "cr"},
             \A k \in p .. q - 1 : At(txt, k) \in {"space", "cr"}
      PROVE  NextToken(txt, p) = Scanned(txt, q)
  <2>1. ASSUME NEW r \in p .. n, At(txt, r) \notin {"space", "cr"},
               \A k \in p .. r - 1 : At(txt, k) \in {"space", "cr"}
        PROVE  r = q
    <3>1. q \in Int /\ r \in Int /\ p \in Int
      BY <1>1
    <3>2. ~(r < q)
      BY <1>3, <2>1, <3>1
    <3>3. ~(q < r)
      BY <1>3, <2>1, <3>1
    <3>. QED
      BY <3>1, <3>2, <3>3
  <2>2. AfterBlanks(txt, p) = q
    BY <1>3, <2>1 DEF AfterBlanks
  <2>3. Skip(txt, p) = q
    BY <1>2, <1>3, <2>2 DEF Skip
  <2>. QED
    BY <2>3 DEF NextToken
<1>4. CASE p = n
  <2>1. NextToken(txt, p) = Scanned(txt, p)
    BY <1>1, <1>3, <1>4
  <2>. QED
    BY <1>1, <1>4, <2>1 DEF Scanned
<1>5. ASSUME p < n, txt[p + 1].is # "space" PROVE NextToken(txt, p) = Scanned(txt, p)
  <2>1. At(txt, p) \notin {"space", "cr"}
    BY <1>2, <1>5 DEF At
  <2>2. p \in p .. n /\ \A k \in p .. p - 1 : FALSE
    BY <1>1
  <2>. QED
    BY <1>3, <2>1, <2>2
<1>6. ASSUME p + 1 < n, txt[p + 1].is = "space", txt[p + 2].is # "space"
      PROVE  NextToken(txt, p) = Scanned(txt, p + 1)
  <2>1. At(txt, p) = "space" /\ At(txt, p + 1) # "space" /\ At(txt, p + 1) # "cr"
    <3>1. p < n /\ p + 1 \in 0 .. n /\ (p + 1) + 1 = p + 2
      BY <1>1, <1>6
    <3>. QED
      BY <1>2, <1>6, <3>1 DEF At
  <2>2. p + 1 \in p .. n /\ \A k \in p .. (p + 1) - 1 : k = p
    BY <1>1, <1>6
  <2>. QED
    BY <1>3, <2>1, <2>2
<1>. QED
  BY <1>1, <1>4, <1>5, <1>6

\* What the characters of a listing are as tokens.
LEMMA QuietScanned ==
    ASSUME NEW txt, IsQuiet(txt), NEW p \in 0 .. Len(txt) - 1
    PROVE  /\ txt[p + 1].is = "word" =>
                 Scanned(txt, p) = [token |-> [type |-> IF txt[p + 1].word \in DOMAIN RegisterNumber
                                                          THEN "REGISTER" ELSE "IDENTIFIER",
                                               word |-> txt[p + 1].word],
                                    position |-> p + 1]
           /\ txt[p + 1].is = "number" =>
                 Scanned(txt, p) = [token |-> [type |-> "NUMBER", value |-> txt[p + 1].value % WordSpan],
                                    position |-> p + 1]
           /\ txt[p + 1].is \in {"COMMA", "HASH", "LBRACKET", "RBRACKET", "UNKNOWN"} =>
                 Scanned(txt, p) = [token |-> [type |-> txt[p + 1].is], position |-> p + 1]
<1>1. At(txt, p) = txt[p + 1].is
  BY DEF At, IsQuiet
<1>. QED
  BY <1>1 DEF Scanned

\* No label is in a listing.
LEMMA QuietLabel ==
    ASSUME NEW txt, IsQuiet(txt), NEW p \in 0 .. Len(txt)
    PROVE  ~EndsWithColon(txt, p)
<1>1. \A k \in 0 .. Len(txt) : At(txt, k) \notin {"NEWLINE", "semicolon"}
  BY DEF At, IsQuiet, Quiet
<1>2. RawEnd(txt, p) \in p .. Len(txt)
  <2>1. Len(txt) \in p .. Len(txt) /\ At(txt, Len(txt)) = "end" /\ p .. Len(txt) - 1 \subseteq 0 .. Len(txt)
    BY DEF At, IsQuiet
  <2>. QED
    BY <1>1, <2>1 DEF RawEnd
<1>3. \A k \in p + 1 .. RawEnd(txt, p) : k \in 1 .. Len(txt)
  BY <1>2 DEF IsQuiet
<1>. QED
  BY <1>3 DEF EndsWithColon, IsQuiet, Quiet

\* An operand, after its token was looked at.
LEMMA OperandsRead ==
    ASSUME NEW txt, NEW l
    PROVE  /\ \A x : l.token = [type |-> "REGISTER", word |-> x] =>
                 OperandAt(txt, l) = Read([type |-> "REGISTER", reg |-> RegisterNumber[x]],
                                          NextToken(txt, l.position))
           /\ \A x : l.token = [type |-> "IDENTIFIER", word |-> x] =>
                 OperandAt(txt, l) = Read(Named(x), NextToken(txt, l.position))
<1>1. ASSUME NEW x, l.token = [type |-> "REGISTER", word |-> x]
      PROVE  OperandAt(txt, l) = Read([type |-> "REGISTER", reg |-> RegisterNumber[x]],
                                      NextToken(txt, l.position))
  <2>1. l.token.type = "REGISTER" /\ l.token.word = x
    BY <1>1
  <2>. QED
    BY <2>1 DEF OperandAt, Bare, OperandOf, TokenAfter, NextToken
<1>2. ASSUME NEW x, l.token = [type |-> "IDENTIFIER", word |-> x]
      PROVE  OperandAt(txt, l) = Read(Named(x), NextToken(txt, l.position))
  <2>1. l.token.type = "IDENTIFIER" /\ l.token.word = x
    BY <1>2
  <2>. QED
    BY <2>1 DEF OperandAt, Bare, OperandOf, TokenAfter, NextToken
<1>. QED
  BY <1>1, <1>2

LEMMA NumberRead ==
    ASSUME NEW txt, NEW l, NEW v, l.token = [type |-> "HASH"],
           NextToken(txt, l.position).token = [type |-> "NUMBER", value |-> v]
    PROVE  OperandAt(txt, l) = Read([type |-> "IMMEDIATE", value |-> v],
                                    NextToken(txt, NextToken(txt, l.position).position))
<1>. DEFINE k == NextToken(txt, l.position)
<1>1. l.token.type = "HASH" /\ k.token.type = "NUMBER" /\ k.token.value = v
  OBVIOUS
<1>2. OperandAt(txt, l) = Bare(txt, k)
  BY <1>1 DEF OperandAt, AfterHash, TokenAfter, NextToken
<1>. HIDE DEF k
<1>3. Bare(txt, k) = Read([type |-> "IMMEDIATE", value |-> v], NextToken(txt, k.position))
  BY <1>1 DEF Bare, OperandOf, TokenAfter, NextToken
<1>. QED
  BY <1>2, <1>3 DEF k

LEMMA CellRead ==
    ASSUME NEW txt, NEW l, NEW k, NEW c, NEW v, l.token = [type |-> "LBRACKET"],
           k = NextToken(txt, l.position), k.token = [type |-> "NUMBER", value |-> v],
           c = NextToken(txt, k.position), c.token = [type |-> "RBRACKET"]
    PROVE  OperandAt(txt, l) = Read([type |-> "MEMORY", value |-> v], NextToken(txt, c.position))
<1>1. /\ l.token.type = "LBRACKET" /\ c.token.type = "RBRACKET"
      /\ k.token.type = "NUMBER" /\ k.token.value = v
  OBVIOUS
<1>2. OperandAt(txt, l) = Bracketed(txt, k)
  BY <1>1 DEF OperandAt, Bare, TokenAfter, NextToken
<1>3. Bracketed(txt, k) = Closed(txt, k.token, c)
  BY <1>1 DEF Bracketed, TokenAfter, NextToken
<1>4. Closed(txt, k.token, c) = Read(AddressOf(k.token), NextToken(txt, c.position))
  BY <1>1 DEF Closed, TokenAfter, NextToken
<1>5. AddressOf(k.token) = [type |-> "MEMORY", value |-> v]
  BY <1>1 DEF AddressOf
<1>. QED
  BY <1>2, <1>3, <1>4, <1>5

\* A register is not read as an address.
LEMMA IndirectRefused ==
    ASSUME NEW txt, NEW l, NEW x, l.token = [type |-> "LBRACKET"],
           NextToken(txt, l.position).token = [type |-> "REGISTER", word |-> x]
    PROVE  ~OperandAt(txt, l).ok /\ OperandAt(txt, l).what.kind = "error"
<1>. DEFINE k == NextToken(txt, l.position)
<1>1. l.token.type = "LBRACKET" /\ k.token.type = "REGISTER"
  OBVIOUS
<1>2. OperandAt(txt, l) = Bracketed(txt, k)
  BY <1>1 DEF OperandAt, Bare, TokenAfter, NextToken
<1>. HIDE DEF k
<1>3. Bracketed(txt, k) = Failure(k)
  BY <1>1 DEF Bracketed
<1>. QED
  BY <1>2, <1>3 DEF Failure

\* Lists of operands with commas between them.
One(x) == <<x>>
Two(x, y) == <<x, y>>
Three(x, y, z) == <<x, y, z>>

LEMMA AppendTwo ==
    ASSUME NEW x, NEW y
    PROVE  Append(<<x>>, y) = <<x, y>>
<1>. DEFINE S == {x, y}
            s == Append(<<x>>, y)
            q == <<x, y>>
<1>1. <<x>> \in Seq(S) /\ y \in S /\ Len(<<x>>) = 1 /\ <<x>>[1] = x
  OBVIOUS
<1>2. s \in Seq(S) /\ Len(s) = 2 /\ s[1] = x /\ s[2] = y
  BY <1>1, AppendProperties
<1>3. q \in Seq(S) /\ Len(q) = 2 /\ q[1] = x /\ q[2] = y
  OBVIOUS
<1>4. \A k \in 1 .. 2 : k = 1 \/ k = 2
  OBVIOUS
<1>. HIDE DEF s, q, S
<1>5. s = q
  BY <1>2, <1>3, <1>4, SeqEqual
<1>. QED
  BY <1>5 DEF s, q

LEMMA AppendThree ==
    ASSUME NEW x, NEW y, NEW z
    PROVE  Append(<<x, y>>, z) = <<x, y, z>>
<1>. DEFINE S == {x, y, z}
            s == Append(<<x, y>>, z)
            q == <<x, y, z>>
<1>1. /\ <<x, y>> \in Seq(S) /\ z \in S /\ Len(<<x, y>>) = 2
      /\ <<x, y>>[1] = x /\ <<x, y>>[2] = y
  OBVIOUS
<1>2. s \in Seq(S) /\ Len(s) = 3 /\ s[1] = x /\ s[2] = y /\ s[3] = z
  BY <1>1, AppendProperties
<1>3. q \in Seq(S) /\ Len(q) = 3 /\ q[1] = x /\ q[2] = y /\ q[3] = z
  OBVIOUS
<1>4. \A k \in 1 .. 3 : k = 1 \/ k = 2 \/ k = 3
  OBVIOUS
<1>. HIDE DEF s, q, S
<1>5. s = q
  BY <1>2, <1>3, <1>4, SeqEqual
<1>. QED
  BY <1>5 DEF s, q

\* An operand between two positions, a comma, and a list of n operands.
OperandIs(txt, p, o, q) == OperandAt(txt, NextToken(txt, p)) = Read(o, NextToken(txt, q))
CommaIs(txt, p, q) == NextToken(txt, p).token.type = "COMMA" /\ NextToken(txt, p).position = q
ListIs(txt, p, n, args, q) == OperandsAt(txt, NextToken(txt, p), n) = Read(args, NextToken(txt, q))

LEMMA NoOperandRead ==
    ASSUME NEW txt, NEW p
    PROVE  ListIs(txt, p, 0, <<>>, p)
BY DEF ListIs, OperandsAt

LEMMA OneOperandRead ==
    ASSUME NEW txt, NEW p, NEW o, NEW q, OperandIs(txt, p, o, q)
    PROVE  ListIs(txt, p, 1, One(o), q) /\ FirstOperand(txt, NextToken(txt, p)) = Read(One(o), NextToken(txt, q))
<1>1. Append(<<>>, o) = One(o)
  BY DEF One
<1>2. FirstOperand(txt, NextToken(txt, p)) = With(<<>>, Read(o, NextToken(txt, q)))
  BY DEF FirstOperand, OperandIs
<1>3. ASSUME NEW l PROVE With(<<>>, Read(o, l)) = Read(One(o), l)
  <2>. DEFINE r == Read(o, l)
  <2>1. r.ok /\ r.what = o /\ r.lexer = l
    BY DEF Read
  <2>. HIDE DEF r
  <2>2. With(<<>>, r) = Read(One(o), l)
    BY <1>1, <2>1 DEF With
  <2>. QED
    BY <2>2 DEF r
<1>4. FirstOperand(txt, NextToken(txt, p)) = Read(One(o), NextToken(txt, q))
  BY <1>2, <1>3
<1>. QED
  BY <1>4 DEF ListIs, OperandsAt

\* One round of the loop.
LEMMA AnotherRead ==
    ASSUME NEW txt, NEW args, NEW q, NEW p, CommaIs(txt, q, p)
    PROVE  AnotherOperand(txt, Read(args, NextToken(txt, q)))
             = With(args, OperandAt(txt, NextToken(txt, p)))
<1>. DEFINE l == NextToken(txt, q)
            r == Read(args, l)
<1>1. l.token.type = "COMMA" /\ l.position = p
  BY DEF CommaIs
<1>. HIDE DEF l
<1>2. r.ok /\ r.lexer = l /\ r.what = args
  BY DEF Read
<1>. HIDE DEF r
<1>3. TokenAfter(txt, l) = NextToken(txt, p)
  BY <1>1 DEF TokenAfter, NextToken
<1>4. AnotherOperand(txt, r) = With(r.what, OperandAt(txt, TokenAfter(txt, r.lexer)))
  BY <1>1, <1>2 DEF AnotherOperand
<1>. QED
  BY <1>2, <1>3, <1>4 DEF r, l

LEMMA TwoOperandsRead ==
    ASSUME NEW txt, NEW p, NEW o1, NEW q1, NEW p2, NEW o2, NEW q2,
           OperandIs(txt, p, o1, q1), CommaIs(txt, q1, p2), OperandIs(txt, p2, o2, q2)
    PROVE  ListIs(txt, p, 2, Two(o1, o2), q2)
<1>1. FirstOperand(txt, NextToken(txt, p)) = Read(One(o1), NextToken(txt, q1))
  BY OneOperandRead
<1>2. OperandsAt(txt, NextToken(txt, p), 2) = With(One(o1), OperandAt(txt, NextToken(txt, p2)))
  BY <1>1, AnotherRead DEF OperandsAt
<1>3. Append(One(o1), o2) = Two(o1, o2)
  BY AppendTwo DEF One, Two
<1>. QED
  BY <1>2, <1>3 DEF With, OperandIs, Read, ListIs

LEMMA ThreeOperandsRead ==
    ASSUME NEW txt, NEW p, NEW o1, NEW o2, NEW q2, NEW p3, NEW o3, NEW q3,
           ListIs(txt, p, 2, Two(o1, o2), q2), CommaIs(txt, q2, p3), OperandIs(txt, p3, o3, q3)
    PROVE  ListIs(txt, p, 3, Three(o1, o2, o3), q3)
<1>1. OperandsAt(txt, NextToken(txt, p), 3) = AnotherOperand(txt, OperandsAt(txt, NextToken(txt, p), 2))
  BY DEF OperandsAt
<1>2. OperandsAt(txt, NextToken(txt, p), 3) = With(Two(o1, o2), OperandAt(txt, NextToken(txt, p3)))
  BY <1>1, AnotherRead DEF ListIs
<1>3. Append(Two(o1, o2), o3) = Three(o1, o2, o3)
  BY AppendThree DEF Two, Three
<1>. QED
  BY <1>2, <1>3 DEF With, OperandIs, Read, ListIs

\* A second operand that is refused, of two or of three.
Refused(read) == ~read.ok /\ read.what.kind = "error"

LEMMA SecondRefused ==
    ASSUME NEW txt, NEW p, NEW o1, NEW q1, NEW p2,
           OperandIs(txt, p, o1, q1), CommaIs(txt, q1, p2), Refused(OperandAt(txt, NextToken(txt, p2))),
           NEW n \in {2, 3}
    PROVE  Refused(OperandsAt(txt, NextToken(txt, p), n))
<1>1. FirstOperand(txt, NextToken(txt, p)) = Read(One(o1), NextToken(txt, q1))
  BY OneOperandRead
<1>2. OperandsAt(txt, NextToken(txt, p), 2) = With(One(o1), OperandAt(txt, NextToken(txt, p2)))
  BY <1>1, AnotherRead DEF OperandsAt
<1>3. OperandsAt(txt, NextToken(txt, p), 2) = OperandAt(txt, NextToken(txt, p2))
  BY <1>2 DEF With, Refused
<1>4. OperandsAt(txt, NextToken(txt, p), 3) = AnotherOperand(txt, OperandsAt(txt, NextToken(txt, p), 2))
  BY DEF OperandsAt
<1>5. OperandsAt(txt, NextToken(txt, p), 3) = OperandsAt(txt, NextToken(txt, p), 2)
  BY <1>3, <1>4 DEF AnotherOperand, Refused
<1>. QED
  BY <1>3, <1>5

\* The first word of a listing is the instruction's.
LEMMA StatementRead ==
    ASSUME NEW txt, IsQuiet(txt), Len(txt) # 0, NEW m, txt[1] = Name(m),
           m \notin DOMAIN RegisterNumber, m # "EQU"
    PROVE  /\ m \notin DOMAIN Op => StatementAt(txt, NewLexer).what.kind = "error"
           /\ m \in DOMAIN Op =>
                 StatementAt(txt, NewLexer) =
                     Instruction(Op[m], OperandsAt(txt, NextToken(txt, 1), Len(Format(Op[m]))))
<1>. DEFINE l == [token |-> [type |-> "IDENTIFIER", word |-> m], position |-> 1]
<1>1. Len(txt) \in Nat /\ 0 \in 0 .. Len(txt) - 1 /\ 0 \in 0 .. Len(txt) /\ 0 < Len(txt) /\ 1 \in 0 .. Len(txt)
  BY DEF IsQuiet
<1>2. NextToken(txt, 0) = Scanned(txt, 0)
  <2>1. txt[0 + 1].is # "space"
    BY DEF Name
  <2>. QED
    BY <1>1, <2>1, QuietToken
<1>3. Scanned(txt, 0) = l
  <2>1. txt[0 + 1].is = "word" /\ txt[0 + 1].word = m
    BY DEF Name
  <2>2. Scanned(txt, 0) = [token |-> [type |-> IF txt[0 + 1].word \in DOMAIN RegisterNumber
                                                  THEN "REGISTER" ELSE "IDENTIFIER",
                                       word |-> txt[0 + 1].word],
                            position |-> 0 + 1]
    BY <1>1, <2>1, QuietScanned
  <2>. QED
    BY <2>1, <2>2
<1>4. Peek(txt, NewLexer) = l
  BY <1>2, <1>3 DEF Peek, NewLexer, NextToken
<1>5. ~EndsWithColon(txt, l.position)
  BY <1>1, QuietLabel
<1>6. l.token.type = "IDENTIFIER" /\ l.token.word = m /\ l.position = 1
  OBVIOUS
<1>. HIDE DEF l
<1>7. StatementAt(txt, NewLexer) = InstructionAt(txt, l)
  BY <1>4, <1>5, <1>6 DEF StatementAt, StatementFrom
<1>8. TokenAfter(txt, l) = NextToken(txt, 1)
  BY <1>6 DEF TokenAfter, NextToken
<1>9. m \notin DOMAIN Op => InstructionAt(txt, l) = Failure(l)
  BY <1>6 DEF InstructionAt
<1>10. m \in DOMAIN Op =>
         InstructionAt(txt, l) = Instruction(Op[m], OperandsAt(txt, NextToken(txt, 1), Len(Format(Op[m]))))
  BY <1>6, <1>8 DEF InstructionAt
<1>. QED
  BY <1>7, <1>9, <1>10 DEF Failure

\* A word after a space.
LEMMA WordShown ==
    ASSUME NEW txt, IsQuiet(txt), NEW p \in Nat, p + 1 < Len(txt), txt[p + 1] = Space,
           NEW x, txt[p + 2] = Name(x)
    PROVE  NextToken(txt, p) = [token |-> [type |-> IF x \in DOMAIN RegisterNumber
                                                      THEN "REGISTER" ELSE "IDENTIFIER",
                                           word |-> x],
                                position |-> p + 2]
<1>1. p \in 0 .. Len(txt) /\ p + 1 \in 0 .. Len(txt) - 1 /\ (p + 1) + 1 = p + 2
  BY DEF IsQuiet
<1>2. txt[p + 1].is = "space" /\ txt[p + 2].is = "word" /\ txt[p + 2].word = x
  BY DEF Space, Char, Name
<1>3. NextToken(txt, p) = Scanned(txt, p + 1)
  BY <1>1, <1>2, QuietToken
<1>4. Scanned(txt, p + 1) = [token |-> [type |-> IF txt[(p + 1) + 1].word \in DOMAIN RegisterNumber
                                                  THEN "REGISTER" ELSE "IDENTIFIER",
                                       word |-> txt[(p + 1) + 1].word],
                            position |-> (p + 1) + 1]
  <2>1. txt[(p + 1) + 1].is = "word"
    BY <1>1, <1>2
  <2>. QED
    BY <1>1, <2>1, QuietScanned
<1>. QED
  BY <1>1, <1>2, <1>3, <1>4

RegOperand(a) == [type |-> "REGISTER", reg |-> a]
NumOperand(v) == [type |-> "IMMEDIATE", value |-> v]
CellOperand(v) == [type |-> "MEMORY", value |-> v]

LEMMA RegisterShown ==
    ASSUME NEW r \in Register
    PROVE  \E x \in DOMAIN RegisterNumber : Reg(r) = Name(x) /\ RegisterNumber[x] = r
BY ShownNamesAssumption DEF Reg

LEMMA RegisterAt ==
    ASSUME NEW txt, IsQuiet(txt), NEW p \in Nat, p + 1 < Len(txt), txt[p + 1] = Space,
           NEW r \in Register, txt[p + 2] = Reg(r)
    PROVE  OperandIs(txt, p, RegOperand(r), p + 2)
<1>. DEFINE l == NextToken(txt, p)
<1>1. PICK x \in DOMAIN RegisterNumber : Reg(r) = Name(x) /\ RegisterNumber[x] = r
  BY RegisterShown
<1>2. l.token = [type |-> "REGISTER", word |-> x] /\ l.position = p + 2
  BY <1>1, WordShown
<1>. HIDE DEF l
<1>3. OperandAt(txt, l) = Read(RegOperand(r), NextToken(txt, p + 2))
  BY <1>1, <1>2, OperandsRead DEF RegOperand
<1>. QED
  BY <1>3 DEF l, OperandIs

LEMMA CallAt ==
    ASSUME NEW txt, IsQuiet(txt), NEW p \in Nat, p + 1 < Len(txt), txt[p + 1] = Space,
           NEW x, x \notin DOMAIN RegisterNumber, txt[p + 2] = Name(x)
    PROVE  OperandIs(txt, p, Named(x), p + 2)
<1>. DEFINE l == NextToken(txt, p)
<1>1. l.token = [type |-> "IDENTIFIER", word |-> x] /\ l.position = p + 2
  BY WordShown
<1>. HIDE DEF l
<1>2. OperandAt(txt, l) = Read(Named(x), NextToken(txt, p + 2))
  BY <1>1, OperandsRead
<1>. QED
  BY <1>2 DEF l, OperandIs

\* A mark, after a space or not, and a number after it.
Marks == {"COMMA", "HASH", "LBRACKET", "RBRACKET"}

LEMMA MarkAt ==
    ASSUME NEW txt, IsQuiet(txt), NEW p \in Nat, NEW c \in Marks
    PROVE  /\ p < Len(txt) /\ txt[p + 1] = Char(c) =>
                 NextToken(txt, p) = [token |-> [type |-> c], position |-> p + 1]
           /\ p + 1 < Len(txt) /\ txt[p + 1] = Space /\ txt[p + 2] = Char(c) =>
                 NextToken(txt, p) = [token |-> [type |-> c], position |-> p + 2]
<1>1. Len(txt) \in Nat
  BY DEF IsQuiet
<1>2. ASSUME p < Len(txt), txt[p + 1] = Char(c)
      PROVE  NextToken(txt, p) = [token |-> [type |-> c], position |-> p + 1]
  <2>1. txt[p + 1].is = c /\ c # "space" /\ p \in 0 .. Len(txt) - 1 /\ p \in 0 .. Len(txt)
    BY <1>1, <1>2 DEF Char, Marks
  <2>2. NextToken(txt, p) = Scanned(txt, p)
    BY <1>2, <2>1, QuietToken
  <2>. QED
    BY <2>1, <2>2, QuietScanned DEF Marks
<1>3. ASSUME p + 1 < Len(txt), txt[p + 1] = Space, txt[p + 2] = Char(c)
      PROVE  NextToken(txt, p) = [token |-> [type |-> c], position |-> p + 2]
  <2>1. /\ txt[p + 1].is = "space" /\ txt[p + 2].is = c /\ c # "space"
        /\ p + 1 \in 0 .. Len(txt) - 1 /\ p \in 0 .. Len(txt) /\ (p + 1) + 1 = p + 2
    BY <1>1, <1>3 DEF Char, Space, Marks
  <2>2. NextToken(txt, p) = Scanned(txt, p + 1)
    BY <1>3, <2>1, QuietToken
  <2>3. Scanned(txt, p + 1) = [token |-> [type |-> txt[(p + 1) + 1].is], position |-> (p + 1) + 1]
    <3>1. txt[(p + 1) + 1].is = c
      BY <2>1
    <3>. QED
      BY <2>1, <3>1, QuietScanned DEF Marks
  <2>. QED
    BY <2>1, <2>2, <2>3
<1>. QED
  BY <1>2, <1>3

LEMMA NumberAt ==
    ASSUME NEW txt, IsQuiet(txt), NEW p \in Nat, p < Len(txt), NEW v \in Word, txt[p + 1] = Numeral(v)
    PROVE  NextToken(txt, p) = [token |-> [type |-> "NUMBER", value |-> v], position |-> p + 1]
<1>1. /\ txt[p + 1].is = "number" /\ txt[p + 1].value = v
      /\ p \in 0 .. Len(txt) - 1 /\ p \in 0 .. Len(txt)
  BY DEF Numeral, IsQuiet
<1>2. NextToken(txt, p) = Scanned(txt, p)
  BY <1>1, QuietToken
<1>3. v % WordSpan = v
  BY WordAssumption DEF Word
<1>. QED
  BY <1>1, <1>2, <1>3, QuietScanned

LEMMA EndAt ==
    ASSUME NEW txt, IsQuiet(txt)
    PROVE  NextToken(txt, Len(txt)).token = [type |-> "EOF"]
BY QuietToken DEF IsQuiet

LEMMA CommaAt ==
    ASSUME NEW txt, IsQuiet(txt), NEW p \in Nat, p < Len(txt), txt[p + 1] = Comma
    PROVE  CommaIs(txt, p, p + 1)
<1>1. NextToken(txt, p) = [token |-> [type |-> "COMMA"], position |-> p + 1]
  BY MarkAt DEF Comma, Marks
<1>. QED
  BY <1>1 DEF CommaIs

\* "#" and a number.
LEMMA NumberOperandAt ==
    ASSUME NEW txt, IsQuiet(txt), NEW p \in Nat, p + 2 < Len(txt), NEW v \in Word,
           txt[p + 1] = Space, txt[p + 2] = Char("HASH"), txt[p + 3] = Numeral(v)
    PROVE  OperandIs(txt, p, NumOperand(v), p + 3)
<1>. DEFINE l == NextToken(txt, p)
            k == NextToken(txt, p + 2)
<1>0. Len(txt) \in Nat
  BY DEF IsQuiet
<1>1. l = [token |-> [type |-> "HASH"], position |-> p + 2]
  <2>1. p + 1 < Len(txt) /\ "HASH" \in Marks
    BY <1>0 DEF Marks
  <2>. QED
    BY <2>1, MarkAt
<1>2. k = [token |-> [type |-> "NUMBER", value |-> v], position |-> p + 3]
  <2>1. p + 2 \in Nat /\ (p + 2) + 1 = p + 3
    OBVIOUS
  <2>2. k = [token |-> [type |-> "NUMBER", value |-> v], position |-> (p + 2) + 1]
    BY <2>1, NumberAt
  <2>. QED
    BY <2>1, <2>2
<1>3. l.token = [type |-> "HASH"] /\ l.position = p + 2
  BY <1>1
<1>4. k.token = [type |-> "NUMBER", value |-> v] /\ k.position = p + 3
  BY <1>2
<1>5. k = NextToken(txt, l.position)
  BY <1>3
<1>. HIDE DEF l, k
<1>6. OperandAt(txt, l) = Read(NumOperand(v), NextToken(txt, p + 3))
  BY <1>3, <1>4, <1>5, NumberRead DEF NumOperand
<1>. QED
  BY <1>6 DEF l, OperandIs

\* A number in brackets.
LEMMA CellAt ==
    ASSUME NEW txt, IsQuiet(txt), NEW p \in Nat, p + 3 < Len(txt), NEW v \in Word, txt[p + 1] = Space,
           txt[p + 2] = Char("LBRACKET"), txt[p + 3] = Numeral(v), txt[p + 4] = Char("RBRACKET")
    PROVE  OperandIs(txt, p, CellOperand(v), p + 4)
<1>. DEFINE l == NextToken(txt, p)
            k == NextToken(txt, p + 2)
            c == NextToken(txt, p + 3)
<1>0. Len(txt) \in Nat
  BY DEF IsQuiet
<1>1. l = [token |-> [type |-> "LBRACKET"], position |-> p + 2]
  <2>1. p + 1 < Len(txt) /\ "LBRACKET" \in Marks
    BY <1>0 DEF Marks
  <2>. QED
    BY <2>1, MarkAt
<1>2. k = [token |-> [type |-> "NUMBER", value |-> v], position |-> p + 3]
  <2>1. p + 2 \in Nat /\ (p + 2) + 1 = p + 3 /\ p + 2 < Len(txt)
    BY <1>0
  <2>2. k = [token |-> [type |-> "NUMBER", value |-> v], position |-> (p + 2) + 1]
    BY <2>1, NumberAt
  <2>. QED
    BY <2>1, <2>2
<1>3. c = [token |-> [type |-> "RBRACKET"], position |-> p + 4]
  <2>1. p + 3 \in Nat /\ (p + 3) + 1 = p + 4 /\ "RBRACKET" \in Marks
    BY DEF Marks
  <2>2. c = [token |-> [type |-> "RBRACKET"], position |-> (p + 3) + 1]
    BY <2>1, MarkAt
  <2>. QED
    BY <2>1, <2>2
<1>4. l.token = [type |-> "LBRACKET"] /\ l.position = p + 2
  BY <1>1
<1>5. k.token = [type |-> "NUMBER", value |-> v] /\ k.position = p + 3
  BY <1>2
<1>6. c.token = [type |-> "RBRACKET"] /\ c.position = p + 4
  BY <1>3
<1>7. k = NextToken(txt, l.position) /\ c = NextToken(txt, k.position)
  BY <1>4, <1>5
<1>. HIDE DEF l, k, c
<1>8. OperandAt(txt, l) = Read(CellOperand(v), NextToken(txt, p + 4))
  BY <1>4, <1>5, <1>6, <1>7, CellRead DEF CellOperand
<1>. QED
  BY <1>8 DEF l, OperandIs

\* A register in brackets.
LEMMA IndirectAt ==
    ASSUME NEW txt, IsQuiet(txt), NEW p \in Nat, p + 2 < Len(txt), NEW r \in Register,
           txt[p + 1] = Space, txt[p + 2] = Char("LBRACKET"), txt[p + 3] = Reg(r)
    PROVE  Refused(OperandAt(txt, NextToken(txt, p)))
<1>. DEFINE l == NextToken(txt, p)
<1>0. Len(txt) \in Nat
  BY DEF IsQuiet
<1>1. l = [token |-> [type |-> "LBRACKET"], position |-> p + 2]
  <2>1. p + 1 < Len(txt) /\ "LBRACKET" \in Marks
    BY <1>0 DEF Marks
  <2>. QED
    BY <2>1, MarkAt
<1>2. PICK x \in DOMAIN RegisterNumber : Reg(r) = Name(x)
  BY RegisterShown
<1>3. NextToken(txt, p + 2).token = [type |-> "REGISTER", word |-> x]
  <2>1. p + 2 \in 0 .. Len(txt) - 1 /\ p + 2 \in 0 .. Len(txt) /\ (p + 2) + 1 = p + 3
    BY <1>0
  <2>2. txt[(p + 2) + 1].is = "word" /\ txt[(p + 2) + 1].word = x
    BY <1>2, <2>1 DEF Name
  <2>3. NextToken(txt, p + 2) = Scanned(txt, p + 2)
    BY <2>1, <2>2, QuietToken
  <2>4. Scanned(txt, p + 2)
          = [token |-> [type |-> IF txt[(p + 2) + 1].word \in DOMAIN RegisterNumber
                                   THEN "REGISTER" ELSE "IDENTIFIER",
                        word |-> txt[(p + 2) + 1].word],
             position |-> (p + 2) + 1]
    BY <2>1, <2>2, QuietScanned
  <2>. QED
    BY <2>2, <2>3, <2>4
<1>4. l.token = [type |-> "LBRACKET"] /\ l.position = p + 2
  BY <1>1
<1>. HIDE DEF l
<1>5. NextToken(txt, l.position).token = [type |-> "REGISTER", word |-> x]
  BY <1>3, <1>4
<1>6. Refused(OperandAt(txt, l))
  BY <1>4, <1>5, IndirectRefused DEF Refused
<1>. QED
  BY <1>6 DEF l

\* The first word of a listing is the instruction's: what is read after it.
Instruct(op, args) == [kind |-> "instruction", instruction |-> [op |-> op, args |-> args]]
Encoded(op, args, w) ==
    \A junk \in Junk : Encode(EmptySymbolTable, [op |-> op, args |-> args], junk) = w

\* The opcodes fit their field, and 0 fits every field.
LEMMA FieldsFit ==
    /\ \A op \in Opcodes : op \in 0 .. OpSpan - 1 /\ op \in Nat
    /\ 0 \in Register /\ 0 \in 0 .. ImmSpan - 1
    /\ \A v \in 0 .. ImmSpan - 1 : v % ImmSpan = v
<1>1. OpSpan \in Nat /\ NReg \in Nat \ {0} /\ ImmSpan \in Nat \ {0}
  BY ISAAssumption
<1>2. \A op \in Opcodes : op \in 0 .. OpSpan - 1
  BY OpcodeAssumption
<1>3. \A op \in 0 .. OpSpan - 1 : op \in Nat
  BY <1>1
<1>4. 0 \in Register
  BY <1>1 DEF Register
<1>5. 0 \in 0 .. ImmSpan - 1 /\ \A v \in 0 .. ImmSpan - 1 : v % ImmSpan = v
  BY <1>1
<1>. QED
  BY <1>2, <1>3, <1>4, <1>5

LEMMA MnemonicOf ==
    ASSUME NEW n \in Mnemonics
    PROVE  /\ Mnemonic(Op[n]) \in DOMAIN Op /\ Op[Mnemonic(Op[n])] = Op[n]
           /\ Mnemonic(Op[n]) # "EQU" /\ Mnemonic(Op[n]) \notin DOMAIN RegisterNumber
           /\ Op[n] \in Opcodes
<1>1. \E k \in Mnemonics : Op[k] = Op[n]
  OBVIOUS
<1>2. Mnemonic(Op[n]) \in Mnemonics /\ Op[Mnemonic(Op[n])] = Op[n]
  BY <1>1 DEF Mnemonic
<1>3. Mnemonics \subseteq DOMAIN Op /\ "EQU" \notin Mnemonics
  BY DEF Mnemonics, Op
<1>4. Mnemonic(Op[n]) \notin DOMAIN RegisterNumber
  BY <1>2, ShownNamesAssumption
<1>. QED
  BY <1>2, <1>3, <1>4 DEF Opcodes

\* A text that begins with the name of an instruction.
Begins(txt, op) == IsQuiet(txt) /\ Len(txt) # 0 /\ txt[1] = Name(Mnemonic(op))

LEMMA InstructionRead ==
    ASSUME NEW n \in Mnemonics, NEW txt, Begins(txt, Op[n])
    PROVE  StatementAt(txt, NewLexer)
             = Instruction(Op[n], OperandsAt(txt, NextToken(txt, 1), Len(Format(Op[n]))))
<1>. DEFINE m == Mnemonic(Op[n])
<1>1. m \in DOMAIN Op /\ Op[m] = Op[n] /\ m # "EQU" /\ m \notin DOMAIN RegisterNumber
  BY MnemonicOf
<1>2. IsQuiet(txt) /\ Len(txt) # 0 /\ txt[1] = Name(m)
  BY DEF Begins
<1>. HIDE DEF m
<1>3. StatementAt(txt, NewLexer)
        = Instruction(Op[m], OperandsAt(txt, NextToken(txt, 1), Len(Format(Op[m]))))
  BY <1>1, <1>2, StatementRead
<1>. QED
  BY <1>1, <1>3

\* What SpellsWord comes to at the end of the text, before a comma and after an error.
LEMMA TextSpells ==
    ASSUME NEW n \in Mnemonics, NEW txt, Begins(txt, Op[n]), NEW args, NEW p,
           ListIs(txt, 1, Len(Format(Op[n])), args, p), NEW w
    PROVE  /\ p = Len(txt) =>
                 (SpellsWord(txt, StatementAt(txt, NewLexer), w) <=> Encoded(Op[n], args, w))
           /\ NextToken(txt, p).token.type = "COMMA" => ~SpellsWord(txt, StatementAt(txt, NewLexer), w)
<1>. DEFINE s == StatementAt(txt, NewLexer)
            l == NextToken(txt, p)
            read == Read(args, l)
<1>1. s = Instruction(Op[n], read)
  BY InstructionRead DEF ListIs
<1>2. p = Len(txt) => l.token = [type |-> "EOF"]
  BY EndAt DEF Begins
<1>. HIDE DEF s, l
<1>3. read.ok /\ read.what = args /\ read.lexer = l
  BY DEF Read
<1>3a. read = [ok |-> TRUE, what |-> args, lexer |-> l]
  BY DEF Read
<1>. HIDE DEF read
<1>4. s = [read EXCEPT !.what = Instruct(Op[n], args)]
  BY <1>1, <1>3 DEF Instruction, Instruct
<1>5. s.what = Instruct(Op[n], args) /\ s.lexer = l
  BY <1>3a, <1>4
<1>6. s.what.kind = "instruction" /\ s.what.instruction = [op |-> Op[n], args |-> args]
  BY <1>5 DEF Instruct
<1>7. l.token.type \in {"EOF", "COMMA"} => Token(txt, l).type = l.token.type
  <2>1. l.token.type \in {"EOF", "COMMA"} => l.token # NoToken
    BY DEF NoToken
  <2>. QED
    BY <2>1 DEF Token, Peek
<1>8. p = Len(txt) => l.token.type = "EOF"
  BY <1>2
<1>9. SpellsWord(txt, s, w) <=> Token(txt, l).type = "EOF" /\ Encoded(Op[n], args, w)
  BY <1>5, <1>6 DEF SpellsWord, Encoded
<1>10. /\ p = Len(txt) => (SpellsWord(txt, s, w) <=> Encoded(Op[n], args, w))
       /\ l.token.type = "COMMA" => ~SpellsWord(txt, s, w)
  BY <1>7, <1>8, <1>9
<1>. QED
  BY <1>10 DEF s, l

LEMMA TextRefused ==
    ASSUME NEW n \in Mnemonics, NEW txt, Begins(txt, Op[n]), NEW w,
           Refused(OperandsAt(txt, NextToken(txt, 1), Len(Format(Op[n]))))
    PROVE  ~SpellsWord(txt, StatementAt(txt, NewLexer), w)
<1>. DEFINE read == OperandsAt(txt, NextToken(txt, 1), Len(Format(Op[n])))
<1>1. StatementAt(txt, NewLexer) = Instruction(Op[n], read)
  BY InstructionRead
<1>. HIDE DEF read
<1>2. ~read.ok /\ read.what.kind = "error"
  BY DEF Refused, read
<1>. QED
  BY <1>1, <1>2 DEF Instruction, SpellsWord

LEMMA JunkExists == 0 \in Junk
<1>1. ImmSpan - 1 \in Nat /\ ByteSpan \in Nat \ {0}
  BY ISAAssumption, ByteAssumption
<1>2. (ImmSpan - 1) \div ByteSpan \in Nat
  BY <1>1, DivNat
<1>. QED
  BY <1>2 DEF Junk

\* The fields of a word.
LEMMA WordParts ==
    ASSUME NEW w \in Word
    PROVE  /\ Reg1(w) \in Register /\ Reg2(w) \in Register /\ Reg3(w) \in Register
           /\ 0 \in Register
           /\ Imm(w) \in 0 .. ImmSpan - 1 /\ 0 \in 0 .. ImmSpan - 1 /\ Imm(w) \in Word
<1>1. /\ NReg \in Nat \ {0} /\ ImmSpan \in Nat \ {0} /\ w \in Nat
      /\ WordSpan \in Nat
  BY ISAAssumption, WordAssumption DEF Word
<1>2. NReg * ImmSpan \in Nat \ {0}
  BY <1>1, ProductPositive
<1>3. NReg * (NReg * ImmSpan) \in Nat \ {0}
  BY <1>1, <1>2, ProductPositive
<1>4. ASSUME NEW d \in Nat \ {0} PROVE (w \div d) % NReg \in Register
  <2>1. w \div d \in Nat
    BY <1>1, DivNat
  <2>. QED
    BY <1>1, <2>1, ModRange DEF Register
<1>5. Imm(w) \in 0 .. ImmSpan - 1
  BY <1>1, ImmediateRange DEF Imm
<1>6. w % ImmSpan <= w
  BY <1>1
<1>. QED
  BY <1>1, <1>2, <1>3, <1>4, <1>5, <1>6 DEF Reg1, Reg2, Reg3, Register, Imm, Word

\* What is encoded is one word.
LEMMA EncodedOnce ==
    ASSUME NEW op, NEW args, NEW x, NEW w, Encoded(op, args, x)
    PROVE  Encoded(op, args, w) <=> w = x
BY JunkExists DEF Encoded

LEMMA FirstRegister ==
    ASSUME NEW op, NEW a \in Register, NEW o, NEW i,
           i = [op |-> op, args |-> Two(RegOperand(a), o)]
    PROVE  RegisterField(i, 1) = a /\ i.args[2] = o /\ i.op = op
<1>1. Len(i.args) = 2 /\ i.args[1].type = "REGISTER" /\ i.args[1].reg = a /\ i.args[2] = o /\ i.op = op
  BY DEF RegOperand, Two
<1>2. 1 \in 1 .. 3 /\ 1 <= Len(i.args)
  BY <1>1
<1>. QED
  BY <1>1, <1>2, RegisterFields

LEMMA ImmediateForm ==
    ASSUME NEW i, i.op \in ImmediateOps, NEW junk, NEW v, Number(EmptySymbolTable, i, 2, junk) % ImmSpan = v
    PROVE  Encode(EmptySymbolTable, i, junk) = Joined(i.op, RegisterField(i, 1), 0, 0, v)
BY Classes DEF Encode

LEMMA JumpForm ==
    ASSUME NEW i, i.op \in JumpOps, NEW junk, NEW v, Number(EmptySymbolTable, i, 1, junk) % ImmSpan = v
    PROVE  Encode(EmptySymbolTable, i, junk) = Pack(i.op, 0, 0, 0, v)
BY Classes DEF Encode

LEMMA NumberEncoded ==
    ASSUME NEW op \in ImmediateOps, NEW a \in Register, NEW v \in 0 .. ImmSpan - 1,
           NEW o, o.type \in {"IMMEDIATE", "MEMORY"}, o.value = v
    PROVE  Encoded(op, Two(RegOperand(a), o), Pack(op, a, 0, 0, v))
<1>. SUFFICES ASSUME NEW junk \in Junk, NEW i, i = [op |-> op, args |-> Two(RegOperand(a), o)]
              PROVE  Encode(EmptySymbolTable, i, junk) = Pack(op, a, 0, 0, v)
  BY DEF Encoded
<1>1. RegisterField(i, 1) = a /\ i.args[2] = o /\ i.op = op
  BY FirstRegister
<1>2. o \notin Symbolic(i)
  BY DEF Symbolic
<1>3. Number(EmptySymbolTable, i, 2, junk) = v
  BY <1>1, <1>2 DEF Number, UnionWord
<1>4. v % ImmSpan = v /\ op \in 0 .. OpSpan - 1 /\ 0 \in Register
  <2>1. op \in Opcodes
    BY DEF ImmediateOps, Opcodes, Op
  <2>. QED
    BY <2>1, FieldsFit
<1>5. Encode(EmptySymbolTable, i, junk) = Joined(op, a, 0, 0, v)
  BY <1>1, <1>3, <1>4, ImmediateForm
<1>. QED
  BY <1>4, <1>5, JoinedPack

\* A name read as a number is its first letters.
LEMMA NameEncoded ==
    ASSUME NEW op, op = Op.SYS, NEW a \in Register, NEW n \in Names, NEW o, o.type = "LABEL", o.label = n,
           NEW v, v = LeadingWord(Spelling[n]) % ImmSpan
    PROVE  Encoded(op, Two(RegOperand(a), o), Pack(op, a, 0, 0, v))
<1>0. /\ op # Op.MOV /\ op # Op.LOAD /\ op \notin JumpOps
      /\ op \in Opcodes /\ op \in ImmediateOps
  BY DEF Opcodes, Op, ImmediateOps, JumpOps
<1>. SUFFICES ASSUME NEW junk \in Junk, NEW i, i = [op |-> op, args |-> Two(RegOperand(a), o)]
              PROVE  Encode(EmptySymbolTable, i, junk) = Pack(op, a, 0, 0, v)
  BY DEF Encoded
<1>1. RegisterField(i, 1) = a /\ i.args[2] = o /\ i.op = op
  BY FirstRegister
<1>2. o \notin Symbolic(i)
  BY <1>0, <1>1 DEF Symbolic
<1>3. Number(EmptySymbolTable, i, 2, junk) = LeadingWord(Spelling[n])
  BY <1>1, <1>2 DEF Number, UnionWord
<1>4. v \in 0 .. ImmSpan - 1
  <2>1. Spelling[n] \in Seq(Byte)
    BY EncoderAssumption
  <2>. DEFINE x == LeadingWord(Spelling[n])
  <2>2. x \in Nat
    BY <2>1, LeadingWordTyped
  <2>. HIDE DEF x
  <2>3. x % ImmSpan \in 0 .. ImmSpan - 1
    BY <2>2, ImmediateRange
  <2>. QED
    BY <2>3 DEF x
<1>5. op \in 0 .. OpSpan - 1 /\ 0 \in Register
  BY <1>0, FieldsFit
<1>6. Encode(EmptySymbolTable, i, junk) = Joined(op, a, 0, 0, v)
  BY <1>0, <1>1, <1>3, ImmediateForm
<1>. QED
  BY <1>4, <1>5, <1>6, JoinedPack

LEMMA JumpEncoded ==
    ASSUME NEW op, op = Op.JMP, NEW v \in 0 .. ImmSpan - 1
    PROVE  Encoded(op, One(NumOperand(v)), Pack(op, 0, 0, 0, v))
<1>. DEFINE o == NumOperand(v)
<1>0. op \in JumpOps
  BY DEF Op, JumpOps
<1>. SUFFICES ASSUME NEW junk \in Junk, NEW i, i = [op |-> op, args |-> One(o)]
              PROVE  Encode(EmptySymbolTable, i, junk) = Pack(op, 0, 0, 0, v)
  BY DEF Encoded
<1>1. o.type = "IMMEDIATE" /\ o.value = v
  BY DEF NumOperand
<1>2. i.args[1] = o /\ i.op = op
  BY DEF One
<1>. HIDE DEF o
<1>3. o \notin Symbolic(i)
  BY <1>1 DEF Symbolic
<1>4. Number(EmptySymbolTable, i, 1, junk) = v
  BY <1>1, <1>2, <1>3 DEF Number, UnionWord
<1>5. v % ImmSpan = v
  BY FieldsFit
<1>. QED
  BY <1>0, <1>2, <1>4, <1>5, JumpForm

\* Registers only; those not written are 0.
LEMMA RegistersEncoded ==
    ASSUME NEW op \in Opcodes, op \notin ImmediateOps \union JumpOps,
           NEW args, Len(args) \in 0 .. 3,
           \A k \in 1 .. Len(args) : args[k].type = "REGISTER" /\ args[k].reg \in Register,
           op \in ArithmeticOps \union {Op.CMP} => Len(args) # 0,
           NEW x, x = IF Len(args) >= 1 THEN args[1].reg ELSE 0,
           NEW y, y = IF Len(args) >= 2 THEN args[2].reg ELSE 0,
           NEW z, z = IF Len(args) >= 3 THEN args[3].reg ELSE 0
    PROVE  Encoded(op, args, Pack(op, x, y, z, 0))
<1>. SUFFICES ASSUME NEW junk \in Junk, NEW i, i = [op |-> op, args |-> args]
              PROVE  Encode(EmptySymbolTable, i, junk) = Pack(op, x, y, z, 0)
  BY DEF Encoded
<1>1. op \in 0 .. OpSpan - 1 /\ 0 \in Register /\ 0 \in 0 .. ImmSpan - 1
  BY FieldsFit
<1>2. i.op = op /\ i.args = args
  OBVIOUS
<1>3. op \in ArithmeticOps \union {Op.CMP} => LastArg(i).type # "IMMEDIATE"
  <2>1. Len(args) # 0 => Len(args) \in 1 .. Len(args)
    OBVIOUS
  <2>. QED
    BY <1>2, <2>1 DEF LastArg
<1>4. ASSUME NEW k \in 1 .. 3
      PROVE  RegisterField(i, k) = IF Len(args) >= k THEN args[k].reg ELSE 0
  <2>1. Len(args) >= k => k \in 1 .. Len(args) /\ k <= Len(args)
    OBVIOUS
  <2>2. ~(Len(args) >= k) => ~(k <= Len(args))
    OBVIOUS
  <2>. QED
    BY <1>2, <2>1, <2>2, RegisterFields
<1>5. RegisterField(i, 1) = x /\ RegisterField(i, 2) = y /\ RegisterField(i, 3) = z
  BY <1>4
<1>6. x \in Register /\ y \in Register /\ z \in Register
  BY <1>1
<1>7. Encode(EmptySymbolTable, i, junk) = Joined(op, x, y, z, 0)
  BY <1>2, <1>3, <1>5 DEF Encode
<1>. QED
  BY <1>1, <1>6, <1>7, JoinedPack

LEMMA ThreeEncoded ==
    ASSUME NEW op \in Opcodes, op \notin ImmediateOps \union JumpOps,
           NEW a \in Register, NEW b \in Register, NEW c \in Register
    PROVE  Encoded(op, Three(RegOperand(a), RegOperand(b), RegOperand(c)), Pack(op, a, b, c, 0))
<1>. DEFINE args == Three(RegOperand(a), RegOperand(b), RegOperand(c))
<1>1. Len(args) = 3 /\ args[1] = RegOperand(a) /\ args[2] = RegOperand(b) /\ args[3] = RegOperand(c)
  BY DEF Three
<1>2. \A r \in Register : RegOperand(r).type = "REGISTER" /\ RegOperand(r).reg = r
  BY DEF RegOperand
<1>3. \A k \in 1 .. 3 : k = 1 \/ k = 2 \/ k = 3
  OBVIOUS
<1>. HIDE DEF args
<1>4. \A k \in 1 .. Len(args) : args[k].type = "REGISTER" /\ args[k].reg \in Register
  BY <1>1, <1>2, <1>3
<1>5. /\ a = IF Len(args) >= 1 THEN args[1].reg ELSE 0
      /\ b = IF Len(args) >= 2 THEN args[2].reg ELSE 0
      /\ c = IF Len(args) >= 3 THEN args[3].reg ELSE 0
      /\ Len(args) \in 0 .. 3 /\ Len(args) # 0
  BY <1>1, <1>2
<1>6. Encoded(op, args, Pack(op, a, b, c, 0))
  BY <1>4, <1>5, RegistersEncoded
<1>. QED
  BY <1>6 DEF args

LEMMA TwoEncoded ==
    ASSUME NEW op \in Opcodes, op \notin ImmediateOps \union JumpOps,
           NEW a \in Register, NEW b \in Register
    PROVE  Encoded(op, Two(RegOperand(a), RegOperand(b)), Pack(op, a, b, 0, 0))
<1>. DEFINE args == Two(RegOperand(a), RegOperand(b))
<1>1. Len(args) = 2 /\ args[1] = RegOperand(a) /\ args[2] = RegOperand(b)
  BY DEF Two
<1>2. \A r \in Register : RegOperand(r).type = "REGISTER" /\ RegOperand(r).reg = r
  BY DEF RegOperand
<1>3. \A k \in 1 .. 2 : k = 1 \/ k = 2
  OBVIOUS
<1>. HIDE DEF args
<1>4. \A k \in 1 .. Len(args) : args[k].type = "REGISTER" /\ args[k].reg \in Register
  BY <1>1, <1>2, <1>3
<1>5. /\ a = IF Len(args) >= 1 THEN args[1].reg ELSE 0
      /\ b = IF Len(args) >= 2 THEN args[2].reg ELSE 0
      /\ 0 = IF Len(args) >= 3 THEN args[3].reg ELSE 0
      /\ Len(args) \in 0 .. 3 /\ Len(args) # 0
  BY <1>1, <1>2
<1>6. Encoded(op, args, Pack(op, a, b, 0, 0))
  BY <1>4, <1>5, RegistersEncoded
<1>. QED
  BY <1>6 DEF args

LEMMA OneEncoded ==
    ASSUME NEW op \in Opcodes, op \notin ImmediateOps \union JumpOps, NEW a \in Register
    PROVE  Encoded(op, One(RegOperand(a)), Pack(op, a, 0, 0, 0))
<1>. DEFINE args == One(RegOperand(a))
<1>1. Len(args) = 1 /\ args[1] = RegOperand(a)
  BY DEF One
<1>2. \A r \in Register : RegOperand(r).type = "REGISTER" /\ RegOperand(r).reg = r
  BY DEF RegOperand
<1>3. \A k \in 1 .. 1 : k = 1
  OBVIOUS
<1>. HIDE DEF args
<1>4. \A k \in 1 .. Len(args) : args[k].type = "REGISTER" /\ args[k].reg \in Register
  BY <1>1, <1>2, <1>3
<1>5. /\ a = IF Len(args) >= 1 THEN args[1].reg ELSE 0
      /\ 0 = IF Len(args) >= 2 THEN args[2].reg ELSE 0
      /\ 0 = IF Len(args) >= 3 THEN args[3].reg ELSE 0
      /\ Len(args) \in 0 .. 3 /\ Len(args) # 0
  BY <1>1, <1>2
<1>6. Encoded(op, args, Pack(op, a, 0, 0, 0))
  BY <1>4, <1>5, RegistersEncoded
<1>. QED
  BY <1>6 DEF args

LEMMA NoneEncoded ==
    ASSUME NEW op \in Opcodes, op \notin ImmediateOps \union JumpOps \union ArithmeticOps \union {Op.CMP}
    PROVE  Encoded(op, <<>>, Pack(op, 0, 0, 0, 0))
<1>. DEFINE args == <<>>
<1>1. Len(args) = 0
  OBVIOUS
<1>. HIDE DEF args
<1>2. /\ 0 = IF Len(args) >= 1 THEN args[1].reg ELSE 0
      /\ 0 = IF Len(args) >= 2 THEN args[2].reg ELSE 0
      /\ 0 = IF Len(args) >= 3 THEN args[3].reg ELSE 0
      /\ Len(args) \in 0 .. 3
      /\ \A k \in 1 .. Len(args) : args[k].type = "REGISTER" /\ args[k].reg \in Register
  BY <1>1
<1>3. Encoded(op, args, Pack(op, 0, 0, 0, 0))
  BY <1>2, RegistersEncoded
<1>. QED
  BY <1>3 DEF args

----------------------------------------------------------------------------
(* The texts of the disassembler, one shape after the other.               *)

\* The kinds of the characters of a listing.
LEMMA ShownKinds ==
    /\ \A x : Name(x).is \in Quiet
    /\ \A v : Numeral(v).is \in Quiet
    /\ Space.is \in Quiet /\ Comma.is \in Quiet
    /\ \A c \in {"HASH", "LBRACKET", "RBRACKET", "UNKNOWN"} : Char(c).is \in Quiet
    /\ \A r : Reg(r).is \in Quiet
BY DEF Name, Numeral, Space, Comma, Char, Quiet, Reg

\* A register first, and what follows it.
FirstIs(txt, op, r) ==
    Begins(txt, op) /\ Len(txt) \in Nat /\ 2 < Len(txt) /\ txt[2] = Space /\ r \in Register /\ txt[3] = Reg(r)

LEMMA FirstRead ==
    ASSUME NEW txt, NEW op, NEW r, FirstIs(txt, op, r)
    PROVE  /\ OperandIs(txt, 1, RegOperand(r), 3)
           /\ 3 < Len(txt) /\ txt[4] = Comma => CommaIs(txt, 3, 4)
<1>1. IsQuiet(txt) /\ 1 \in Nat /\ 1 + 1 < Len(txt) /\ 1 + 1 = 2 /\ 1 + 2 = 3 /\ 3 \in Nat /\ 3 + 1 = 4
  BY DEF FirstIs, Begins
<1>2. OperandIs(txt, 1, RegOperand(r), 1 + 2)
  BY <1>1, RegisterAt DEF FirstIs
<1>3. 3 < Len(txt) /\ txt[4] = Comma => CommaIs(txt, 3, 3 + 1)
  BY <1>1, CommaAt
<1>. QED
  BY <1>1, <1>2, <1>3

\* A register, a comma and one operand more.
PairIs(txt, op, r, o) ==
    /\ FirstIs(txt, op, r) /\ 3 < Len(txt) /\ txt[4] = Comma
    /\ Len(Format(op)) = 2 /\ OperandIs(txt, 4, o, Len(txt))

Known == {Op[n] : n \in Mnemonics}

PairShownAs(w, op, r, o, x) ==
    w \in Word /\ op \in Known /\ PairIs(Shown(w), op, r, o) /\ Encoded(op, Two(RegOperand(r), o), x)

LEMMA PairShown ==
    ASSUME NEW w, NEW op, NEW r, NEW o, NEW x, PairShownAs(w, op, r, o, x)
    PROVE  Reassembles(w) <=> w = x
<1>. DEFINE txt == Shown(w)
<1>0. PICK n \in Mnemonics : op = Op[n]
  BY DEF PairShownAs, Known
<1>1. PairIs(txt, op, r, o) /\ Encoded(op, Two(RegOperand(r), o), x)
  BY DEF PairShownAs
<1>. HIDE DEF txt
<1>2. OperandIs(txt, 1, RegOperand(r), 3) /\ CommaIs(txt, 3, 4)
  BY <1>1, FirstRead DEF PairIs
<1>3. ListIs(txt, 1, Len(Format(Op[n])), Two(RegOperand(r), o), Len(txt))
  BY <1>0, <1>1, <1>2, TwoOperandsRead DEF PairIs
<1>4. SpellsWord(txt, StatementAt(txt, NewLexer), w) <=> Encoded(Op[n], Two(RegOperand(r), o), w)
  BY <1>0, <1>1, <1>3, TextSpells DEF PairIs, FirstIs
<1>5. Encoded(op, Two(RegOperand(r), o), w) <=> w = x
  BY <1>1, EncodedOnce
<1>. QED
  BY <1>0, <1>4, <1>5 DEF Reassembles, txt

\* MOV and LOAD.
LEMMA NumberShown ==
    ASSUME NEW w \in Word, NEW n \in {"MOV", "LOAD"}, Opcode(w) = Op[n]
    PROVE  Reassembles(w) <=> w = Pack(Op[n], Reg1(w), 0, 0, Imm(w))
<1>. DEFINE txt == Shown(w)
<1>0. /\ n \in Mnemonics /\ Op[n] \in ImmediateOps /\ Op[n] \in Opcodes
      /\ Reg1(w) \in Register /\ Imm(w) \in 0 .. ImmSpan - 1 /\ Imm(w) \in Word
  BY WordParts DEF Mnemonics, ImmediateOps, Opcodes, Op
<1>1. txt = <<Name(Mnemonic(Op[n])), Space, Reg(Reg1(w)), Comma, Space, Char("HASH"), Numeral(Imm(w))>>
  BY SMTT(30) DEF Shown, Op
<1>. HIDE DEF txt
<1>2. /\ Len(txt) = 7
      /\ txt[1] = Name(Mnemonic(Op[n])) /\ txt[2] = Space /\ txt[3] = Reg(Reg1(w)) /\ txt[4] = Comma
      /\ txt[5] = Space /\ txt[6] = Char("HASH") /\ txt[7] = Numeral(Imm(w))
  BY <1>1
<1>3. IsQuiet(txt)
  <2>1. \A k \in 1 .. 7 : k = 1 \/ k = 2 \/ k = 3 \/ k = 4 \/ k = 5 \/ k = 6 \/ k = 7
    OBVIOUS
  <2>. QED
    BY <1>2, <2>1, ShownKinds DEF IsQuiet
<1>4. FirstIs(txt, Op[n], Reg1(w))
  BY <1>0, <1>2, <1>3 DEF FirstIs, Begins
<1>5. OperandIs(txt, 4, NumOperand(Imm(w)), Len(txt))
  <2>1. 4 \in Nat /\ 4 + 1 = 5 /\ 4 + 2 = 6 /\ 4 + 3 = 7 /\ 4 + 2 < Len(txt)
    BY <1>2
  <2>2. OperandIs(txt, 4, NumOperand(Imm(w)), 4 + 3)
    BY <1>0, <1>2, <1>3, <2>1, NumberOperandAt
  <2>. QED
    BY <1>2, <2>1, <2>2
<1>6. Len(Format(Op[n])) = 2
  BY <1>0, FormatTypes, Classes
<1>7. Encoded(Op[n], Two(RegOperand(Reg1(w)), NumOperand(Imm(w))), Pack(Op[n], Reg1(w), 0, 0, Imm(w)))
  <2>1. NumOperand(Imm(w)).type = "IMMEDIATE" /\ NumOperand(Imm(w)).value = Imm(w)
    BY DEF NumOperand
  <2>. QED
    BY <1>0, <2>1, NumberEncoded
<1>8. 3 < Len(txt)
  BY <1>2
<1>. QED
  <2>. DEFINE op == Op[n]
              o  == NumOperand(Imm(w))
              x  == Pack(Op[n], Reg1(w), 0, 0, Imm(w))
              r  == Reg1(w)
  <2>1. PairIs(txt, op, r, o)
    BY <1>2, <1>4, <1>5, <1>6, <1>8 DEF PairIs
  <2>2. PairShownAs(w, op, r, o, x)
    BY <1>0, <1>7, <2>1 DEF txt, PairShownAs, Known
  <2>. HIDE DEF op, o, x, r
  <2>3. Reassembles(w) <=> w = x
    BY <2>2, PairShown
  <2>. QED
    BY <2>3 DEF x, op, r

\* STORE.
LEMMA CellShown ==
    ASSUME NEW w \in Word, NEW n \in {"STORE"}, Opcode(w) = Op[n]
    PROVE  Reassembles(w) <=> w = Pack(Op[n], Reg1(w), 0, 0, Imm(w))
<1>. DEFINE txt == Shown(w)
<1>0. /\ n \in Mnemonics /\ Op[n] \in ImmediateOps /\ Op[n] \in Opcodes
      /\ Reg1(w) \in Register /\ Imm(w) \in 0 .. ImmSpan - 1 /\ Imm(w) \in Word
  BY WordParts DEF Mnemonics, ImmediateOps, Opcodes, Op
<1>1. txt = <<Name(Mnemonic(Op[n])), Space, Reg(Reg1(w)), Comma, Space,
              Char("LBRACKET"), Numeral(Imm(w)), Char("RBRACKET")>>
  BY DEF Shown, Op
<1>. HIDE DEF txt
<1>2. /\ Len(txt) = 8
      /\ txt[1] = Name(Mnemonic(Op[n])) /\ txt[2] = Space /\ txt[3] = Reg(Reg1(w)) /\ txt[4] = Comma
      /\ txt[5] = Space /\ txt[6] = Char("LBRACKET") /\ txt[7] = Numeral(Imm(w))
      /\ txt[8] = Char("RBRACKET")
  BY <1>1
<1>3. IsQuiet(txt)
  <2>1. \A k \in 1 .. 8 : k = 1 \/ k = 2 \/ k = 3 \/ k = 4 \/ k = 5 \/ k = 6 \/ k = 7 \/ k = 8
    OBVIOUS
  <2>. QED
    BY <1>2, <2>1, ShownKinds DEF IsQuiet
<1>4. FirstIs(txt, Op[n], Reg1(w))
  BY <1>0, <1>2, <1>3 DEF FirstIs, Begins
<1>5. OperandIs(txt, 4, CellOperand(Imm(w)), Len(txt))
  <2>1. 4 \in Nat /\ 4 + 1 = 5 /\ 4 + 2 = 6 /\ 4 + 3 = 7 /\ 4 + 4 = 8 /\ 4 + 3 < Len(txt)
    BY <1>2
  <2>2. OperandIs(txt, 4, CellOperand(Imm(w)), 4 + 4)
    BY <1>0, <1>2, <1>3, <2>1, CellAt
  <2>. QED
    BY <1>2, <2>1, <2>2
<1>6. Len(Format(Op[n])) = 2
  BY <1>0, FormatTypes, Classes
<1>7. Encoded(Op[n], Two(RegOperand(Reg1(w)), CellOperand(Imm(w))), Pack(Op[n], Reg1(w), 0, 0, Imm(w)))
  <2>1. CellOperand(Imm(w)).type = "MEMORY" /\ CellOperand(Imm(w)).value = Imm(w)
    BY DEF CellOperand
  <2>. QED
    BY <1>0, <2>1, NumberEncoded
<1>8. 3 < Len(txt)
  BY <1>2
<1>. QED
  <2>. DEFINE op == Op[n]
              o  == CellOperand(Imm(w))
              x  == Pack(Op[n], Reg1(w), 0, 0, Imm(w))
              r  == Reg1(w)
  <2>1. PairIs(txt, op, r, o)
    BY <1>2, <1>4, <1>5, <1>6, <1>8 DEF PairIs
  <2>2. PairShownAs(w, op, r, o, x)
    BY <1>0, <1>7, <2>1 DEF txt, PairShownAs, Known
  <2>. HIDE DEF op, o, x, r
  <2>3. Reassembles(w) <=> w = x
    BY <2>2, PairShown
  <2>. QED
    BY <2>3 DEF x, op, r

\* CMP.
LEMMA CompareShown ==
    ASSUME NEW w \in Word, NEW n \in {"CMP"}, Opcode(w) = Op[n]
    PROVE  Reassembles(w) <=> w = Pack(Op[n], Reg1(w), Reg2(w), 0, 0)
<1>. DEFINE txt == Shown(w)
<1>0. /\ n \in Mnemonics /\ Op[n] = Op.CMP /\ Op[n] \in Opcodes
      /\ Reg1(w) \in Register /\ Reg2(w) \in Register
  BY WordParts DEF Mnemonics, Opcodes, Op
<1>1. txt = <<Name(Mnemonic(Op[n])), Space, Reg(Reg1(w)), Comma, Space, Reg(Reg2(w))>>
  BY DEF Shown, Op
<1>. HIDE DEF txt
<1>2. /\ Len(txt) = 6
      /\ txt[1] = Name(Mnemonic(Op[n])) /\ txt[2] = Space /\ txt[3] = Reg(Reg1(w)) /\ txt[4] = Comma
      /\ txt[5] = Space /\ txt[6] = Reg(Reg2(w))
  BY <1>1
<1>3. IsQuiet(txt)
  <2>1. \A k \in 1 .. 6 : k = 1 \/ k = 2 \/ k = 3 \/ k = 4 \/ k = 5 \/ k = 6
    OBVIOUS
  <2>. QED
    BY <1>2, <2>1, ShownKinds DEF IsQuiet
<1>4. FirstIs(txt, Op[n], Reg1(w))
  BY <1>0, <1>2, <1>3 DEF FirstIs, Begins
<1>5. OperandIs(txt, 4, RegOperand(Reg2(w)), Len(txt))
  <2>1. 4 \in Nat /\ 4 + 1 = 5 /\ 4 + 2 = 6 /\ 4 + 1 < Len(txt)
    BY <1>2
  <2>2. OperandIs(txt, 4, RegOperand(Reg2(w)), 4 + 2)
    BY <1>0, <1>2, <1>3, <2>1, RegisterAt
  <2>. QED
    BY <1>2, <2>1, <2>2
<1>6. Len(Format(Op[n])) = 2
  <2>. DEFINE op == Op[n]
  <2>1. op \in Opcodes /\ op = Op.CMP
    BY <1>0
  <2>2. op \notin ImmediateOps \union JumpOps \union ArithmeticOps \union IndexedOps \union LogicOps
           \union IndirectOps \union SingleOps \union NullaryOps
    BY <2>1, Classes
  <2>. HIDE DEF op
  <2>3. Len(Format(op)) = 2
    BY <2>1, <2>2, FormatTypes
  <2>. QED
    BY <2>3 DEF op
<1>7. Encoded(Op[n], Two(RegOperand(Reg1(w)), RegOperand(Reg2(w))), Pack(Op[n], Reg1(w), Reg2(w), 0, 0))
  <2>1. Op[n] \notin ImmediateOps \union JumpOps
    BY <1>0, Classes
  <2>. QED
    BY <1>0, <2>1, TwoEncoded
<1>8. 3 < Len(txt)
  BY <1>2
<1>. QED
  <2>. DEFINE op == Op[n]
              o  == RegOperand(Reg2(w))
              x  == Pack(Op[n], Reg1(w), Reg2(w), 0, 0)
              r  == Reg1(w)
  <2>1. PairIs(txt, op, r, o)
    BY <1>2, <1>4, <1>5, <1>6, <1>8 DEF PairIs
  <2>2. PairShownAs(w, op, r, o, x)
    BY <1>0, <1>7, <2>1 DEF txt, PairShownAs, Known
  <2>. HIDE DEF op, o, x, r
  <2>3. Reassembles(w) <=> w = x
    BY <2>2, PairShown
  <2>. QED
    BY <2>3 DEF x, op, r

\* A system call and the number that its name is read as.
LEMMA CallNames ==
    ASSUME NEW k \in Nat
    PROVE  LET name == SyscallName(k)
           IN  /\ name \notin DOMAIN RegisterNumber
               /\ name \in DOMAIN SyscallNumber =>
                     SyscallNumber[name] = k /\ k \in Sequence!Range(SyscallNumber)
               /\ name \notin DOMAIN SyscallNumber =>
                     name \in Names /\ k \notin Sequence!Range(SyscallNumber)
<1>. DEFINE name == SyscallName(k)
<1>1. /\ DOMAIN SyscallNames = 1 .. 7
      /\ \A i \in 1 .. 7, j \in 1 .. 7 : SyscallNames[i] = SyscallNames[j] => i = j
      /\ \A i \in 1 .. 7 : SyscallNames[i] # "UNKNOWN_SYS"
  <2>1. \A i \in 1 .. 7 : i = 1 \/ i = 2 \/ i = 3 \/ i = 4 \/ i = 5 \/ i = 6 \/ i = 7
    OBVIOUS
  <2>2. /\ SyscallNames[1] = "PRINT" /\ SyscallNames[2] = "PRINT_STR" /\ SyscallNames[3] = "PRINT_CHAR"
        /\ SyscallNames[4] = "READ" /\ SyscallNames[5] = "READ_STR" /\ SyscallNames[6] = "EXIT"
        /\ SyscallNames[7] = "DEBUG" /\ DOMAIN SyscallNames = 1 .. 7
    BY DEF SyscallNames
  <2>. QED
    BY <2>1, <2>2
<1>2. name \in Sequence!Range(SyscallNames) \union {"UNKNOWN_SYS"}
  BY DEF SyscallName, Sequence!Range
<1>3. name \notin DOMAIN RegisterNumber /\ name \in DOMAIN SyscallNumber \union Names
  BY <1>2, ShownNamesAssumption
<1>4. ASSUME NEW n \in DOMAIN SyscallNumber
      PROVE  SyscallNumber[n] \in 1 .. 7 /\ SyscallNames[SyscallNumber[n]] = n /\ SyscallName(SyscallNumber[n]) = n
  BY <1>1, ShownNamesAssumption DEF SyscallName
<1>5. name \in DOMAIN SyscallNumber => SyscallNumber[name] = k
  <2>1. k \in 1 .. 7 => name = SyscallNames[k]
    BY <1>1 DEF SyscallName
  <2>2. k \notin 1 .. 7 => name = "UNKNOWN_SYS"
    BY <1>1 DEF SyscallName
  <2>. HIDE DEF name
  <2>. QED
    BY <1>1, <1>4, <2>1, <2>2
<1>6. \A n : n \in Sequence!Range(SyscallNumber) <=> \E y \in DOMAIN SyscallNumber : n = SyscallNumber[y]
  BY DEF Sequence!Range
<1>7. name \notin DOMAIN SyscallNumber => k \notin Sequence!Range(SyscallNumber)
  BY <1>4, <1>6
<1>. HIDE DEF name
<1>8. name \in DOMAIN SyscallNumber => k \in Sequence!Range(SyscallNumber)
  BY <1>5, <1>6
<1>. QED
  BY <1>3, <1>5, <1>7, <1>8 DEF name

\* SYS.
LEMMA CallShown ==
    ASSUME NEW w \in Word, NEW n \in {"SYS"}, Opcode(w) = Op[n]
    PROVE  Reassembles(w) <=> w = Pack(Op[n], Reg1(w), 0, 0, Imm(w)) /\ SpelledCall(Imm(w))
<1>. DEFINE txt == Shown(w)
            name == SyscallName(Imm(w))
            op == Op[n]
            r  == Reg1(w)
            k  == Imm(w)
<1>0. /\ op \in Known /\ op = Op.SYS /\ op \in ImmediateOps /\ op \in Opcodes
      /\ r \in Register /\ k \in 0 .. ImmSpan - 1 /\ k \in Nat
  BY WordParts DEF Mnemonics, Known, ImmediateOps, Opcodes, Op, Word
<1>1. txt = <<Name(Mnemonic(op)), Space, Reg(r), Comma, Space, Name(name)>>
  BY DEF Shown, Op
<1>. HIDE DEF txt, name
<1>2. /\ Len(txt) = 6
      /\ txt[1] = Name(Mnemonic(op)) /\ txt[2] = Space /\ txt[3] = Reg(r) /\ txt[4] = Comma
      /\ txt[5] = Space /\ txt[6] = Name(name)
  BY <1>1
<1>. HIDE DEF op, r, k
<1>3. IsQuiet(txt)
  <2>1. \A i \in 1 .. 6 : i = 1 \/ i = 2 \/ i = 3 \/ i = 4 \/ i = 5 \/ i = 6
    OBVIOUS
  <2>. QED
    BY <1>2, <2>1, ShownKinds DEF IsQuiet
<1>4. FirstIs(txt, op, r)
  BY <1>0, <1>2, <1>3 DEF FirstIs, Begins
<1>5. /\ name \notin DOMAIN RegisterNumber
      /\ name \in DOMAIN SyscallNumber => SyscallNumber[name] = k /\ k \in Sequence!Range(SyscallNumber)
      /\ name \notin DOMAIN SyscallNumber => name \in Names /\ k \notin Sequence!Range(SyscallNumber)
  BY <1>0, CallNames DEF name, k
<1>6. OperandIs(txt, 4, Named(name), Len(txt))
  <2>1. 4 \in Nat /\ 4 + 1 = 5 /\ 4 + 2 = 6 /\ 4 + 1 < Len(txt)
    BY <1>2
  <2>2. OperandIs(txt, 4, Named(name), 4 + 2)
    BY <1>2, <1>3, <1>5, <2>1, CallAt
  <2>. QED
    BY <1>2, <2>1, <2>2
<1>7. Len(Format(op)) = 2
  BY <1>0, FormatTypes, Classes
<1>8. PairIs(txt, op, r, Named(name))
  BY <1>2, <1>4, <1>6, <1>7 DEF PairIs
<1>9. CASE name \in DOMAIN SyscallNumber
  <2>. DEFINE o == Named(name)
              x == Pack(op, r, 0, 0, k)
  <2>1. o.type = "IMMEDIATE" /\ o.value = k
    BY <1>5, <1>9 DEF Named
  <2>. HIDE DEF o
  <2>2. Encoded(op, Two(RegOperand(r), o), Pack(op, r, 0, 0, k))
    BY <1>0, <2>1, NumberEncoded
  <2>3. PairShownAs(w, op, r, o, x)
    BY <1>0, <1>8, <2>2 DEF PairShownAs, txt, o
  <2>. HIDE DEF x
  <2>4. Reassembles(w) <=> w = x
    BY <2>3, PairShown
  <2>5. SpelledCall(k)
    BY <1>5, <1>9 DEF SpelledCall
  <2>. QED
    BY <2>4, <2>5 DEF x, op, r, k
<1>10. CASE name \notin DOMAIN SyscallNumber
  <2>. DEFINE o == Named(name)
              v == LeadingWord(Spelling[Stored[name]]) % ImmSpan
              x == Pack(op, r, 0, 0, v)
  <2>1. o.type = "LABEL" /\ o.label = Stored[name] /\ Stored[name] \in Names
    BY <1>5, <1>10, SymbolTableAssumption DEF Named
  <2>. HIDE DEF o
  <2>2. Encoded(op, Two(RegOperand(r), o), x)
    BY <1>0, <2>1, NameEncoded
  <2>3. PairShownAs(w, op, r, o, x)
    BY <1>0, <1>8, <2>2 DEF PairShownAs, txt, o
  <2>4. SpelledCall(k) <=> k = v
    BY <1>5, <1>10 DEF SpelledCall, name, k
  <2>5. v \in 0 .. ImmSpan - 1
    <3>1. Spelling[Stored[name]] \in Seq(Byte)
      BY <2>1, EncoderAssumption
    <3>. DEFINE q == LeadingWord(Spelling[Stored[name]])
    <3>2. q \in Nat
      BY <3>1, LeadingWordTyped
    <3>. HIDE DEF q
    <3>3. q % ImmSpan \in 0 .. ImmSpan - 1
      BY <3>2, ImmediateRange
    <3>. QED
      BY <3>3 DEF q
  <2>. HIDE DEF v
  <2>6. Imm(x) = v
    <3>1. op \in Nat /\ 0 \in Register
      BY <1>0, FieldsFit
    <3>. QED
      BY <1>0, <2>5, <3>1, PackFields
  <2>. HIDE DEF x
  <2>7. Reassembles(w) <=> w = x
    BY <2>3, PairShown
  <2>8. w = x => k = v
    BY <2>6 DEF k
  <2>9. k = v => (w = x <=> w = Pack(op, r, 0, 0, k))
    BY DEF x
  <2>10. Reassembles(w) <=> w = Pack(op, r, 0, 0, k) /\ SpelledCall(k)
    BY <2>4, <2>7, <2>8, <2>9
  <2>. QED
    BY <2>10 DEF op, r, k
<1>. QED
  BY <1>9, <1>10

\* A whole list of operands.
ListShownAs(w, op, args, x) ==
    /\ w \in Word /\ op \in Known /\ Begins(Shown(w), op)
    /\ ListIs(Shown(w), 1, Len(Format(op)), args, Len(Shown(w))) /\ Encoded(op, args, x)

LEMMA ListShown ==
    ASSUME NEW w, NEW op, NEW args, NEW x, ListShownAs(w, op, args, x)
    PROVE  Reassembles(w) <=> w = x
<1>0. PICK n \in Mnemonics : op = Op[n]
  BY DEF ListShownAs, Known
<1>1. SpellsWord(Shown(w), StatementAt(Shown(w), NewLexer), w) <=> Encoded(Op[n], args, w)
  BY <1>0, TextSpells DEF ListShownAs
<1>2. Encoded(op, args, w) <=> w = x
  BY EncodedOnce DEF ListShownAs
<1>. QED
  BY <1>0, <1>1, <1>2 DEF Reassembles

\* ADD, SUB, MUL, DIV.
LEMMA ArithmeticShown ==
    ASSUME NEW w \in Word, NEW n \in {"ADD", "SUB", "MUL", "DIV"}, Opcode(w) = Op[n]
    PROVE  Reassembles(w) <=> w = Pack(Op[n], Reg1(w), Reg2(w), Reg3(w), 0)
<1>. DEFINE txt == Shown(w)
            op == Op[n]
            a == Reg1(w)
            b == Reg2(w)
            c == Reg3(w)
<1>0. /\ op \in Known /\ op \in ArithmeticOps /\ op \in Opcodes
      /\ a \in Register /\ b \in Register /\ c \in Register
  BY WordParts DEF Mnemonics, Known, ArithmeticOps, Opcodes, Op
<1>1. txt = <<Name(Mnemonic(op)), Space, Reg(a), Comma, Space, Reg(b), Comma, Space, Reg(c)>>
  <2>1. Shown(w) = ThreeRegisters(w, Name(Mnemonic(Op[n])))
    BY DEF Shown, Op
  <2>. QED
    BY <2>1 DEF ThreeRegisters
<1>. HIDE DEF txt, op, a, b, c
<1>2. /\ Len(txt) = 9
      /\ txt[1] = Name(Mnemonic(op)) /\ txt[2] = Space /\ txt[3] = Reg(a) /\ txt[4] = Comma
      /\ txt[5] = Space /\ txt[6] = Reg(b) /\ txt[7] = Comma /\ txt[8] = Space /\ txt[9] = Reg(c)
  BY <1>1
<1>3. IsQuiet(txt)
  <2>1. \A k \in 1 .. 9 :
          k = 1 \/ k = 2 \/ k = 3 \/ k = 4 \/ k = 5 \/ k = 6 \/ k = 7 \/ k = 8 \/ k = 9
    OBVIOUS
  <2>. QED
    BY <1>2, <2>1, ShownKinds DEF IsQuiet
<1>4. FirstIs(txt, op, a) /\ Begins(txt, op)
  BY <1>0, <1>2, <1>3 DEF FirstIs, Begins
<1>5. OperandIs(txt, 1, RegOperand(a), 3) /\ CommaIs(txt, 3, 4)
  BY <1>2, <1>4, FirstRead
<1>6. OperandIs(txt, 4, RegOperand(b), 6) /\ CommaIs(txt, 6, 7)
  <2>1. 4 \in Nat /\ 4 + 1 = 5 /\ 4 + 2 = 6 /\ 4 + 1 < Len(txt) /\ 6 \in Nat /\ 6 < Len(txt) /\ 6 + 1 = 7
    BY <1>2
  <2>2. OperandIs(txt, 4, RegOperand(b), 4 + 2)
    BY <1>0, <1>2, <1>3, <2>1, RegisterAt
  <2>3. CommaIs(txt, 6, 6 + 1)
    BY <1>2, <1>3, <2>1, CommaAt
  <2>. QED
    BY <2>1, <2>2, <2>3
<1>7. OperandIs(txt, 7, RegOperand(c), 9)
  <2>1. 7 \in Nat /\ 7 + 1 = 8 /\ 7 + 2 = 9 /\ 7 + 1 < Len(txt)
    BY <1>2
  <2>2. OperandIs(txt, 7, RegOperand(c), 7 + 2)
    BY <1>0, <1>2, <1>3, <2>1, RegisterAt
  <2>. QED
    BY <2>1, <2>2
<1>8. Len(Format(op)) = 3
  <2>1. op \notin ImmediateOps \union JumpOps \union {Op.CMP} \union IndexedOps \union LogicOps
           \union IndirectOps \union SingleOps \union NullaryOps
    BY <1>0, Classes
  <2>. QED
    BY <1>0, <2>1, FormatTypes
<1>. DEFINE args == Three(RegOperand(a), RegOperand(b), RegOperand(c))
            x == Pack(op, a, b, c, 0)
<1>9. ListIs(txt, 1, 2, Two(RegOperand(a), RegOperand(b)), 6)
  BY <1>5, <1>6, TwoOperandsRead
<1>10. ListIs(txt, 1, Len(Format(op)), args, Len(txt))
  BY <1>2, <1>6, <1>7, <1>8, <1>9, ThreeOperandsRead
<1>11. Encoded(op, args, x)
  <2>1. op \notin ImmediateOps \union JumpOps
    BY <1>0, Classes
  <2>. QED
    BY <1>0, <2>1, ThreeEncoded
<1>12. ListShownAs(w, op, args, x)
  BY <1>0, <1>4, <1>10, <1>11 DEF ListShownAs, txt
<1>. HIDE DEF args, x
<1>13. Reassembles(w) <=> w = x
  BY <1>12, ListShown
<1>. QED
  BY <1>13 DEF x, op, a, b, c

\* JMP.
LEMMA JumpShown ==
    ASSUME NEW w \in Word, NEW n \in {"JMP"}, Opcode(w) = Op[n]
    PROVE  Reassembles(w) <=> w = Pack(Op[n], 0, 0, 0, Imm(w))
<1>. DEFINE txt == Shown(w)
            op == Op[n]
            v == Imm(w)
<1>0. /\ op \in Known /\ op = Op.JMP /\ op \in JumpOps /\ op \in Opcodes
      /\ v \in 0 .. ImmSpan - 1 /\ v \in Word
  BY WordParts DEF Mnemonics, Known, JumpOps, Opcodes, Op
<1>1. txt = <<Name(Mnemonic(op)), Space, Char("HASH"), Numeral(v)>>
  BY DEF Shown, Op
<1>. HIDE DEF txt, op, v
<1>2. /\ Len(txt) = 4 /\ txt[1] = Name(Mnemonic(op)) /\ txt[2] = Space
      /\ txt[3] = Char("HASH") /\ txt[4] = Numeral(v)
  BY <1>1
<1>3. IsQuiet(txt)
  <2>1. \A k \in 1 .. 4 : k = 1 \/ k = 2 \/ k = 3 \/ k = 4
    OBVIOUS
  <2>. QED
    BY <1>2, <2>1, ShownKinds DEF IsQuiet
<1>4. Begins(txt, op)
  BY <1>2, <1>3 DEF Begins
<1>5. OperandIs(txt, 1, NumOperand(v), 4)
  <2>1. 1 \in Nat /\ 1 + 1 = 2 /\ 1 + 2 = 3 /\ 1 + 3 = 4 /\ 1 + 2 < Len(txt)
    BY <1>2
  <2>2. OperandIs(txt, 1, NumOperand(v), 1 + 3)
    BY <1>0, <1>2, <1>3, <2>1, NumberOperandAt
  <2>. QED
    BY <2>1, <2>2
<1>6. Len(Format(op)) = 1
  <2>1. op \notin ImmediateOps \union ArithmeticOps \union {Op.CMP} \union IndexedOps \union LogicOps
           \union IndirectOps \union SingleOps \union NullaryOps
    BY <1>0, Classes
  <2>. QED
    BY <1>0, <2>1, FormatTypes
<1>. DEFINE args == One(NumOperand(v))
            x == Pack(op, 0, 0, 0, v)
<1>7. ListIs(txt, 1, Len(Format(op)), args, Len(txt))
  BY <1>2, <1>5, <1>6, OneOperandRead
<1>8. Encoded(op, args, x)
  BY <1>0, JumpEncoded
<1>9. ListShownAs(w, op, args, x)
  BY <1>0, <1>4, <1>7, <1>8 DEF ListShownAs, txt
<1>. HIDE DEF args, x
<1>10. Reassembles(w) <=> w = x
  BY <1>9, ListShown
<1>. QED
  BY <1>10 DEF x, op, v

\* INC and DEC.
LEMMA SingleShown ==
    ASSUME NEW w \in Word, NEW n \in {"INC", "DEC"}, Opcode(w) = Op[n]
    PROVE  Reassembles(w) <=> w = Pack(Op[n], Reg1(w), 0, 0, 0)
<1>. DEFINE txt == Shown(w)
            op == Op[n]
            a == Reg1(w)
<1>0. op \in Known /\ op \in SingleOps /\ op \in Opcodes /\ a \in Register
  BY WordParts DEF Mnemonics, Known, SingleOps, Opcodes, Op
<1>1. txt = <<Name(Mnemonic(op)), Space, Reg(a)>>
  BY DEF Shown, Op
<1>. HIDE DEF txt, op, a
<1>2. Len(txt) = 3 /\ txt[1] = Name(Mnemonic(op)) /\ txt[2] = Space /\ txt[3] = Reg(a)
  BY <1>1
<1>3. IsQuiet(txt)
  <2>1. \A k \in 1 .. 3 : k = 1 \/ k = 2 \/ k = 3
    OBVIOUS
  <2>. QED
    BY <1>2, <2>1, ShownKinds DEF IsQuiet
<1>4. FirstIs(txt, op, a) /\ Begins(txt, op)
  BY <1>0, <1>2, <1>3 DEF FirstIs, Begins
<1>5. OperandIs(txt, 1, RegOperand(a), 3)
  BY <1>4, FirstRead
<1>6. Len(Format(op)) = 1
  <2>1. op \notin ImmediateOps \union JumpOps \union ArithmeticOps \union {Op.CMP}
    BY <1>0, Classes
  <2>2. op \notin IndexedOps \union LogicOps \union IndirectOps \union NullaryOps
    BY <1>0 DEF Op, IndexedOps, LogicOps, IndirectOps, SingleOps, NullaryOps
  <2>. QED
    BY <1>0, <2>1, <2>2, FormatTypes
<1>. DEFINE args == One(RegOperand(a))
            x == Pack(op, a, 0, 0, 0)
<1>7. ListIs(txt, 1, Len(Format(op)), args, Len(txt))
  BY <1>2, <1>5, <1>6, OneOperandRead
<1>8. Encoded(op, args, x)
  <2>1. op \notin ImmediateOps \union JumpOps
    BY <1>0, Classes
  <2>. QED
    BY <1>0, <2>1, OneEncoded
<1>9. ListShownAs(w, op, args, x)
  BY <1>0, <1>4, <1>7, <1>8 DEF ListShownAs, txt
<1>. HIDE DEF args, x
<1>10. Reassembles(w) <=> w = x
  BY <1>9, ListShown
<1>. QED
  BY <1>10 DEF x, op, a

\* HALT and NOP.
LEMMA NullaryShown ==
    ASSUME NEW w \in Word, NEW n \in {"HALT", "NOP"}, Opcode(w) = Op[n]
    PROVE  Reassembles(w) <=> w = Pack(Op[n], 0, 0, 0, 0)
<1>. DEFINE txt == Shown(w)
            op == Op[n]
<1>0. op \in Known /\ op \in NullaryOps /\ op \in Opcodes
  BY DEF Mnemonics, Known, NullaryOps, Opcodes, Op
<1>1. txt = <<Name(Mnemonic(op))>>
  BY DEF Shown, Op
<1>. HIDE DEF txt, op
<1>2. Len(txt) = 1 /\ txt[1] = Name(Mnemonic(op))
  BY <1>1
<1>3. IsQuiet(txt)
  <2>1. \A k \in 1 .. 1 : k = 1
    OBVIOUS
  <2>. QED
    BY <1>2, <2>1, ShownKinds DEF IsQuiet
<1>4. Begins(txt, op)
  BY <1>2, <1>3 DEF Begins
<1>5. Len(Format(op)) = 0
  <2>1. op \notin ImmediateOps \union JumpOps \union ArithmeticOps \union {Op.CMP}
    BY <1>0, Classes
  <2>2. op \notin IndexedOps \union LogicOps \union IndirectOps \union SingleOps
    BY <1>0 DEF Op, IndexedOps, LogicOps, IndirectOps, SingleOps, NullaryOps
  <2>. QED
    BY <1>0, <2>1, <2>2, FormatTypes
<1>. DEFINE args == <<>>
            x == Pack(op, 0, 0, 0, 0)
<1>6. ListIs(txt, 1, Len(Format(op)), args, Len(txt))
  BY <1>2, <1>5, NoOperandRead
<1>7. Encoded(op, args, x)
  <2>1. op \notin ImmediateOps \union JumpOps \union ArithmeticOps \union {Op.CMP}
    BY <1>0, Classes
  <2>. QED
    BY <1>0, <2>1, NoneEncoded
<1>8. ListShownAs(w, op, args, x)
  BY <1>0, <1>4, <1>6, <1>7 DEF ListShownAs, txt
<1>. HIDE DEF args, x
<1>9. Reassembles(w) <=> w = x
  BY <1>8, ListShown
<1>. QED
  BY <1>9 DEF x, op

\* JZ and JNZ take one operand, and a listing gives them two.
LEMMA BranchShown ==
    ASSUME NEW w \in Word, NEW n \in {"JZ", "JNZ"}, Opcode(w) = Op[n]
    PROVE  ~Reassembles(w)
<1>. DEFINE txt == Shown(w)
            op == Op[n]
            a == Reg1(w)
<1>0. n \in Mnemonics /\ op \in JumpOps /\ op \in Opcodes /\ a \in Register
  BY WordParts DEF Mnemonics, JumpOps, Opcodes, Op
<1>1. txt = <<Name(Mnemonic(op)), Space, Reg(a), Comma, Space, Char("HASH"), Numeral(Imm(w))>>
  BY SMTT(30) DEF Shown, Op
<1>. HIDE DEF txt, a
<1>2. /\ Len(txt) = 7
      /\ txt[1] = Name(Mnemonic(op)) /\ txt[2] = Space /\ txt[3] = Reg(a) /\ txt[4] = Comma
      /\ txt[5] = Space /\ txt[6] = Char("HASH") /\ txt[7] = Numeral(Imm(w))
  BY <1>1
<1>3. IsQuiet(txt)
  <2>1. \A k \in 1 .. 7 : k = 1 \/ k = 2 \/ k = 3 \/ k = 4 \/ k = 5 \/ k = 6 \/ k = 7
    OBVIOUS
  <2>. QED
    BY <1>2, <2>1, ShownKinds DEF IsQuiet
<1>4. FirstIs(txt, op, a) /\ Begins(txt, op)
  BY <1>0, <1>2, <1>3 DEF FirstIs, Begins
<1>5. OperandIs(txt, 1, RegOperand(a), 3) /\ CommaIs(txt, 3, 4)
  BY <1>2, <1>4, FirstRead
<1>6. Len(Format(op)) = 1
  <2>. HIDE DEF op
  <2>1. op \notin ImmediateOps \union ArithmeticOps \union {Op.CMP} \union IndexedOps \union LogicOps
           \union IndirectOps \union SingleOps \union NullaryOps
    BY <1>0, Classes
  <2>. QED
    BY <1>0, <2>1, FormatTypes
<1>7. ListIs(txt, 1, Len(Format(op)), One(RegOperand(a)), 3)
  BY <1>5, <1>6, OneOperandRead
<1>8. NextToken(txt, 3).token.type = "COMMA"
  BY <1>5 DEF CommaIs
<1>9. ~SpellsWord(txt, StatementAt(txt, NewLexer), w)
  BY <1>0, <1>4, <1>7, <1>8, TextSpells
<1>. QED
  BY <1>9 DEF Reassembles, txt

\* A register in brackets is not read.
LEMMA IndirectShown ==
    ASSUME NEW w \in Word,
           NEW n \in {"LOAD_INDIRECT", "STORE_INDIRECT", "LOAD_INDEXED", "STORE_INDEXED"}, Opcode(w) = Op[n]
    PROVE  ~Reassembles(w)
<1>. DEFINE txt == Shown(w)
            op == Op[n]
            a == Reg1(w)
            b == Reg2(w)
            c == Reg3(w)
<1>0. n \in Mnemonics /\ op \in IndirectOps \union IndexedOps /\ op \in Opcodes
      /\ a \in Register /\ b \in Register
  BY WordParts DEF Mnemonics, IndirectOps, IndexedOps, Opcodes, Op
<1>1. \/ txt = <<Name(Mnemonic(op)), Space, Reg(a), Comma, Space,
                 Char("LBRACKET"), Reg(b), Char("RBRACKET")>>
      \/ txt = <<Name(Mnemonic(op)), Space, Reg(a), Comma, Space, Char("LBRACKET"), Reg(b),
                 Space, Char("UNKNOWN"), Space, Reg(c), Char("RBRACKET")>>
  <2>1. op \notin {Op.MOV, Op.LOAD, Op.JZ, Op.JNZ, Op.STORE, Op.ADD, Op.SUB, Op.MUL, Op.DIV,
                  Op.JMP, Op.CMP, Op.SYS, Op.INC, Op.DEC, Op.HALT, Op.NOP}
    BY DEF Op
  <2>2. {Op.LOAD_INDIRECT, Op.STORE_INDIRECT} \intersect {Op.LOAD_INDEXED, Op.STORE_INDEXED} = {}
    BY DEF Op
  <2>3. CASE op \in {Op.LOAD_INDIRECT, Op.STORE_INDIRECT}
    <3>. HIDE DEF op
    <3>. QED
      BY <2>1, <2>2, <2>3 DEF Shown, op
  <2>4. CASE op \in {Op.LOAD_INDEXED, Op.STORE_INDEXED}
    <3>. HIDE DEF op
    <3>. QED
      BY <2>1, <2>2, <2>4 DEF Shown, op
  <2>. QED
    BY <2>3, <2>4
<1>. HIDE DEF txt, a, b, c
<1>2. /\ Len(txt) \in {8, 12}
      /\ txt[1] = Name(Mnemonic(op)) /\ txt[2] = Space /\ txt[3] = Reg(a) /\ txt[4] = Comma
      /\ txt[5] = Space /\ txt[6] = Char("LBRACKET") /\ txt[7] = Reg(b)
  BY <1>1
<1>3. IsQuiet(txt)
  <2>1. CASE Len(txt) = 8
    <3>1. txt[8] = Char("RBRACKET")
      BY <1>1, <2>1
    <3>2. \A k \in 1 .. 8 : k = 1 \/ k = 2 \/ k = 3 \/ k = 4 \/ k = 5 \/ k = 6 \/ k = 7 \/ k = 8
      OBVIOUS
    <3>. QED
      BY <1>2, <2>1, <3>1, <3>2, ShownKinds DEF IsQuiet
  <2>2. CASE Len(txt) = 12
    <3>1. /\ txt[8] = Space /\ txt[9] = Char("UNKNOWN") /\ txt[10] = Space
          /\ txt[11] = Reg(c) /\ txt[12] = Char("RBRACKET")
      BY <1>1, <2>2
    <3>2. \A k \in 1 .. 12 : \/ k = 1 \/ k = 2 \/ k = 3 \/ k = 4 \/ k = 5 \/ k = 6
                             \/ k = 7 \/ k = 8 \/ k = 9 \/ k = 10 \/ k = 11 \/ k = 12
      OBVIOUS
    <3>. QED
      BY <1>2, <2>2, <3>1, <3>2, ShownKinds DEF IsQuiet
  <2>. QED
    BY <1>2, <2>1, <2>2
<1>4. FirstIs(txt, op, a) /\ Begins(txt, op)
  BY <1>0, <1>2, <1>3 DEF FirstIs, Begins
<1>5. OperandIs(txt, 1, RegOperand(a), 3) /\ CommaIs(txt, 3, 4)
  BY <1>2, <1>4, FirstRead
<1>6. Refused(OperandAt(txt, NextToken(txt, 4)))
  <2>1. 4 \in Nat /\ 4 + 1 = 5 /\ 4 + 2 = 6 /\ 4 + 3 = 7 /\ 4 + 2 < Len(txt)
    BY <1>2
  <2>. QED
    BY <1>0, <1>2, <1>3, <2>1, IndirectAt
<1>7. Len(Format(op)) \in {2, 3}
  <2>. HIDE DEF op
  <2>1. op \notin ImmediateOps \union JumpOps \union ArithmeticOps \union {Op.CMP}
    BY <1>0, Classes
  <2>2. op \notin SingleOps \union NullaryOps
    BY <1>0 DEF Op, IndexedOps, IndirectOps, SingleOps, NullaryOps
  <2>. QED
    BY <1>0, <2>1, <2>2, FormatTypes
<1>8. Refused(OperandsAt(txt, NextToken(txt, 1), Len(Format(op))))
  BY <1>5, <1>6, <1>7, SecondRefused
<1>9. ~SpellsWord(txt, StatementAt(txt, NewLexer), w)
  BY <1>0, <1>4, <1>8, TextRefused
<1>. QED
  BY <1>9 DEF Reassembles, txt

\* The other opcodes are shown as UNKNOWN, which is no instruction.
LEMMA UnknownShown ==
    ASSUME NEW w \in Word, \A n \in Mnemonics : Op[n] # Opcode(w)
    PROVE  ~Reassembles(w)
<1>. DEFINE txt == Shown(w)
            name == Name(Mnemonic(Opcode(w)))
<1>0. Mnemonic(Opcode(w)) = "UNKNOWN"
  BY DEF Mnemonic
<1>1. txt = UnknownWord(w, name)
  <2>. DEFINE op == Opcode(w)
  <2>1. /\ op \notin {Op.MOV, Op.LOAD, Op.JZ, Op.JNZ} /\ op # Op.STORE
        /\ op \notin {Op.ADD, Op.SUB, Op.MUL, Op.DIV} /\ op # Op.JMP /\ op # Op.CMP /\ op # Op.SYS
        /\ op \notin {Op.INC, Op.DEC} /\ op \notin {Op.LOAD_INDIRECT, Op.STORE_INDIRECT}
        /\ op \notin {Op.LOAD_INDEXED, Op.STORE_INDEXED} /\ op \notin {Op.HALT, Op.NOP}
    BY DEF Mnemonics
  <2>. HIDE DEF op
  <2>. QED
    BY <2>1 DEF Shown, op
<1>2. txt = <<name, Space, Numeral(Opcode(w)), Space, Char("UNKNOWN"), Numeral(w), Char("UNKNOWN")>>
  BY <1>1 DEF UnknownWord
<1>. HIDE DEF txt
<1>3. /\ Len(txt) = 7 /\ txt[1] = name /\ txt[2] = Space /\ txt[3] = Numeral(Opcode(w)) /\ txt[4] = Space
      /\ txt[5] = Char("UNKNOWN") /\ txt[6] = Numeral(w) /\ txt[7] = Char("UNKNOWN")
  BY <1>2
<1>4. IsQuiet(txt)
  <2>1. \A k \in 1 .. 7 : k = 1 \/ k = 2 \/ k = 3 \/ k = 4 \/ k = 5 \/ k = 6 \/ k = 7
    OBVIOUS
  <2>. QED
    BY <1>3, <2>1, ShownKinds DEF IsQuiet
<1>5. "UNKNOWN" \notin DOMAIN Op /\ "UNKNOWN" \notin DOMAIN RegisterNumber
  BY ShownNamesAssumption DEF Op
<1>6. StatementAt(txt, NewLexer).what.kind = "error"
  <2>1. Len(txt) # 0 /\ txt[1] = Name("UNKNOWN")
    BY <1>0, <1>3
  <2>. QED
    BY <1>4, <1>5, <2>1, StatementRead
<1>. QED
  BY <1>6 DEF Reassembles, SpellsWord, txt

\* What Faithful comes to for each opcode.
LEMMA FaithfulForms ==
    ASSUME NEW w
    PROVE  /\ \A n \in {"MOV", "LOAD", "STORE"} : Opcode(w) = Op[n] =>
                 (Faithful(w) <=> w = Pack(Op[n], Reg1(w), 0, 0, Imm(w)))
           /\ \A n \in {"SYS"} : Opcode(w) = Op[n] =>
                 (Faithful(w) <=> w = Pack(Op[n], Reg1(w), 0, 0, Imm(w)) /\ SpelledCall(Imm(w)))
           /\ \A n \in {"JMP"} : Opcode(w) = Op[n] =>
                 (Faithful(w) <=> w = Pack(Op[n], 0, 0, 0, Imm(w)))
           /\ \A n \in {"ADD", "SUB", "MUL", "DIV"} : Opcode(w) = Op[n] =>
                 (Faithful(w) <=> w = Pack(Op[n], Reg1(w), Reg2(w), Reg3(w), 0))
           /\ \A n \in {"CMP"} : Opcode(w) = Op[n] =>
                 (Faithful(w) <=> w = Pack(Op[n], Reg1(w), Reg2(w), 0, 0))
           /\ \A n \in {"INC", "DEC"} : Opcode(w) = Op[n] =>
                 (Faithful(w) <=> w = Pack(Op[n], Reg1(w), 0, 0, 0))
           /\ \A n \in {"HALT", "NOP"} : Opcode(w) = Op[n] =>
                 (Faithful(w) <=> w = Pack(Op[n], 0, 0, 0, 0))
           /\ Faithful(w) => \E n \in {"MOV", "LOAD", "STORE", "SYS", "JMP", "ADD", "SUB", "MUL", "DIV",
                                       "CMP", "INC", "DEC", "HALT", "NOP"} : Opcode(w) = Op[n]
<1>. DEFINE op == Opcode(w)
<1>1. Faithful(w) <=>
        \/ op \in {Op.MOV, Op.LOAD, Op.STORE} /\ w = Pack(op, Reg1(w), 0, 0, Imm(w))
        \/ op = Op.SYS /\ w = Pack(op, Reg1(w), 0, 0, Imm(w)) /\ SpelledCall(Imm(w))
        \/ op = Op.JMP /\ w = Pack(op, 0, 0, 0, Imm(w))
        \/ op \in {Op.ADD, Op.SUB, Op.MUL, Op.DIV} /\ w = Pack(op, Reg1(w), Reg2(w), Reg3(w), 0)
        \/ op = Op.CMP /\ w = Pack(op, Reg1(w), Reg2(w), 0, 0)
        \/ op \in {Op.INC, Op.DEC} /\ w = Pack(op, Reg1(w), 0, 0, 0)
        \/ op \in {Op.HALT, Op.NOP} /\ w = Pack(op, 0, 0, 0, 0)
  BY DEF Faithful, ArithmeticOps
<1>. HIDE DEF op
<1>2. /\ \A n \in {"MOV", "LOAD", "STORE"} : op = Op[n] =>
            (Faithful(w) <=> w = Pack(op, Reg1(w), 0, 0, Imm(w)))
      /\ op = Op.SYS => (Faithful(w) <=> w = Pack(op, Reg1(w), 0, 0, Imm(w)) /\ SpelledCall(Imm(w)))
      /\ op = Op.JMP => (Faithful(w) <=> w = Pack(op, 0, 0, 0, Imm(w)))
      /\ \A n \in {"ADD", "SUB", "MUL", "DIV"} : op = Op[n] =>
            (Faithful(w) <=> w = Pack(op, Reg1(w), Reg2(w), Reg3(w), 0))
      /\ op = Op.CMP => (Faithful(w) <=> w = Pack(op, Reg1(w), Reg2(w), 0, 0))
      /\ \A n \in {"INC", "DEC"} : op = Op[n] => (Faithful(w) <=> w = Pack(op, Reg1(w), 0, 0, 0))
      /\ \A n \in {"HALT", "NOP"} : op = Op[n] => (Faithful(w) <=> w = Pack(op, 0, 0, 0, 0))
  BY <1>1 DEF Op
<1>3. Faithful(w) => \E n \in {"MOV", "LOAD", "STORE", "SYS", "JMP", "ADD", "SUB", "MUL", "DIV",
                               "CMP", "INC", "DEC", "HALT", "NOP"} : op = Op[n]
  BY <1>1
<1>. QED
  BY <1>2, <1>3 DEF op

\* Every word: a listing of it is read as the word exactly where it is faithful.
LEMMA WordReassembles == ASSUME NEW w \in Word PROVE Reassembles(w) <=> Faithful(w)
<1>1. CASE \E n \in {"MOV", "LOAD"} : Opcode(w) = Op[n]
  <2>1. PICK n \in {"MOV", "LOAD"} : Opcode(w) = Op[n]
    BY <1>1
  <2>2. Reassembles(w) <=> w = Pack(Op[n], Reg1(w), 0, 0, Imm(w))
    BY <2>1, NumberShown
  <2>3. Faithful(w) <=> w = Pack(Op[n], Reg1(w), 0, 0, Imm(w))
    BY <2>1, FaithfulForms
  <2>. QED
    BY <2>2, <2>3
<1>2. CASE \E n \in {"STORE"} : Opcode(w) = Op[n]
  <2>1. PICK n \in {"STORE"} : Opcode(w) = Op[n]
    BY <1>2
  <2>2. Reassembles(w) <=> w = Pack(Op[n], Reg1(w), 0, 0, Imm(w))
    BY <2>1, CellShown
  <2>3. Faithful(w) <=> w = Pack(Op[n], Reg1(w), 0, 0, Imm(w))
    BY <2>1, FaithfulForms
  <2>. QED
    BY <2>2, <2>3
<1>3. CASE \E n \in {"SYS"} : Opcode(w) = Op[n]
  <2>1. PICK n \in {"SYS"} : Opcode(w) = Op[n]
    BY <1>3
  <2>2. Reassembles(w) <=> w = Pack(Op[n], Reg1(w), 0, 0, Imm(w)) /\ SpelledCall(Imm(w))
    BY <2>1, CallShown
  <2>3. Faithful(w) <=> w = Pack(Op[n], Reg1(w), 0, 0, Imm(w)) /\ SpelledCall(Imm(w))
    BY <2>1, FaithfulForms
  <2>. QED
    BY <2>2, <2>3
<1>4. CASE \E n \in {"JMP"} : Opcode(w) = Op[n]
  <2>1. PICK n \in {"JMP"} : Opcode(w) = Op[n]
    BY <1>4
  <2>2. Reassembles(w) <=> w = Pack(Op[n], 0, 0, 0, Imm(w))
    BY <2>1, JumpShown
  <2>3. Faithful(w) <=> w = Pack(Op[n], 0, 0, 0, Imm(w))
    BY <2>1, FaithfulForms
  <2>. QED
    BY <2>2, <2>3
<1>5. CASE \E n \in {"ADD", "SUB", "MUL", "DIV"} : Opcode(w) = Op[n]
  <2>1. PICK n \in {"ADD", "SUB", "MUL", "DIV"} : Opcode(w) = Op[n]
    BY <1>5
  <2>2. Reassembles(w) <=> w = Pack(Op[n], Reg1(w), Reg2(w), Reg3(w), 0)
    BY <2>1, ArithmeticShown
  <2>3. Faithful(w) <=> w = Pack(Op[n], Reg1(w), Reg2(w), Reg3(w), 0)
    BY <2>1, FaithfulForms
  <2>. QED
    BY <2>2, <2>3
<1>6. CASE \E n \in {"CMP"} : Opcode(w) = Op[n]
  <2>1. PICK n \in {"CMP"} : Opcode(w) = Op[n]
    BY <1>6
  <2>2. Reassembles(w) <=> w = Pack(Op[n], Reg1(w), Reg2(w), 0, 0)
    BY <2>1, CompareShown
  <2>3. Faithful(w) <=> w = Pack(Op[n], Reg1(w), Reg2(w), 0, 0)
    BY <2>1, FaithfulForms
  <2>. QED
    BY <2>2, <2>3
<1>7. CASE \E n \in {"INC", "DEC"} : Opcode(w) = Op[n]
  <2>1. PICK n \in {"INC", "DEC"} : Opcode(w) = Op[n]
    BY <1>7
  <2>2. Reassembles(w) <=> w = Pack(Op[n], Reg1(w), 0, 0, 0)
    BY <2>1, SingleShown
  <2>3. Faithful(w) <=> w = Pack(Op[n], Reg1(w), 0, 0, 0)
    BY <2>1, FaithfulForms
  <2>. QED
    BY <2>2, <2>3
<1>8. CASE \E n \in {"HALT", "NOP"} : Opcode(w) = Op[n]
  <2>1. PICK n \in {"HALT", "NOP"} : Opcode(w) = Op[n]
    BY <1>8
  <2>2. Reassembles(w) <=> w = Pack(Op[n], 0, 0, 0, 0)
    BY <2>1, NullaryShown
  <2>3. Faithful(w) <=> w = Pack(Op[n], 0, 0, 0, 0)
    BY <2>1, FaithfulForms
  <2>. QED
    BY <2>2, <2>3
<1>9. CASE \E n \in {"JZ", "JNZ", "LOAD_INDIRECT", "STORE_INDIRECT", "LOAD_INDEXED", "STORE_INDEXED"} :
             Opcode(w) = Op[n]
  <2>1. ~Reassembles(w)
    BY <1>9, BranchShown, IndirectShown
  <2>2. \A n \in {"JZ", "JNZ", "LOAD_INDIRECT", "STORE_INDIRECT", "LOAD_INDEXED", "STORE_INDEXED"},
           m \in {"MOV", "LOAD", "STORE", "SYS", "JMP", "ADD", "SUB", "MUL", "DIV",
                  "CMP", "INC", "DEC", "HALT", "NOP"} : Op[n] # Op[m]
    BY DEF Op
  <2>3. ~Faithful(w)
    BY <1>9, <2>2, FaithfulForms
  <2>. QED
    BY <2>1, <2>3
<1>10. CASE \A n \in Mnemonics : Op[n] # Opcode(w)
  <2>1. ~Reassembles(w)
    BY <1>10, UnknownShown
  <2>2. {"MOV", "LOAD", "STORE", "SYS", "JMP", "ADD", "SUB", "MUL", "DIV",
         "CMP", "INC", "DEC", "HALT", "NOP"} \subseteq Mnemonics
    BY DEF Mnemonics
  <2>3. ~Faithful(w)
    BY <1>10, <2>2, FaithfulForms
  <2>. QED
    BY <2>1, <2>3
<1>. QED
  BY <1>1, <1>2, <1>3, <1>4, <1>5, <1>6, <1>7, <1>8, <1>9, <1>10 DEF Mnemonics

----------------------------------------------------------------------------
(* The whole. *)

ListingInv == AssemblerInv /\ TextInv /\ ToolInv

LEMMA InitListingInv == ASSUME ListingInit PROVE ListingInv
<1>1. AssemblerInv /\ TextInv
  BY InitTextInv DEF ListingInit
<1>2. /\ tool = "idle" /\ argv = <<>> /\ taken = 0 /\ options = DefaultOptions /\ names = <<>>
      /\ holders = {} /\ found = NotFound /\ labels = <<>> /\ scanned = 0 /\ address = 0 /\ rows = <<>>
      /\ output_file = NoFile
  BY DEF ListingInit, OptionsInit, ParserInit, AssemblerInit
<1>3. ArgumentsInv
  <2>1. DefaultOptions \in OptionRecord
    BY WordFacts DEF DefaultOptions, OptionRecord
  <2>2. ArgumentsTyped
    BY <1>2, <2>1 DEF ArgumentsTyped
  <2>3. Hexes(names) = <<>>
    BY <1>2 DEF Hexes
  <2>4. Collected
    <3>1. ~(taken < Len(argv))
      BY <1>2
    <3>2. \A F : Concatenates(F, Pieces) => F[taken] = Hexes(names)
      BY <1>2, <2>3 DEF Concatenates
    <3>. QED
      BY <3>1, <3>2 DEF Collected
  <2>. QED
    BY <1>2, <2>2, <2>4 DEF ArgumentsInv, AfterArguments
<1>4. SearchInv /\ FileInv /\ ControlInv
  BY <1>2 DEF SearchInv, FileInv, ControlInv, NoFile
<1>5. RowsInv
  <2>1. rows \in Seq({}) /\ Len(rows) = 0 /\ DOMAIN rows = {}
    BY <1>2
  <2>. QED
    BY <1>2, <2>1 DEF RowsInv
<1>6. LabelsInv
  <2>1. labels \in Seq({}) /\ Len(labels) = 0
    BY <1>2
  <2>2. Len(File) \in Nat
    BY <1>1, TextWritten, FileLength
  <2>. QED
    BY <1>2, <2>1, <2>2, SampleTable, WordFacts DEF LabelsInv
<1>. QED
  BY <1>1, <1>3, <1>4, <1>5, <1>6 DEF ListingInv, ToolInv

\* A file that is written is bytes, behind a header that fits a word.
LEMMA FileTyped ==
    ASSUME AssemblerInv, FileInv, [AssemblerNext]_asmVars
    PROVE  FileInv'
<1>1. CASE WriteFile
  <2>1. \/ output_file' = [exists |-> TRUE, header |-> output_size, body |-> Body]
        \/ output_file' = output_file
    BY <1>1 DEF WriteFile, Body
  <2>2. Body \in Seq(Byte)
    BY BodyBytes
  <2>3. output_size \in Word
    BY AssemblerAssumption, WordFacts DEF AssemblerInv, AssemblerTypeOK, Word
  <2>. HIDE DEF Body
  <2>. QED
    BY <2>1, <2>2, <2>3 DEF FileInv
<1>2. CASE ~WriteFile
  <2>1. output_file' = output_file
    BY <1>2 DEF AssemblerNext, Assemble, AssemblerExited, AssembleString, Blank, Label, Constant,
                CountInstruction, EmitInstruction, OutputOverflow, ParserError, SecondPass, Parsed,
                Defines, Counts, Emits, Overflows, Fails, StartsSecondPass, EndsSecondPass, parserVars,
                CopyString, CopyAborts, StringsTooLong, OtherSymbol, StringsDone, asmVars
  <2>. QED
    BY <2>1 DEF FileInv
<1>. QED
  BY <1>1, <1>2

LEMMA NextListingInv ==
    ASSUME DocumentsAreRead, ListingInv, [ListingNext]_listingVars
    PROVE  ListingInv' /\ [AssemblerNext]_asmVars
<1>1. AssemblerInv /\ TextInv /\ ToolInv /\ IsWritten(text) /\ Invoked
  BY TextWritten DEF ListingInv, TextInv, Invoked
<1>2. CASE ParserMoves
  <2>1. AssemblerInv' /\ TextInv' /\ [AssemblerNext]_asmVars
    BY <1>1, <1>2, ParserStep DEF ParserMoves
  <2>2. FileInv'
    BY <1>1, <2>1, FileTyped DEF ToolInv
  <2>3. text' = text
    BY <1>2 DEF ParserMoves, ParserNext, AssembleText, ParserExited, ParseStatement, AfterParse, EmptyLine,
                LabelStatement, ConstantStatement, InstructionStatement, ErrorStatement, RewindText,
                TextParsed, NextStatement, textVars
  <2>4. ToolInv'
    BY <1>1, <1>2, <2>2, <2>3, ToolWaits
  <2>. QED
    BY <2>1, <2>4 DEF ListingInv
<1>3. CASE ToolMoves
  <2>1. AssemblerInv' /\ TextInv' /\ [AssemblerNext]_asmVars
    BY <1>1, <1>3, ParserStep DEF ToolMoves, textVars
  <2>2. ToolInv'
    BY <1>1, <1>3, ToolStep
  <2>. QED
    BY <2>1, <2>2 DEF ListingInv
<1>. QED
  BY <1>2, <1>3, StepParts

\* There are never more custom directories than there is room for.
CustomInv == Len(options.custom) <= MaxSearchDirs

LEMMA NextCustomInv ==
    ASSUME ListingInv, CustomInv, [ListingNext]_listingVars
    PROVE  CustomInv'
<1>1. options' = options \/ ReadArguments
  BY DEF ListingNext, listingVars, toolVars, optionVars, Disassemble, StartTool, UseArguments, ListWords,
         ListFile, NoBinary, LoadSymbols, SkipComment, LabelLine, CountedLine, ReadingLine, SourceRead,
         CheckWindow, ListRow, RowsDone, Stop
<1>2. CASE options' = options
  BY <1>2 DEF CustomInv
<1>3. CASE ReadArguments
  <2>. DEFINE c == options.custom
  <2>1. options \in OptionRecord
    BY DEF ListingInv, ToolInv, ArgumentsInv, ArgumentsTyped
  <2>2. c \in Seq({a.dir : a \in Given}) /\ Len(c) \in Nat
    BY <2>1 DEF OptionRecord
  <2>3. options'.custom = c \/ (Len(c) < MaxSearchDirs /\ \E d : options'.custom = Append(c, d))
    BY <1>3, <2>1
       DEF OptionRecord, ReadArguments, ShowHelp, ValueMissing, ReadFormat, ReadStart, ReadCount,
           ReadSymbolFile, ReadSearchDir, ReadSymbols, ReadOther, ReadName, ArgumentsRead, Take, Stop
  <2>4. \A d : Len(Append(c, d)) = Len(c) + 1
    BY <2>2
  <2>. HIDE DEF c
  <2>. QED
    BY <2>2, <2>3, <2>4, OptionsAssumption DEF CustomInv, c
<1>. QED
  BY <1>1, <1>2, <1>3

LEMMA ListingInductive ==
    ASSUME DocumentsAreRead
    PROVE  ListingSpec => [](ListingInv /\ CustomInv) /\ [][AssemblerNext]_asmVars /\ AssemblerInit
<1>1. ListingInit => ListingInv /\ CustomInv /\ AssemblerInit
  <2>1. ASSUME ListingInit PROVE ListingInv /\ CustomInv /\ AssemblerInit
    <3>1. options.custom = <<>> /\ Len(<<>>) = 0
      BY <2>1 DEF ListingInit, OptionsInit, DefaultOptions
    <3>2. CustomInv
      BY <3>1, OptionsAssumption DEF CustomInv
    <3>. QED
      BY <2>1, <3>2, InitListingInv DEF ListingInit, ParserInit
  <2>. QED
    BY <2>1
<1>2. ListingInv /\ CustomInv /\ [ListingNext]_listingVars =>
         ListingInv' /\ CustomInv' /\ [AssemblerNext]_asmVars
  BY NextListingInv, NextCustomInv
<1>. QED
  BY <1>1, <1>2, PTL DEF ListingSpec

\* Whatever text is assembled and whatever the tool is called with, its
\* tables keep to their sizes, and what it lists are words under addresses.
THEOREM ListingTypeCorrect ==
    ASSUME DocumentsAreRead
    PROVE  ListingSpec => []ListingTypeOK
<1>1. ASSUME ListingInv, CustomInv PROVE ListingTypeOK
  <2>1. AssemblerTypeOK /\ IsText(text) /\ IsLexer(text, lexer)
    <3>1. IsText(text) /\ lexer \in Lexers(text)
      BY <1>1, TextFacts DEF ListingInv, TextInv
    <3>. QED
      BY <1>1, <3>1, LexersLook DEF ListingInv, AssemblerInv
  <2>. QED
    BY <1>1, <2>1 DEF ListingInv, ToolInv, ControlInv, RowsInv, LabelsInv, CustomInv,
                      ListingTypeOK, ParserTypeOK
<1>. QED
  BY <1>1, ListingInductive, PTL

\* The two loops over the arguments agree, on every command line: words are
\* listed that parse_arguments took for something else only with one of the
\* two options that main's loop does not know of.
THEOREM ArgumentsAreAgreed ==
    ASSUME DocumentsAreRead
    PROVE  ListingSpec => []ArgumentsAgree
<1>1. ASSUME ListingInv PROVE ArgumentsAgree
  <2>. SUFFICES ASSUME tool \in {"words", "listing"}, OnlySkipped
                PROVE  Words = [k \in DOMAIN names |-> names[k].hex]
    BY DEF ArgumentsAgree, OnlySkipped
  <2>1. ArgumentsTyped /\ Collected /\ taken = Len(argv)
    BY <1>1 DEF ListingInv, ToolInv, ArgumentsInv, AfterArguments
  <2>2. PICK F \in [0 .. Len(argv) -> Seq(Word)] : Concatenates(F, Pieces) /\ Words = F[Len(argv)]
    BY <2>1, WordsCollected DEF ArgumentsTyped
  <2>3. F[taken] = Hexes(names)
    BY <2>1, <2>2 DEF Collected
  <2>. QED
    BY <2>1, <2>2, <2>3 DEF Hexes
<1>. QED
  BY <1>1, ListingInductive, PTL

\* Wherever the sources are, the one found is the one beside the binary, or
\* else that in the first custom directory with one, and one in a usual
\* directory under the current one is never missed.
THEOREM SourceIsFound ==
    ASSUME DocumentsAreRead
    PROVE  ListingSpec => []SearchOutcome
<1>1. ASSUME ListingInv PROVE SearchOutcome
  <2>1. CASE Searched # Absent /\ tool \in {"source", "window", "listing"}
    BY <1>1, <2>1, FoundFirst DEF ListingInv, ToolInv, ArgumentsInv
  <2>2. CASE ~(Searched # Absent /\ tool \in {"source", "window", "listing"})
    BY <2>2 DEF SearchOutcome
  <2>. QED
    BY <2>1, <2>2
<1>. QED
  BY <1>1, ListingInductive, PTL

\* Of every file, of any length, the rows are the words asked for, each once
\* and under its address.
THEOREM WindowIsListed ==
    ASSUME DocumentsAreRead
    PROVE  ListingSpec => []RowsAreWindow
<1>1. ASSUME ListingInv, tool = "listed", HasFilename,
             StartIndex + Count < WordSpan, 4 * Total <= WordSpan
      PROVE  /\ Len(rows) = Set!Min({Count, Total - StartIndex})
             /\ \A k \in DOMAIN rows : /\ rows[k].address \div 4 = StartIndex + k - 1
                                       /\ rows[k].word = FileWord(rows[k].address \div 4)
  <2>. DEFINE n == Len(rows)
  <2>1. /\ Total \in Nat \ {0} /\ StartIndex \in Nat /\ Count \in Nat \ {0}
        /\ EndIndex \in Nat /\ EndIndex <= Total
        /\ EndIndex = IF (StartIndex + Count) % WordSpan <= Total
                        THEN (StartIndex + Count) % WordSpan ELSE Total
        /\ options.start \in Nat
    BY <1>1, WindowFacts DEF ListingInv, ToolInv, ArgumentsInv
  <2>2. WordSpan \in Nat \ {0}
    BY WordFacts
  <2>3. (StartIndex + Count) % WordSpan = StartIndex + Count
    BY <1>1, <2>1, <2>2
  <2>4. /\ n \in Nat /\ DOMAIN rows = 1 .. n
        /\ StartIndex < Total /\ StartIndex + n >= EndIndex
        /\ \A k \in DOMAIN rows : /\ rows[k].address = (options.start + 4 * (k - 1)) % WordSpan
                                  /\ rows[k].word = FileWord(StartIndex + (k - 1))
                                  /\ StartIndex + (k - 1) < EndIndex
    <3>1. RowsInv
      BY <1>1 DEF ListingInv, ToolInv
    <3>2. PICK T : rows \in Seq(T)
      BY <3>1 DEF RowsInv
    <3>3. n \in Nat /\ DOMAIN rows = 1 .. n
      BY <3>2
    <3>. QED
      BY <1>1, <3>1, <3>3 DEF RowsInv
  <2>5. EndIndex = IF StartIndex + Count <= Total THEN StartIndex + Count ELSE Total
    BY <2>1, <2>3
  <2>. HIDE DEF n
  <2>6. n # 0
    BY <2>1, <2>4, <2>5
  <2>7. StartIndex + (n - 1) < EndIndex
    <3>1. n \in DOMAIN rows
      BY <2>4, <2>6
    <3>2. \A k \in DOMAIN rows : StartIndex + (k - 1) < EndIndex
      BY <2>4
    <3>. QED
      BY <3>1, <3>2
  <2>8. n = IF Count <= Total - StartIndex THEN Count ELSE Total - StartIndex
    BY <2>1, <2>4, <2>5, <2>7
  <2>9. n = Set!Min({Count, Total - StartIndex})
    <3>1. Total - StartIndex \in Nat
      BY <2>1, <2>4
    <3>. QED
      BY <2>1, <2>8, <3>1, MinOfTwo
  <2>10. ASSUME NEW k \in DOMAIN rows
         PROVE  rows[k].address \div 4 = StartIndex + (k - 1)
    <3>1. StartIndex + (k - 1) < Total /\ k - 1 \in Nat
      <4>1. StartIndex + (k - 1) < EndIndex /\ k \in 1 .. n /\ n \in Nat
        BY <2>4
      <4>2. k - 1 \in Nat
        BY <4>1
      <4>. QED
        BY <2>1, <4>1, <4>2
    <3>2. StartIndex = options.start \div 4
      BY DEF StartIndex
    <3>. DEFINE s == options.start
                r == s - 4 * StartIndex
                i == StartIndex + (k - 1)
    <3>3. r \in 0 .. 3 /\ s + 4 * (k - 1) = 4 * i + r /\ i \in Nat
      <4>1. 4 * (s \div 4) <= s /\ s < 4 * (s \div 4) + 4
        BY <2>1, Quarter
      <4>2. 4 * StartIndex <= s /\ s < 4 * StartIndex + 4
        BY <3>2, <4>1
      <4>. QED
        BY <2>1, <3>1, <4>2
    <3>. HIDE DEF r, i, s
    <3>4. 4 * i + r < WordSpan
      BY <1>1, <2>1, <2>2, <3>1, <3>3 DEF i
    <3>5. (4 * i + r) % WordSpan = 4 * i + r
      BY <2>2, <3>3, <3>4
    <3>6. (4 * i + r) \div 4 = i
      BY <3>3, QuotRem
    <3>7. rows[k].address = 4 * i + r
      BY <2>4, <3>3, <3>5 DEF s
    <3>. QED
      BY <3>6, <3>7 DEF i
  <2>11. ASSUME NEW k \in DOMAIN rows
         PROVE  /\ rows[k].address \div 4 = StartIndex + k - 1
                /\ rows[k].word = FileWord(rows[k].address \div 4)
    <3>1. rows[k].word = FileWord(StartIndex + (k - 1))
      BY <2>4
    <3>2. StartIndex + (k - 1) = StartIndex + k - 1
      BY <2>1, <2>4
    <3>. QED
      BY <2>10, <3>1, <3>2
  <2>. QED
    BY <2>9, <2>11 DEF n
<1>2. ListingInv => RowsAreWindow
  BY <1>1 DEF RowsAreWindow
<1>. QED
  BY <1>2, ListingInductive, PTL

\* Of every word that is listed: the assembler makes the word again of the line
\* shown for it exactly where the disassembler knows what the assembler
\* writes and the machine executes.
THEOREM ListingsReassemble ==
    ASSUME DocumentsAreRead
    PROVE  ListingSpec => []ListingReassembles
<1>1. ASSUME ListingInv PROVE ListingReassembles
  <2>1. rows # <<>> => Sequence!Last(rows).word \in Word
    <3>1. PICK T : rows \in Seq(T)
      BY <1>1 DEF ListingInv, ToolInv, RowsInv
    <3>2. rows # <<>> => Len(rows) \in DOMAIN rows
      BY <3>1
    <3>. QED
      BY <1>1, <3>2 DEF ListingInv, ToolInv, RowsInv, Sequence!Last
  <2>. QED
    BY <2>1, WordReassembles DEF ListingReassembles
<1>2. ListingInv => ListingReassembles
  BY <1>1
<1>. QED
  BY <1>2, ListingInductive, PTL

\* Whatever the layout of a text, from the text to the file the assembler
\* does what DezAssembler does with its lines, in both passes, whatever the
\* tool does with text and file later: ImplementsLines, without its liveness.
THEOREM TextImplementsLines ==
    ASSUME DocumentsAreRead
    PROVE  ListingSpec => AssemblerInit /\ [][AssemblerNext]_asmVars
BY ListingInductive, PTL

\* In every text without quotes and carriage returns the parser's test of the
\* raw text for a label is the test that its tokens call for.
THEOREM LabelsAreTokens ==
    ASSUME DocumentsAreRead
    PROVE  ListingSpec => []LabelsByToken
<1>1. ListingInv => LabelsByToken
  BY LabelTestsAgree DEF ListingInv
<1>. QED
  BY <1>1, ListingInductive, PTL

\* What a text is assembled to is the program of its lines.
THEOREM TextIsProgram ==
    ASSUME DocumentsAreRead, NamesFit
    PROVE  ListingSpec => []OutputIsProgram
<1>1. ListingSpec => []AssemblerInv /\ [][AssemblerNext]_asmVars /\ AssemblerInit
  <2>1. ListingInv => AssemblerInv
    BY DEF ListingInv
  <2>. QED
    BY <2>1, ListingInductive, TextImplementsLines, PTL
<1>2. AssemblerInit => ProgramInv
  BY InitProgramInv
<1>3. AssemblerInv /\ ProgramInv /\ [AssemblerNext]_asmVars => ProgramInv'
  BY NextProgramInv
<1>4. AssemblerInv /\ ProgramInv => OutputIsProgram
  BY ProgramInvIsProgram
<1>. QED
  BY <1>1, <1>2, <1>3, <1>4, PTL

----------------------------------------------------------------------------
(* The labels of a tidy text.  What the tool gets of it line by line is    *)
(* what the parser gets of it statement by statement.                      *)

Starts(txt) == {p \in 0 .. Len(txt) - 1 : p = 0 \/ txt[p].is = "NEWLINE"}

NoReturns(txt) == \A p \in 1 .. Len(txt) : txt[p].is # "cr"

\* The place where a line ends.
IsLineEnd(txt, p, q) ==
    /\ q \in p .. Len(txt)
    /\ At(txt, q) \in {"NEWLINE", "end"}
    /\ \A k \in p .. q - 1 : At(txt, k) # "NEWLINE"

LEMMA OneLineEnd ==
    ASSUME NEW txt, IsText(txt), NEW p \in 0 .. Len(txt), NEW q, IsLineEnd(txt, p, q)
    PROVE  q = EndOfLine(txt, p)
<1>. DEFINE e == EndOfLine(txt, p)
<1>1. Len(txt) \in Nat
  BY DEF IsText
<1>2. IsLineEnd(txt, p, e)
  BY EndOfLineFound DEF IsLineEnd
<1>3. ASSUME NEW a, NEW b, IsLineEnd(txt, p, a), IsLineEnd(txt, p, b), a < b PROVE FALSE
  <2>1. a \in p .. b - 1 /\ a # Len(txt) /\ a \in 0 .. Len(txt)
    BY <1>1, <1>3 DEF IsLineEnd
  <2>2. At(txt, a) # "end"
    BY <2>1, TextEnd
  <2>. QED
    BY <1>3, <2>1, <2>2 DEF IsLineEnd
<1>4. q \in Int /\ e \in Int
  BY <1>1, <1>2 DEF IsLineEnd
<1>5. ~(q < e) /\ ~(e < q)
  BY <1>2, <1>3
<1>. QED
  BY <1>4, <1>5

\* Lines follow on each other.
LEMMA LineEndFound ==
    ASSUME NEW txt, IsText(txt), NEW p \in 0 .. Len(txt)
    PROVE  /\ LineEnd(txt, p) \in p .. Len(txt)
           /\ p # Len(txt) => LineEnd(txt, p) > p
           /\ LineEnd(txt, p) \in Starts(txt) \union {Len(txt)}
           /\ \A k \in p + 1 .. LineEnd(txt, p) - 1 : k \notin Starts(txt)
           /\ LineEnd(txt, p) = IF EndOfLine(txt, p) = Len(txt) THEN Len(txt) ELSE EndOfLine(txt, p) + 1
<1>. DEFINE e == EndOfLine(txt, p)
            n == Len(txt)
<1>1. n \in Nat
  BY DEF IsText
<1>2. /\ e \in p .. n /\ e \in 0 .. n /\ At(txt, e) \in {"NEWLINE", "end"}
      /\ \A k \in p .. e - 1 : At(txt, k) # "NEWLINE"
  BY <1>1, EndOfLineFound
<1>3. LineEnd(txt, p) = Set!Min({e + 1, n})
  BY DEF LineEnd
<1>. HIDE DEF e
<1>4. LineEnd(txt, p) = IF e = n THEN n ELSE e + 1
  <2>1. e + 1 \in Nat
    BY <1>1, <1>2
  <2>. QED
    BY <1>1, <1>2, <1>3, <2>1, MinOfTwo
<1>5. LineEnd(txt, p) \in p .. n /\ (p # n => LineEnd(txt, p) > p)
  BY <1>1, <1>2, <1>4
<1>6. e # n => e + 1 \in Starts(txt) \union {n}
  <2>. SUFFICES ASSUME e # n PROVE e + 1 \in Starts(txt) \union {n}
    OBVIOUS
  <2>1. At(txt, e) = txt[e + 1].is /\ At(txt, e) # "end"
    BY <1>2, TextEnd
  <2>. QED
    BY <1>1, <1>2, <2>1 DEF Starts
<1>7. ASSUME NEW k \in p + 1 .. LineEnd(txt, p) - 1 PROVE k \notin Starts(txt)
  <2>1. k - 1 \in p .. e - 1 /\ k - 1 < n /\ (k - 1) + 1 = k /\ k # 0
    BY <1>1, <1>2, <1>4, <1>7
  <2>2. At(txt, k - 1) = txt[k].is
    BY <2>1 DEF At
  <2>. QED
    BY <1>2, <2>1, <2>2 DEF Starts
<1>. QED
  BY <1>4, <1>5, <1>6, <1>7 DEF e

\* After spaces, a character.
StepsTo(txt, p, q, kind) ==
    /\ q \in p + 1 .. Len(txt)
    /\ txt[q].is = kind
    /\ \A k \in p + 1 .. q - 1 : txt[k].is = "space"

\* It is on the same line.
LEMMA SameLine ==
    ASSUME NEW txt, IsText(txt), NEW p \in 0 .. Len(txt), NEW q,
           NEW kind \in {"word", "COLON"}, StepsTo(txt, p, q, kind)
    PROVE  /\ q \in 0 .. Len(txt) /\ q > p
           /\ LineEnd(txt, q) = LineEnd(txt, p)
           /\ RawEnd(txt, q) = RawEnd(txt, p) /\ RawEnd(txt, p) \in q .. Len(txt)
<1>. DEFINE n == Len(txt)
            e == EndOfLine(txt, q)
            z == RawEnd(txt, q)
<1>1. n \in Nat
  BY DEF IsText
<1>2. q \in p + 1 .. n /\ q \in 0 .. n /\ q > p
  BY <1>1 DEF StepsTo
<1>3. \A k \in p .. q - 1 : At(txt, k) \in {"space", "word", "COLON"}
  <2>1. ASSUME NEW k \in p .. q - 1 PROVE At(txt, k) \in {"space", "word", "COLON"}
    <3>1. k + 1 \in p + 1 .. q - 1 \/ k + 1 = q
      BY <1>1, <1>2
    <3>2. k < n
      BY <1>1, <1>2
    <3>3. At(txt, k) = txt[k + 1].is
      BY <3>2 DEF At
    <3>. QED
      BY <3>1, <3>3 DEF StepsTo
  <2>. QED
    BY <2>1
<1>4. /\ e \in q .. n /\ At(txt, e) \in {"NEWLINE", "end"}
      /\ \A k \in q .. e - 1 : At(txt, k) # "NEWLINE"
  BY <1>2, EndOfLineFound
<1>5. IsRawEnd(txt, q, z)
  BY <1>2, RawEndFound
<1>. HIDE DEF e, z
<1>6. e = EndOfLine(txt, p)
  <2>1. \A k \in p .. e - 1 : k \in p .. q - 1 \/ k \in q .. e - 1
    BY <1>1, <1>2, <1>4
  <2>2. e \in p .. n
    BY <1>1, <1>2, <1>4
  <2>3. IsLineEnd(txt, p, e)
    BY <1>3, <1>4, <2>1, <2>2 DEF IsLineEnd
  <2>. QED
    BY <2>3, OneLineEnd
<1>7. z = RawEnd(txt, p) /\ z \in q .. n
  <2>0. z \in q .. n
    BY <1>5 DEF IsRawEnd
  <2>1. \A k \in p .. z - 1 : k \in p .. q - 1 \/ k \in q .. z - 1
    BY <1>1, <1>2, <2>0
  <2>2. z \in p .. n
    BY <1>1, <1>2, <2>0
  <2>3. IsRawEnd(txt, p, z)
    BY <1>3, <1>5, <2>1, <2>2 DEF IsRawEnd
  <2>. QED
    BY <2>0, <2>3, RawEndFound
<1>. QED
  BY <1>2, <1>6, <1>7 DEF LineEnd, e, z

\* What the lexer says of the character the next token starts with.
LEMMA BlankStep ==
    ASSUME NEW txt, IsText(txt), NoReturns(txt), NEW p \in 0 .. Len(txt), NEW t, t = NextToken(txt, p)
    PROVE  /\ LineEnds(t) => Blanks(txt, p) /\ t.position = LineEnd(txt, p)
           /\ t.token.type = "IDENTIFIER" => /\ StepsTo(txt, p, t.position, "word")
                                             /\ t.token.word = txt[t.position].word
           /\ t.token.type = "COLON" => StepsTo(txt, p, t.position, "COLON")
<1>. DEFINE n == Len(txt)
            q == AfterBlanks(txt, p)
            e == Skip(txt, p)
<1>1. n \in Nat
  BY DEF IsText
<1>2. /\ q \in p .. n /\ q \in 0 .. n /\ At(txt, q) \notin {"space", "cr"}
      /\ \A k \in p .. q - 1 : At(txt, k) \in {"space", "cr"}
  BY <1>1, AfterBlanksFound
<1>3. \A k \in p + 1 .. q : txt[k].is = "space"
  <2>. HIDE DEF q
  <2>1. ASSUME NEW k \in p + 1 .. q PROVE txt[k].is = "space"
    <3>1. k - 1 \in p .. q - 1 /\ k - 1 < n /\ (k - 1) + 1 = k /\ k \in 1 .. n
      BY <1>1, <1>2
    <3>2. At(txt, k - 1) = txt[k].is
      BY <3>1 DEF At
    <3>. QED
      BY <1>2, <3>1, <3>2 DEF NoReturns
  <2>. QED
    BY <2>1
<1>4. e = IF At(txt, q) = "semicolon" THEN EndOfLine(txt, q) ELSE q
  BY DEF Skip
<1>5. t = Scanned(txt, e)
  BY DEF NextToken
<1>6. EndOfLine(txt, q) \in q .. n /\ At(txt, EndOfLine(txt, q)) \in {"NEWLINE", "end"}
      /\ \A k \in q .. EndOfLine(txt, q) - 1 : At(txt, k) # "NEWLINE"
  BY <1>2, EndOfLineFound
<1>. HIDE DEF q, e
<1>7. e \in 0 .. n
  BY <1>1, <1>2, <1>4, <1>6
<1>8. CASE At(txt, q) \in StopsRaw
  <2>1. IsRawEnd(txt, p, q)
    BY <1>2, <1>8 DEF IsRawEnd
  <2>2. Blanks(txt, p)
    BY <1>3, <2>1, RawEndFound DEF Blanks
  <2>3. /\ e \in q .. n /\ At(txt, e) \in {"NEWLINE", "end"}
        /\ \A k \in q .. e - 1 : At(txt, k) # "NEWLINE"
    BY <1>1, <1>2, <1>4, <1>6, <1>8 DEF StopsRaw
  <2>4. e = EndOfLine(txt, p)
    <3>1. \A k \in p .. e - 1 : k \in p .. q - 1 \/ k \in q .. e - 1
      BY <1>1, <1>2, <2>3
    <3>2. e \in p .. n
      BY <1>1, <1>2, <2>3
    <3>3. IsLineEnd(txt, p, e)
      BY <1>2, <2>3, <3>1, <3>2 DEF IsLineEnd
    <3>. QED
      BY <3>3, OneLineEnd
  <2>5. /\ At(txt, e) = "end" => e = n
        /\ At(txt, e) = "NEWLINE" => e # n
    BY <1>7, TextEnd
  <2>6. At(txt, e) = "end" => t.token.type = "EOF" /\ t.position = e
    BY <1>5 DEF Scanned
  <2>7. At(txt, e) = "NEWLINE" => t.token.type = "NEWLINE" /\ t.position = e + 1
    BY <1>5 DEF Scanned
  <2>8. t.token.type \in {"EOF", "NEWLINE"} /\ t.position = IF e = n THEN n ELSE e + 1
    BY <2>3, <2>5, <2>6, <2>7
  <2>9. t.position = LineEnd(txt, p)
    BY <2>4, <2>8, LineEndFound
  <2>. QED
    BY <2>2, <2>8, <2>9
<1>9. CASE At(txt, q) \notin StopsRaw
  <2>. DEFINE r == q + 1
  <2>1. q # n /\ q < n /\ r \in 1 .. n /\ At(txt, q) = txt[r].is /\ At(txt, q) \in Kinds
    BY <1>2, <1>9, TextEnd DEF StopsRaw
  <2>2. e = q
    BY <1>4, <1>9 DEF StopsRaw
  <2>3. r \in p + 1 .. n /\ q = r - 1
    BY <1>1, <1>2, <2>1
  <2>4. At(txt, q) = "number" => t.token.type = "NUMBER"
    BY <1>5, <2>2 DEF Scanned
  <2>5. At(txt, q) = "word" => /\ t.position = r /\ t.token.word = txt[r].word
                               /\ t.token.type \in {"REGISTER", "IDENTIFIER"}
    BY <1>5, <2>2 DEF Scanned
  <2>6. At(txt, q) = "quote" => t.token.type \in {"STRING", "UNKNOWN"}
    BY <1>5, <2>2 DEF Scanned, LiteralToken
  <2>7. At(txt, q) \notin {"number", "word", "quote"} => t.token.type = At(txt, q) /\ t.position = r
    BY <1>5, <1>9, <2>2 DEF Scanned, StopsRaw
  <2>8. t.token.type \notin {"EOF", "NEWLINE"}
    BY <1>9, <2>1, <2>4, <2>5, <2>6, <2>7 DEF StopsRaw, Kinds, Single
  <2>9. t.token.type = "IDENTIFIER" => t.position = r /\ txt[r].is = "word" /\ t.token.word = txt[r].word
    BY <1>9, <2>1, <2>4, <2>5, <2>6, <2>7 DEF StopsRaw, Kinds, Single
  <2>10. t.token.type = "COLON" => t.position = r /\ txt[r].is = "COLON"
    BY <1>9, <2>1, <2>4, <2>5, <2>6, <2>7 DEF StopsRaw, Kinds, Single
  <2>11. \A k \in p + 1 .. r - 1 : txt[k].is = "space"
    BY <1>3, <2>3
  <2>. HIDE DEF r
  <2>. QED
    BY <2>3, <2>8, <2>9, <2>10, <2>11 DEF LineEnds, StepsTo
<1>. QED
  BY <1>8, <1>9

\* The line after p without the blanks at its end, as characters.
TrimmedText(txt, p) ==
    LET last == CHOOSE q \in p + 1 .. LineEnd(txt, p) :
                    /\ q = p + 1 \/ txt[q].is \notin Whitespace
                    /\ \A k \in q + 1 .. LineEnd(txt, p) : txt[k].is \in Whitespace
    IN  SubSeq(txt, p + 1, last)

\* The names before the first colon of a line, with a comment at most after it.
HasName(l, c) ==
    \E colon \in 1 .. Len(l), at \in 1 .. Len(l), end \in 1 .. Len(l) + 1 :
        /\ at < colon /\ colon < end
        /\ l[at] = c /\ c.is = "word"
        /\ l[colon].is = "COLON"
        /\ end = Len(l) + 1 \/ l[end].is = "semicolon"
        /\ \A k \in 1 .. end - 1 : k \notin {at, colon} => l[k].is = "space"

NamesIn(l) == {c \in {l[k] : k \in 1 .. Len(l)} : HasName(l, c)}

\* The line after p is trimmed to the characters up to last.
IsTrimmed(txt, p, last) ==
    /\ last \in p + 1 .. LineEnd(txt, p)
    /\ last = p + 1 \/ txt[last].is \notin Whitespace
    /\ \A k \in last + 1 .. LineEnd(txt, p) : txt[k].is \in Whitespace
    /\ Len(TrimmedText(txt, p)) = last - p
    /\ \A k \in 1 .. last - p : TrimmedText(txt, p)[k] = txt[p + k]

LEMMA PartOf ==
    ASSUME NEW s, NEW p \in Nat, NEW q \in Nat, p < q
    PROVE  /\ Len(SubSeq(s, p + 1, q)) = q - p
           /\ \A k \in 1 .. q - p : SubSeq(s, p + 1, q)[k] = s[p + k]
           /\ DOMAIN SubSeq(s, p + 1, q) = 1 .. q - p
<1>. DEFINE r == SubSeq(s, p + 1, q)
<1>1. r = [k \in 1 .. q - p |-> s[p + k]]
  <2>1. r = [k \in 1 .. (1 + q - (p + 1)) |-> s[k + (p + 1) - 1]]
    BY DEF SubSeq
  <2>2. 1 + q - (p + 1) = q - p /\ \A k \in 1 .. q - p : k + (p + 1) - 1 = p + k
    OBVIOUS
  <2>. QED
    BY <2>1, <2>2
<1>2. q - p \in Nat
  OBVIOUS
<1>. QED
  BY <1>1, <1>2

LEMMA TrimmedFound ==
    ASSUME NEW txt, IsText(txt), NEW p \in 0 .. Len(txt), p # Len(txt)
    PROVE  \E last : IsTrimmed(txt, p, last)
<1>. DEFINE e == LineEnd(txt, p)
            Good(q) == /\ q = p + 1 \/ txt[q].is \notin Whitespace
                       /\ \A k \in q + 1 .. e : txt[k].is \in Whitespace
            T == {q \in p + 1 .. e : q = p + 1 \/ txt[q].is \notin Whitespace}
            last == CHOOSE q \in p + 1 .. e : Good(q)
<1>1. Len(txt) \in Nat
  BY DEF IsText
<1>2. e \in p + 1 .. Len(txt)
  BY <1>1, LineEndFound
<1>3. TrimmedText(txt, p) = SubSeq(txt, p + 1, last)
  BY DEF TrimmedText
<1>4. last \in p + 1 .. e /\ Good(last)
  <2>. HIDE DEF e
  <2>1. T \subseteq 0 .. e /\ e \in Nat /\ p + 1 \in T
    BY <1>1, <1>2
  <2>2. PICK q \in T : \A r \in T : r <= q
    <3>. HIDE DEF T
    <3>1. T \in SUBSET (0 .. e) /\ T # {}
      BY <2>1
    <3>. QED
      BY <2>1, <3>1, GreatestElement
  <2>3. \A k \in q + 1 .. e : k \in p + 1 .. e /\ ~(k <= q)
    BY <1>1, <1>2, <2>2
  <2>4. q \in p + 1 .. e /\ Good(q)
    BY <2>2, <2>3
  <2>. QED
    BY <2>4
<1>. HIDE DEF last
<1>5. /\ Len(SubSeq(txt, p + 1, last)) = last - p
      /\ \A k \in 1 .. last - p : SubSeq(txt, p + 1, last)[k] = txt[p + k]
  <2>. HIDE DEF e
  <2>1. p \in Nat /\ last \in Nat /\ p < last
    BY <1>1, <1>2, <1>4
  <2>. QED
    BY <2>1, PartOf
<1>. QED
  BY <1>3, <1>4, <1>5 DEF IsTrimmed

\* The places of the label x, of its colon, and of the end of its line or of
\* what follows in it.
LabelPlaces(txt, p, last, x, at, colon, end) ==
    /\ at \in p + 1 .. last /\ colon \in p + 1 .. last /\ end \in p + 1 .. last + 1
    /\ at < colon /\ colon < end
    /\ txt[at] = x /\ x.is = "word"
    /\ txt[colon].is = "COLON"
    /\ end = last + 1 \/ txt[end].is = "semicolon"
    /\ \A k \in p + 1 .. end - 1 : k \notin {at, colon} => txt[k].is = "space"

LEMMA LabelPlaced ==
    ASSUME NEW txt, IsText(txt), NEW p \in 0 .. Len(txt), p # Len(txt),
           NEW last, IsTrimmed(txt, p, last), NEW x
    PROVE  x \in NamesIn(TrimmedText(txt, p)) <=>
              \E at, colon, end : LabelPlaces(txt, p, last, x, at, colon, end)
<1>. DEFINE l == TrimmedText(txt, p)
            n == last - p
<1>1. Len(txt) \in Nat /\ LineEnd(txt, p) \in p .. Len(txt)
  BY LineEndFound DEF IsText
<1>2. last \in Nat /\ p \in Nat /\ n \in Nat /\ Len(l) = n /\ \A k \in 1 .. n : l[k] = txt[p + k]
  BY <1>1 DEF IsTrimmed
<1>. HIDE DEF l
<1>3. ASSUME HasName(l, x) PROVE \E at, colon, end : LabelPlaces(txt, p, last, x, at, colon, end)
  <2>1. PICK colon \in 1 .. n, at \in 1 .. n, end \in 1 .. n + 1 :
           /\ at < colon /\ colon < end
           /\ l[at] = x /\ x.is = "word"
           /\ l[colon].is = "COLON"
           /\ end = n + 1 \/ l[end].is = "semicolon"
           /\ \A k \in 1 .. end - 1 : k \notin {at, colon} => l[k].is = "space"
    <3>1. Len(l) = n
      BY <1>2
    <3>. HIDE DEF n
    <3>. QED
      BY <1>3, <3>1 DEF HasName
  <2>. DEFINE A == p + at
              K == p + colon
              E == p + end
  <2>2. /\ A \in p + 1 .. last /\ K \in p + 1 .. last /\ E \in p + 1 .. last + 1
        /\ A < K /\ K < E
    <3>1. at \in 1 .. n /\ colon \in 1 .. n /\ end \in 1 .. n + 1 /\ at < colon /\ colon < end
      BY <2>1
    <3>2. p \in Nat /\ last \in Nat /\ n = last - p
      BY <1>2
    <3>. QED
      BY <3>1, <3>2
  <2>3. txt[A] = x /\ txt[K].is = "COLON" /\ (E = last + 1 \/ txt[E].is = "semicolon")
    <3>1. end = n + 1 => E = last + 1
      BY <1>2, <2>1
    <3>2. end # n + 1 => end \in 1 .. n
      BY <1>2, <2>1
    <3>. QED
      BY <1>2, <2>1, <3>1, <3>2
  <2>4. ASSUME NEW k \in p + 1 .. E - 1, k \notin {A, K} PROVE txt[k].is = "space"
    <3>1. k - p \in 1 .. end - 1 /\ k - p \in 1 .. n /\ p + (k - p) = k /\ k - p \notin {at, colon}
      BY <1>2, <2>1, <2>4
    <3>. QED
      BY <1>2, <2>1, <3>1
  <2>5. LabelPlaces(txt, p, last, x, A, K, E)
    <3>. HIDE DEF A, K, E
    <3>. QED
      BY <2>1, <2>2, <2>3, <2>4 DEF LabelPlaces
  <2>. QED
    BY <2>5
<1>4. ASSUME NEW A, NEW K, NEW E, LabelPlaces(txt, p, last, x, A, K, E)
      PROVE  HasName(l, x) /\ x \in {l[k] : k \in 1 .. Len(l)}
  <2>. DEFINE at == A - p
              colon == K - p
              end == E - p
  <2>1. /\ A \in p + 1 .. last /\ K \in p + 1 .. last /\ E \in p + 1 .. last + 1
        /\ A < K /\ K < E
        /\ txt[A] = x /\ x.is = "word"
        /\ txt[K].is = "COLON"
        /\ E = last + 1 \/ txt[E].is = "semicolon"
        /\ \A k \in p + 1 .. E - 1 : k \notin {A, K} => txt[k].is = "space"
    BY <1>4 DEF LabelPlaces
  <2>2. /\ at \in 1 .. n /\ colon \in 1 .. n /\ end \in 1 .. n + 1 /\ at < colon /\ colon < end
        /\ p + at = A /\ p + colon = K /\ p + end = E
    BY <1>2, <2>1
  <2>3. l[at] = x /\ l[colon].is = "COLON" /\ (end = n + 1 \/ l[end].is = "semicolon")
    <3>1. E = last + 1 => end = n + 1
      BY <1>2
    <3>2. E # last + 1 => end \in 1 .. n
      <4>1. p \in Nat /\ last \in Nat /\ E \in p + 1 .. last + 1
        BY <1>2, <2>1
      <4>. QED
        BY <4>1
    <3>3. l[at] = txt[p + at] /\ l[colon] = txt[p + colon]
      BY <1>2, <2>2
    <3>4. E # last + 1 => l[end] = txt[p + end]
      BY <1>2, <3>2
    <3>. HIDE DEF at, colon, end
    <3>. QED
      BY <2>1, <2>2, <3>1, <3>3, <3>4
  <2>4. ASSUME NEW k \in 1 .. end - 1, k \notin {at, colon} PROVE l[k].is = "space"
    <3>1. p + k \in p + 1 .. E - 1 /\ p + k \notin {A, K} /\ k \in 1 .. n
      BY <1>2, <2>1, <2>4
    <3>. QED
      BY <1>2, <2>1, <3>1
  <2>. HIDE DEF at, colon, end
  <2>5. HasName(l, x)
    <3>1. /\ at < colon /\ colon < end
          /\ l[at] = x /\ x.is = "word"
          /\ l[colon].is = "COLON"
          /\ end = n + 1 \/ l[end].is = "semicolon"
          /\ \A k \in 1 .. end - 1 : k \notin {at, colon} => l[k].is = "space"
      BY <2>1, <2>2, <2>3, <2>4
    <3>2. colon \in 1 .. Len(l) /\ at \in 1 .. Len(l) /\ end \in 1 .. Len(l) + 1 /\ Len(l) = n
      BY <1>2, <2>2
    <3>. HIDE DEF n
    <3>. QED
      BY <3>1, <3>2 DEF HasName
  <2>. QED
    BY <1>2, <2>2, <2>3, <2>5
<1>. QED
  BY <1>3, <1>4 DEF NamesIn, l

\* What is left of a line after a comment was cut off.
LEMMA RawInLine ==
    ASSUME NEW txt, IsText(txt), NEW p \in 0 .. Len(txt), NEW R, R = RawEnd(txt, p), NEW e, e = LineEnd(txt, p)
    PROVE  /\ R \in p .. Len(txt) /\ e \in R .. Len(txt)
           /\ At(txt, R) = "semicolon" => R + 1 \in p + 1 .. e /\ txt[R + 1].is = "semicolon"
           /\ At(txt, R) # "semicolon" => \A k \in R + 1 .. e : txt[k].is = "NEWLINE"
<1>. DEFINE n == Len(txt)
            q == EndOfLine(txt, p)
<1>1. n \in Nat
  BY DEF IsText
<1>2. /\ q \in p .. n /\ q \in 0 .. n /\ At(txt, q) \in {"NEWLINE", "end"}
      /\ \A k \in p .. q - 1 : At(txt, k) # "NEWLINE"
      /\ e = IF q = n THEN n ELSE q + 1
  <2>1. e = IF q = n THEN n ELSE q + 1
    BY LineEndFound
  <2>2. /\ q \in p .. n /\ At(txt, q) \in {"NEWLINE", "end"}
        /\ \A k \in p .. q - 1 : At(txt, k) # "NEWLINE"
    BY EndOfLineFound
  <2>. QED
    BY <1>1, <2>1, <2>2
<1>3. /\ R \in p .. n /\ R \in 0 .. n /\ At(txt, R) \in StopsRaw
      /\ \A k \in p .. R - 1 : At(txt, k) \notin {"NEWLINE", "semicolon"}
  BY <1>1, RawEndFound DEF IsRawEnd
<1>. HIDE DEF q
<1>4. ~(q < R)
  <2>. SUFFICES ASSUME q < R PROVE FALSE
    OBVIOUS
  <2>1. q \in p .. R - 1 /\ q # n
    BY <1>1, <1>2, <1>3
  <2>. QED
    BY <1>2, <1>3, <2>1, TextEnd
<1>5. CASE R = q
  <2>1. \A k \in R + 1 .. e : q # n /\ k = q + 1
    BY <1>1, <1>2, <1>5
  <2>2. q # n => txt[q + 1].is = "NEWLINE"
    BY <1>2, TextEnd
  <2>. QED
    BY <1>1, <1>2, <1>5, <2>1, <2>2
<1>6. CASE R # q
  <2>1. R \in p .. q - 1 /\ R # n
    BY <1>1, <1>2, <1>3, <1>4, <1>6
  <2>2. At(txt, R) # "NEWLINE" /\ At(txt, R) # "end" /\ At(txt, R) = txt[R + 1].is
    BY <1>2, <1>3, <2>1, TextEnd
  <2>3. At(txt, R) = "semicolon" /\ txt[R + 1].is = "semicolon"
    BY <1>3, <2>2 DEF StopsRaw
  <2>. QED
    BY <1>1, <1>2, <1>3, <2>1, <2>3
<1>. QED
  BY <1>5, <1>6

\* A line with a label, in the text.
LabelShape(txt, p, a, c) == StepsTo(txt, p, a, "word") /\ StepsTo(txt, a, c, "COLON") /\ Blanks(txt, c)

\* The tool gets its label.
LEMMA LabelShown ==
    ASSUME NEW txt, IsText(txt), NEW p \in 0 .. Len(txt), NEW a, NEW c, LabelShape(txt, p, a, c)
    PROVE  /\ p # Len(txt) /\ TrimmedText(txt, p)[1].is # "semicolon"
           /\ NamesIn(TrimmedText(txt, p)) = {txt[a]}
<1>. DEFINE n == Len(txt)
            R == RawEnd(txt, p)
            e == LineEnd(txt, p)
<1>1. n \in Nat
  BY DEF IsText
<1>2. /\ a \in p + 1 .. n /\ txt[a].is = "word" /\ \A k \in p + 1 .. a - 1 : txt[k].is = "space"
      /\ c \in a + 1 .. n /\ txt[c].is = "COLON" /\ \A k \in a + 1 .. c - 1 : txt[k].is = "space"
  BY DEF LabelShape, StepsTo
<1>3. /\ LineEnd(txt, a) = e /\ RawEnd(txt, a) = R /\ a \in 0 .. n
      /\ LineEnd(txt, c) = e /\ RawEnd(txt, c) = R /\ c \in 0 .. n
  <2>1. LineEnd(txt, a) = e /\ RawEnd(txt, a) = R /\ a \in 0 .. n
    BY SameLine DEF LabelShape
  <2>. QED
    BY <2>1, SameLine DEF LabelShape
<1>4. \A k \in c + 1 .. R : txt[k].is = "space"
  BY <1>3 DEF LabelShape, Blanks
<1>5. p # n
  BY <1>1, <1>2
<1>6. PICK last : IsTrimmed(txt, p, last)
  BY <1>5, TrimmedFound
<1>7. /\ last \in p + 1 .. e /\ (last = p + 1 \/ txt[last].is \notin Whitespace)
      /\ \A k \in last + 1 .. e : txt[k].is \in Whitespace
      /\ \A k \in 1 .. last - p : TrimmedText(txt, p)[k] = txt[p + k]
  BY <1>6 DEF IsTrimmed
<1>8. /\ R \in c .. n /\ e \in R .. n
      /\ At(txt, R) = "semicolon" => R + 1 \in c + 1 .. e /\ txt[R + 1].is = "semicolon"
      /\ At(txt, R) # "semicolon" => \A k \in R + 1 .. e : txt[k].is = "NEWLINE"
  BY <1>3, RawInLine
<1>. HIDE DEF R, e
<1>9. c <= last
  <2>. SUFFICES ASSUME ~(c <= last) PROVE FALSE
    OBVIOUS
  <2>1. c \in last + 1 .. e
    BY <1>1, <1>2, <1>7, <1>8
  <2>. QED
    BY <1>2, <1>7, <2>1 DEF Whitespace
<1>10. \E end \in c + 1 .. last + 1 :
          /\ end = last + 1 \/ txt[end].is = "semicolon"
          /\ \A k \in c + 1 .. end - 1 : txt[k].is = "space"
  <2>1. CASE At(txt, R) = "semicolon"
    <3>1. R + 1 <= last
      <4>. SUFFICES ASSUME ~(R + 1 <= last) PROVE FALSE
        OBVIOUS
      <4>1. R + 1 \in last + 1 .. e
        BY <1>1, <1>2, <1>7, <1>8, <2>1
      <4>. QED
        BY <1>7, <1>8, <2>1, <4>1 DEF Whitespace
    <3>2. R + 1 \in c + 1 .. last + 1 /\ (R + 1) - 1 = R
      BY <1>1, <1>2, <1>7, <1>8, <3>1
    <3>. QED
      BY <1>4, <1>8, <2>1, <3>2
  <2>2. CASE At(txt, R) # "semicolon"
    <3>1. last <= R
      <4>. SUFFICES ASSUME ~(last <= R) PROVE FALSE
        OBVIOUS
      <4>1. last \in R + 1 .. e /\ last # p + 1
        BY <1>1, <1>2, <1>7, <1>8
      <4>. QED
        BY <1>7, <1>8, <2>2, <4>1 DEF Whitespace
    <3>2. last + 1 \in c + 1 .. last + 1 /\ \A k \in c + 1 .. (last + 1) - 1 : k \in c + 1 .. R
      BY <1>1, <1>2, <1>7, <1>8, <1>9, <3>1
    <3>. QED
      BY <1>4, <3>2
  <2>. QED
    BY <2>1, <2>2
<1>11. PICK end \in c + 1 .. last + 1 :
          /\ end = last + 1 \/ txt[end].is = "semicolon"
          /\ \A k \in c + 1 .. end - 1 : txt[k].is = "space"
  BY <1>10
<1>12. LabelPlaces(txt, p, last, txt[a], a, c, end)
  <2>1. a \in p + 1 .. last /\ c \in p + 1 .. last /\ end \in p + 1 .. last + 1 /\ a < c /\ c < end
    BY <1>1, <1>2, <1>7, <1>8, <1>9, <1>11
  <2>2. \A k \in p + 1 .. end - 1 :
           \/ k \in {a, c} \/ k \in p + 1 .. a - 1 \/ k \in a + 1 .. c - 1 \/ k \in c + 1 .. end - 1
    BY <1>1, <1>2, <1>11
  <2>3. \A k \in p + 1 .. end - 1 : k \notin {a, c} => txt[k].is = "space"
    BY <1>2, <1>11, <2>2
  <2>. QED
    BY <1>2, <1>11, <2>1, <2>3 DEF LabelPlaces, Wordy
<1>13. ASSUME NEW x, NEW A, NEW K, NEW E, LabelPlaces(txt, p, last, x, A, K, E) PROVE x = txt[a]
  <2>1. /\ A \in p + 1 .. last /\ K \in p + 1 .. last /\ E \in p + 1 .. last + 1 /\ A < K /\ K < E
        /\ txt[A] = x /\ x.is = "word" /\ txt[K].is = "COLON"
        /\ \A k \in p + 1 .. E - 1 : k \notin {A, K} => txt[k].is = "space"
    BY <1>13 DEF LabelPlaces
  <2>. SUFFICES ASSUME A # a PROVE FALSE
    BY <2>1
  <2>2. a < E => a \in p + 1 .. E - 1 /\ a # K
    BY <1>1, <1>2, <2>1
  <2>3. ~(a < E)
    BY <1>2, <2>1, <2>2
  <2>4. A \in p + 1 .. a - 1
    BY <1>1, <1>2, <1>7, <1>8, <2>1, <2>3
  <2>. QED
    BY <1>2, <2>1, <2>4
<1>14. \A x : x \in NamesIn(TrimmedText(txt, p)) <=> x = txt[a]
  <2>1. \A x : x \in NamesIn(TrimmedText(txt, p)) <=>
                  \E at, colon, ends : LabelPlaces(txt, p, last, x, at, colon, ends)
    BY <1>5, <1>6, LabelPlaced
  <2>. QED
    BY <1>12, <1>13, <2>1
<1>15. TrimmedText(txt, p)[1].is # "semicolon"
  <2>1. 1 \in 1 .. last - p /\ (p + 1 = a \/ p + 1 \in p + 1 .. a - 1)
    BY <1>1, <1>2, <1>7, <1>8
  <2>. QED
    BY <1>2, <1>7, <2>1
<1>. QED
  BY <1>5, <1>14, <1>15

\* A line that has a label for the tool starts with its name and, if the name
\* is an identifier, passes the parser's test.
LEMMA LabelTested ==
    ASSUME NEW txt, IsText(txt), NoReturns(txt), NEW p \in 0 .. Len(txt), p # Len(txt),
           NamesIn(TrimmedText(txt, p)) # {}, NextToken(txt, p).token.type = "IDENTIFIER"
    PROVE  EndsWithColon(txt, NextToken(txt, p).position)
<1>. DEFINE n == Len(txt)
            q == NextToken(txt, p).position
            R == RawEnd(txt, q)
            e == LineEnd(txt, p)
<1>1. n \in Nat
  BY DEF IsText
<1>2. PICK last : IsTrimmed(txt, p, last)
  BY TrimmedFound
<1>3. /\ last \in p + 1 .. e /\ \A k \in last + 1 .. e : txt[k].is \in Whitespace
      /\ e \in p .. n
  BY <1>2, LineEndFound DEF IsTrimmed
<1>4. PICK x, A, K, E : LabelPlaces(txt, p, last, x, A, K, E)
  <2>1. PICK x : x \in NamesIn(TrimmedText(txt, p))
    OBVIOUS
  <2>. QED
    BY <1>2, <2>1, LabelPlaced
<1>5. /\ A \in p + 1 .. last /\ K \in p + 1 .. last /\ E \in p + 1 .. last + 1 /\ A < K /\ K < E
      /\ txt[A].is = "word" /\ txt[K].is = "COLON"
      /\ E = last + 1 \/ txt[E].is = "semicolon"
      /\ \A k \in p + 1 .. E - 1 : k \notin {A, K} => txt[k].is = "space"
  BY <1>4 DEF LabelPlaces
<1>6. StepsTo(txt, p, q, "word")
  BY BlankStep
<1>7. q \in p + 1 .. n /\ txt[q].is = "word" /\ \A k \in p + 1 .. q - 1 : txt[k].is = "space"
  BY <1>6 DEF StepsTo
<1>8. /\ q \in 0 .. n /\ LineEnd(txt, q) = e
  BY <1>6, SameLine
<1>9. /\ IsRawEnd(txt, q, R) /\ R \in q .. n /\ e \in R .. n
  BY <1>8, RawEndFound, RawInLine
<1>. HIDE DEF q, R, e
<1>10. q = A
  <2>1. q \in p + 1 .. E - 1 => q \in {A, K}
    BY <1>5, <1>7
  <2>2. A \notin p + 1 .. q - 1
    BY <1>5, <1>7
  <2>3. q # K
    BY <1>5, <1>7
  <2>. QED
    BY <1>1, <1>3, <1>5, <1>7, <2>1, <2>2, <2>3
<1>11. \A k \in q .. R - 1 : k < n /\ At(txt, k) = txt[k + 1].is /\ At(txt, k) \notin {"NEWLINE", "semicolon"}
  <2>. SUFFICES ASSUME NEW k \in q .. R - 1
                PROVE  k < n /\ At(txt, k) = txt[k + 1].is /\ At(txt, k) \notin {"NEWLINE", "semicolon"}
    OBVIOUS
  <2>1. k < n
    BY <1>1, <1>8, <1>9
  <2>. QED
    BY <1>9, <2>1 DEF IsRawEnd, At
<1>12. K <= R
  <2>. SUFFICES ASSUME ~(K <= R) PROVE FALSE
    OBVIOUS
  <2>1. R + 1 \in q + 1 .. K /\ R + 1 \in p + 1 .. E - 1 /\ R < n /\ R + 1 # A
    BY <1>1, <1>3, <1>5, <1>9, <1>10
  <2>2. At(txt, R) = txt[R + 1].is
    BY <2>1 DEF At
  <2>3. txt[R + 1].is \in {"COLON", "space"}
    BY <1>5, <2>1
  <2>. QED
    BY <1>9, <2>2, <2>3 DEF IsRawEnd, StopsRaw
<1>13. ASSUME NEW j \in K + 1 .. R PROVE txt[j].is = "space"
  <2>1. j \in Int /\ j - 1 \in q .. R - 1 /\ (j - 1) + 1 = j
    BY <1>1, <1>3, <1>5, <1>9, <1>10
  <2>2. txt[j].is \notin {"NEWLINE", "semicolon"}
    BY <1>11, <2>1
  <2>3. CASE j < E
    <3>1. j \in p + 1 .. E - 1 /\ j \notin {A, K}
      BY <1>1, <1>3, <1>5, <1>9, <2>1, <2>3
    <3>. QED
      BY <1>5, <3>1
  <2>4. CASE E <= j /\ E = last + 1
    <3>1. j \in last + 1 .. e /\ j \in 1 .. n
      BY <1>1, <1>3, <1>5, <1>9, <2>1, <2>4
    <3>. QED
      BY <1>3, <2>2, <3>1 DEF Whitespace, NoReturns
  <2>5. CASE E <= j /\ E # last + 1
    <3>1. E - 1 \in q .. R - 1 /\ (E - 1) + 1 = E
      BY <1>1, <1>3, <1>5, <1>9, <1>10, <2>1, <2>5
    <3>. QED
      BY <1>5, <1>11, <2>5, <3>1
  <2>. QED
    BY <1>3, <1>5, <2>1, <2>3, <2>4, <2>5
<1>14. K \in q + 1 .. R
  BY <1>1, <1>3, <1>5, <1>9, <1>10, <1>12
<1>. QED
  BY <1>5, <1>13, <1>14 DEF EndsWithColon, q, R

LEMMA FirstTrimmed ==
    ASSUME NEW txt, IsText(txt), NEW p \in 0 .. Len(txt), p # Len(txt)
    PROVE  TrimmedText(txt, p)[1] = txt[p + 1]
<1>1. Len(txt) \in Nat /\ LineEnd(txt, p) \in p .. Len(txt)
  BY LineEndFound DEF IsText
<1>2. PICK last : IsTrimmed(txt, p, last)
  BY TrimmedFound
<1>3. 1 \in 1 .. last - p
  BY <1>1, <1>2 DEF IsTrimmed
<1>. QED
  BY <1>2, <1>3 DEF IsTrimmed

----------------------------------------------------------------------------
(* A line of the text, as the bytes that the tool reads of it. *)

LEMMA LinePiece ==
    ASSUME NEW txt, IsWritten(txt), NEW O, NEW f, IsSpelling(txt, O, f), NEW p \in Starts(txt),
           NEW q, q = PieceEnd(f, O[p]), q = Len(f) \/ f[q].is = "NEWLINE"
    PROVE  q = O[LineEnd(txt, p)]
<1>. DEFINE n == Len(txt)
            e == LineEnd(txt, p)
<1>1. /\ n \in Nat /\ Len(f) \in Nat
      /\ \A a, b \in 0 .. n : a < b => O[a] < O[b]
      /\ \A k \in 1 .. n : ~Wordy(txt[k]) => O[k] = O[k - 1] + 1
      /\ \A j \in 1 .. Len(f) : \E k \in 1 .. n : j \in O[k - 1] + 1 .. O[k]
  BY SpellingFacts
<1>2. /\ O \in [0 .. n -> Nat] /\ O[n] = Len(f)
      /\ \A k \in 1 .. n : \A j \in O[k - 1] + 1 .. O[k] : f[j].is = ByteKind(txt[k])
  BY DEF IsSpelling
<1>3. p \in 0 .. n /\ p # n
  BY <1>1 DEF Starts
<1>4. /\ e \in p + 1 .. n /\ e \in 1 .. n /\ e \in 0 .. n /\ e - 1 \in 0 .. n
      /\ e # n => txt[e].is = "NEWLINE"
      /\ \A k \in p + 1 .. e - 1 : k # n /\ txt[k].is # "NEWLINE"
  <2>1. /\ e \in p .. n /\ e > p /\ e \in Starts(txt) \union {n}
        /\ \A k \in p + 1 .. e - 1 : k \notin Starts(txt)
    BY <1>3, LineEndFound DEF IsWritten
  <2>2. \A k \in p + 1 .. e - 1 : k \in 0 .. n - 1
    BY <1>1, <1>3, <2>1
  <2>. HIDE DEF e
  <2>. QED
    BY <1>1, <1>3, <2>1, <2>2 DEF Starts
<1>. HIDE DEF e, n
<1>5. O[p] \in 0 .. Len(f) /\ O[p] # Len(f) /\ O[e] \in O[p] + 1 .. Len(f) /\ O[e - 1] \in Nat
  <2>1. O[p] \in Nat /\ O[e] \in Nat /\ O[n] \in Nat /\ O[e - 1] \in Nat /\ n \in 0 .. n
    BY <1>1, <1>2, <1>3, <1>4
  <2>2. p < e /\ (e = n \/ e < n)
    BY <1>1, <1>3, <1>4
  <2>3. O[p] < O[e] /\ (e = n \/ O[e] < O[n])
    BY <1>1, <1>3, <1>4, <2>1, <2>2
  <2>4. O[e] <= O[n]
    BY <2>1, <2>3
  <2>. QED
    BY <1>2, <2>1, <2>3, <2>4
<1>6. /\ q \in O[p] + 1 .. Len(f)
      /\ \A k \in O[p] + 1 .. q - 1 : f[k].is # "NEWLINE"
  BY <1>1, <1>5, PieceEndFound
<1>7. ASSUME txt[e].is = "NEWLINE" PROVE O[e] = O[e - 1] + 1 /\ f[O[e]].is = "NEWLINE"
  <2>1. O[e] = O[e - 1] + 1
    BY <1>1, <1>4, <1>7 DEF Wordy
  <2>2. O[e] \in O[e - 1] + 1 .. O[e]
    BY <1>5, <2>1
  <2>3. f[O[e]].is = ByteKind(txt[e])
    BY <1>2, <1>4, <2>2
  <2>. QED
    BY <1>7, <2>1, <2>3 DEF ByteKind, Wordy
<1>8. ASSUME NEW j \in O[p] + 1 .. O[e] - 1 PROVE f[j].is # "NEWLINE" /\ j # Len(f)
  <2>1. j \in 1 .. Len(f) /\ j # Len(f) /\ j \in Nat
    BY <1>1, <1>5
  <2>2. PICK k \in 1 .. n : j \in O[k - 1] + 1 .. O[k]
    BY <1>1, <2>1
  <2>3. /\ k \in 0 .. n /\ k - 1 \in 0 .. n
        /\ O[k] \in Nat /\ O[k - 1] \in Nat /\ O[p] \in Nat /\ O[e] \in Nat
    BY <1>1, <1>2, <1>3, <1>4
  <2>4. p < k
    <3>. SUFFICES ASSUME ~(p < k) PROVE FALSE
      OBVIOUS
    <3>1. k = p \/ O[k] < O[p]
      BY <1>1, <1>3, <2>3
    <3>. QED
      BY <2>2, <2>3, <3>1
  <2>5. k <= e
    <3>. SUFFICES ASSUME ~(k <= e) PROVE FALSE
      OBVIOUS
    <3>1. k - 1 = e \/ O[e] < O[k - 1]
      BY <1>1, <1>4, <2>3
    <3>. QED
      BY <2>2, <2>3, <3>1
  <2>6. f[j].is = ByteKind(txt[k])
    BY <1>2, <2>2
  <2>7. CASE k = e
    <3>1. txt[e].is # "NEWLINE"
      BY <1>7, <2>2, <2>3, <2>7
    <3>. QED
      BY <2>1, <2>6, <2>7, <3>1 DEF ByteKind
  <2>8. CASE k # e
    <3>1. k \in p + 1 .. e - 1
      BY <1>1, <1>3, <1>4, <2>4, <2>5, <2>8
    <3>. QED
      BY <1>4, <2>1, <2>6, <3>1 DEF ByteKind
  <2>. QED
    BY <2>7, <2>8
<1>9. ~(q < O[e])
  BY <1>5, <1>6, <1>8
<1>10. ~(O[e] < q)
  <2>. SUFFICES ASSUME O[e] < q PROVE FALSE
    OBVIOUS
  <2>1. O[e] \in O[p] + 1 .. q - 1 /\ O[e] # Len(f)
    BY <1>5, <1>6
  <2>2. e # n
    BY <1>2, <2>1
  <2>. QED
    BY <1>4, <1>6, <1>7, <2>1, <2>2
<1>. QED
  BY <1>5, <1>6, <1>9, <1>10 DEF e

\* The bytes l of the characters after p, up to last: those up to R[k] are of
\* the characters up to k.
IsLineSpelling(txt, p, last, R, l) ==
    /\ R \in [p .. last -> Nat] /\ R[p] = 0 /\ Len(l) = R[last] /\ DOMAIN l = 1 .. R[last]
    /\ \A a, b \in p .. last : a < b => R[a] < R[b]
    /\ \A k \in p + 1 .. last :
          /\ R[k] = R[k - 1] + Len(Written(txt[k]))
          /\ ~Wordy(txt[k]) => R[k] = R[k - 1] + 1
          /\ \A j \in R[k - 1] + 1 .. R[k] :
                l[j].is = ByteKind(txt[k]) /\ l[j].byte = Written(txt[k])[j - R[k - 1]]
    /\ \A j \in 1 .. R[last] : \E k \in p + 1 .. last : j \in R[k - 1] + 1 .. R[k]

LEMMA LineTrimmed ==
    ASSUME NEW txt, IsWritten(txt), NEW O, NEW f, IsSpelling(txt, O, f), NEW p \in 0 .. Len(txt), p # Len(txt),
           PieceEnd(f, O[p]) = O[LineEnd(txt, p)], NEW last, IsTrimmed(txt, p, last)
    PROVE  \E R : IsLineSpelling(txt, p, last, R, Trimmed(Piece(f, O[p])))
<1>. DEFINE n == Len(txt)
            e == LineEnd(txt, p)
            q == O[e]
            s == Piece(f, O[p])
            l == Trimmed(s)
            y == O[last] - O[p]
            R == [k \in p .. last |-> O[k] - O[p]]
            Good(x) == (x = 1 \/ s[x].is \notin Whitespace) /\ \A k \in x + 1 .. Len(s) : s[k].is \in Whitespace
<1>1. /\ n \in Nat /\ Len(f) \in Nat
      /\ \A a, b \in 0 .. n : a < b => O[a] < O[b]
      /\ \A k \in 1 .. n : ~Wordy(txt[k]) => O[k] = O[k - 1] + 1
      /\ \A j \in 1 .. Len(f) : \E k \in 1 .. n : j \in O[k - 1] + 1 .. O[k]
  BY SpellingFacts
<1>2. /\ O \in [0 .. n -> Nat] /\ O[n] = Len(f)
      /\ \A k \in 1 .. n :
            /\ O[k] = O[k - 1] + Len(Written(txt[k]))
            /\ \A j \in O[k - 1] + 1 .. O[k] :
                  f[j].is = ByteKind(txt[k]) /\ f[j].byte = Written(txt[k])[j - O[k - 1]]
  BY DEF IsSpelling
<1>3. /\ e \in 0 .. n /\ last \in p + 1 .. e /\ last \in 1 .. n /\ last \in 0 .. n /\ p \in 0 .. n /\ n \in 0 .. n
      /\ last = p + 1 \/ txt[last].is \notin Whitespace
      /\ \A k \in last + 1 .. e : txt[k].is \in Whitespace
  <2>1. e \in p .. n
    BY LineEndFound DEF IsWritten
  <2>2. /\ last \in p + 1 .. e /\ (last = p + 1 \/ txt[last].is \notin Whitespace)
        /\ \A k \in last + 1 .. e : txt[k].is \in Whitespace
    BY DEF IsTrimmed
  <2>. HIDE DEF e
  <2>. QED
    BY <1>1, <2>1, <2>2
<1>. HIDE DEF e, n
<1>4. O[p] \in Nat /\ O[last] \in Nat /\ q \in Nat /\ O[p] < O[last] /\ O[last] <= q /\ q <= Len(f)
  <2>1. O[p] \in Nat /\ O[last] \in Nat /\ q \in Nat /\ O[n] \in Nat
    BY <1>2, <1>3
  <2>2. O[p] < O[last] /\ (last = e \/ O[last] < O[e]) /\ (e = n \/ O[e] < O[n])
    BY <1>1, <1>3
  <2>. QED
    BY <1>2, <2>1, <2>2
<1>5. \* The character of a byte of the line.
      ASSUME NEW m \in {last, e}, NEW lo \in {p, last}, lo < m, NEW j \in O[lo] + 1 .. O[m]
      PROVE  \E k \in lo + 1 .. m : j \in O[k - 1] + 1 .. O[k]
  <2>1. m \in 0 .. n /\ lo \in 0 .. n /\ O[m] <= Len(f) /\ O[m] \in Nat /\ O[lo] \in Nat
    BY <1>3, <1>4
  <2>2. j \in 1 .. Len(f)
    BY <1>1, <2>1
  <2>3. PICK k \in 1 .. n : j \in O[k - 1] + 1 .. O[k]
    BY <1>1, <2>2
  <2>4. k \in 0 .. n /\ k - 1 \in 0 .. n /\ O[k] \in Nat /\ O[k - 1] \in Nat
    BY <1>1, <1>2
  <2>5. lo < k
    <3>. SUFFICES ASSUME ~(lo < k) PROVE FALSE
      OBVIOUS
    <3>1. k = lo \/ O[k] < O[lo]
      BY <1>1, <2>1, <2>4
    <3>. QED
      BY <2>1, <2>3, <2>4, <3>1
  <2>6. k <= m
    <3>. SUFFICES ASSUME ~(k <= m) PROVE FALSE
      OBVIOUS
    <3>1. k - 1 = m \/ O[m] < O[k - 1]
      BY <1>1, <2>1, <2>4
    <3>2. j <= O[m] /\ O[k - 1] < j /\ j \in Int
      BY <2>1, <2>3, <2>4
    <3>3. k - 1 # m
      BY <2>1, <2>4, <3>2
    <3>4. O[m] < O[k - 1]
      BY <3>1, <3>3
    <3>. QED
      BY <2>1, <2>4, <3>2, <3>4
  <2>. QED
    BY <1>1, <2>1, <2>3, <2>5, <2>6
<1>6. Len(s) = q - O[p] /\ DOMAIN s = 1 .. q - O[p] /\ \A k \in 1 .. q - O[p] : s[k] = f[O[p] + k]
  <2>1. O[p] < q /\ O[p] \in Nat /\ q \in Nat
    BY <1>4
  <2>2. s = SubSeq(f, O[p] + 1, q)
    BY DEF Piece, e
  <2>. HIDE DEF s, q
  <2>. QED
    BY <2>1, <2>2, PartOf
<1>. HIDE DEF s, q
<1>7. y \in 1 .. Len(s) /\ Good(y)
  <2>1. y \in 1 .. Len(s) /\ y \in 1 .. q - O[p] /\ O[p] + y = O[last]
    BY <1>4, <1>6
  <2>2. s[y].is = ByteKind(txt[last])
    <3>1. O[last] \in O[last - 1] + 1 .. O[last]
      <4>1. last - 1 \in 0 .. n /\ last - 1 < last
        BY <1>1, <1>3
      <4>2. O[last - 1] \in Nat /\ O[last - 1] < O[last]
        BY <1>1, <1>2, <1>3, <4>1
      <4>. QED
        BY <1>4, <4>2
    <3>2. f[O[last]].is = ByteKind(txt[last])
      BY <1>2, <1>3, <3>1
    <3>. HIDE DEF y
    <3>. QED
      BY <1>6, <2>1, <3>2
  <2>3. y = 1 \/ s[y].is \notin Whitespace
    <3>1. CASE txt[last].is \in Whitespace
      <4>1. last = p + 1 /\ ~Wordy(txt[last])
        BY <1>3, <3>1 DEF Whitespace, Wordy
      <4>2. O[last] = O[p] + 1
        <5>1. O[last] = O[last - 1] + 1 /\ last - 1 = p
          BY <1>1, <1>3, <4>1
        <5>. QED
          BY <5>1
      <4>. QED
        BY <1>4, <4>2
    <3>2. CASE txt[last].is \notin Whitespace
      BY <2>2, <3>2 DEF Whitespace, ByteKind
    <3>. QED
      BY <3>1, <3>2
  <2>4. ASSUME NEW k \in y + 1 .. Len(s) PROVE s[k].is \in Whitespace
    <3>1. O[p] + k \in O[last] + 1 .. O[e] /\ k \in 1 .. q - O[p]
      <4>1. /\ y \in Int /\ O[p] + y = O[last] /\ Len(s) = q - O[p] /\ q = O[e]
            /\ O[p] \in Nat /\ O[last] \in Nat /\ q \in Nat /\ y >= 1
        BY <1>4, <1>6, <2>1 DEF q
      <4>. HIDE DEF y
      <4>. QED
        BY <4>1
    <3>2. last < e
      <4>1. O[last] < O[e]
        BY <1>4, <3>1 DEF q
      <4>2. last # e
        BY <1>4, <4>1 DEF q
      <4>. QED
        BY <1>1, <1>3, <4>2
    <3>3. PICK c \in last + 1 .. e : O[p] + k \in O[c - 1] + 1 .. O[c]
      BY <1>5, <3>1, <3>2
    <3>4. txt[c].is \in Whitespace /\ c \in 1 .. n
      BY <1>1, <1>3
    <3>5. f[O[p] + k].is = ByteKind(txt[c])
      BY <1>2, <3>3, <3>4
    <3>. QED
      BY <1>6, <3>1, <3>4, <3>5 DEF ByteKind, Wordy, Whitespace
  <2>. HIDE DEF y
  <2>. QED
    BY <2>1, <2>3, <2>4
<1>8. ASSUME NEW x \in DOMAIN s, Good(x) PROVE x = y
  <2>1. x \in 1 .. Len(s) /\ y \in 1 .. Len(s) /\ Len(s) \in Nat
    BY <1>4, <1>6, <1>7
  <2>. HIDE DEF y
  <2>2. x < y => y \in x + 1 .. Len(s) /\ y # 1
    BY <2>1
  <2>3. y < x => x \in y + 1 .. Len(s) /\ x # 1
    BY <2>1
  <2>. QED
    BY <1>7, <1>8, <2>1, <2>2, <2>3
<1>9. l = SubSeq(s, 0 + 1, y)
  <2>. DEFINE z == CHOOSE x \in DOMAIN s : Good(x)
  <2>1. DOMAIN s = 1 .. Len(s)
    BY <1>6
  <2>2. z \in DOMAIN s /\ Good(z)
    BY <1>7, <2>1
  <2>3. l = SubSeq(s, 1, z)
    BY DEF Trimmed
  <2>. HIDE DEF z, l, y
  <2>. QED
    BY <1>8, <2>2, <2>3
<1>10. Len(l) = y /\ DOMAIN l = 1 .. y /\ y \in Nat /\ \A j \in 1 .. y : l[j] = f[O[p] + j]
  <2>1. y \in Nat /\ 0 < y /\ y - 0 = y /\ \A j \in 1 .. y : 0 + j = j /\ j \in 1 .. q - O[p]
    BY <1>4, <1>6, <1>7
  <2>. HIDE DEF y, l
  <2>2. Len(l) = y - 0 /\ DOMAIN l = 1 .. y - 0 /\ \A j \in 1 .. y - 0 : l[j] = s[0 + j]
    BY <1>9, <2>1, PartOf
  <2>. QED
    BY <1>6, <2>1, <2>2
<1>. HIDE DEF l
<1>11. ASSUME NEW k \in p .. last PROVE k \in 0 .. n /\ O[k] \in Nat /\ O[k] - O[p] \in Nat /\ R[k] = O[k] - O[p]
  <2>1. k \in 0 .. n
    BY <1>1, <1>3
  <2>2. O[k] \in Nat /\ (k = p \/ p < k)
    <3>1. O[k] \in Nat
      BY <1>2, <2>1
    <3>2. p \in Nat /\ last \in Nat
      BY <1>1, <1>3
    <3>3. k = p \/ p < k
      BY <3>2
    <3>. QED
      BY <3>1, <3>3
  <2>3. k = p \/ O[p] < O[k]
    BY <1>1, <1>3, <2>1, <2>2
  <2>4. O[k] - O[p] \in Nat
    BY <1>4, <2>2, <2>3
  <2>. QED
    BY <2>1, <2>2, <2>4
<1>12. p \in p .. last /\ last \in p .. last /\ p \in Nat /\ last \in Nat
  BY <1>1, <1>3
<1>13. R \in [p .. last -> Nat] /\ R[p] = 0 /\ R[last] = y
  <2>1. \A k \in p .. last : O[k] - O[p] \in Nat
    BY <1>11
  <2>. QED
    BY <1>4, <1>12, <2>1
<1>. HIDE DEF R
<1>14. ASSUME NEW a \in p .. last, NEW b \in p .. last, a < b PROVE R[a] < R[b]
  <2>1. O[a] < O[b]
    BY <1>1, <1>11, <1>14
  <2>. QED
    BY <1>4, <1>11, <2>1
<1>15. ASSUME NEW k \in p + 1 .. last
       PROVE  /\ R[k] = R[k - 1] + Len(Written(txt[k]))
              /\ ~Wordy(txt[k]) => R[k] = R[k - 1] + 1
              /\ \A j \in R[k - 1] + 1 .. R[k] :
                    l[j].is = ByteKind(txt[k]) /\ l[j].byte = Written(txt[k])[j - R[k - 1]]
              /\ R[k] = O[k] - O[p] /\ R[k - 1] = O[k - 1] - O[p] /\ O[k] \in Nat /\ O[k - 1] \in Nat
  <2>1. k \in p .. last /\ k - 1 \in p .. last /\ k \in 1 .. n
    BY <1>1, <1>3
  <2>2. R[k] = O[k] - O[p] /\ R[k - 1] = O[k - 1] - O[p] /\ O[k] \in Nat /\ O[k - 1] \in Nat
    BY <1>11, <2>1
  <2>3. O[k] = O[k - 1] + Len(Written(txt[k])) /\ (~Wordy(txt[k]) => O[k] = O[k - 1] + 1)
    BY <1>1, <1>2, <2>1
  <2>4. R[k] <= y /\ R[k] \in Nat /\ R[k - 1] \in Nat
    <3>1. k = last \/ R[k] < R[last]
      BY <1>1, <1>3, <1>12, <1>14, <2>1
    <3>2. R[k] \in Nat /\ R[k - 1] \in Nat
      BY <1>13, <2>1
    <3>. QED
      BY <1>10, <1>13, <3>1, <3>2
  <2>. HIDE DEF y
  <2>5. ASSUME NEW j \in R[k - 1] + 1 .. R[k]
        PROVE  l[j].is = ByteKind(txt[k]) /\ l[j].byte = Written(txt[k])[j - R[k - 1]]
    <3>1. j \in 1 .. y /\ O[p] + j \in O[k - 1] + 1 .. O[k] /\ (O[p] + j) - O[k - 1] = j - R[k - 1]
      <4>. DEFINE u == R[k - 1]
                  v == R[k]
      <4>1. O[p] \in Nat /\ y \in Nat
        BY <1>4, <1>10
      <4>2. u \in Nat /\ v \in Nat /\ v <= y /\ j \in u + 1 .. v
        BY <2>4
      <4>3. v = O[k] - O[p] /\ u = O[k - 1] - O[p] /\ O[k] \in Nat /\ O[k - 1] \in Nat
        BY <2>2
      <4>. HIDE DEF u, v
      <4>4. j \in 1 .. y
        BY <4>1, <4>2
      <4>5. ASSUME NEW a \in Nat, NEW b \in Nat, NEW c \in Nat, v = b - c, u = a - c
            PROVE  c + j \in a + 1 .. b /\ (c + j) - a = j - u
        BY <4>2, <4>5
      <4>6. O[p] + j \in O[k - 1] + 1 .. O[k] /\ (O[p] + j) - O[k - 1] = j - u
        BY <4>1, <4>3, <4>5
      <4>. QED
        BY <4>4, <4>6 DEF u
    <3>2. f[O[p] + j].is = ByteKind(txt[k]) /\ f[O[p] + j].byte = Written(txt[k])[(O[p] + j) - O[k - 1]]
      BY <1>2, <2>1, <3>1
    <3>. QED
      BY <1>10, <3>1, <3>2
  <2>6. Len(Written(txt[k])) \in Int
    <3>1. Written(txt[k]) \in Seq(Byte)
      BY <2>1 DEF IsWritten, n
    <3>. QED
      BY <3>1
  <2>7. R[k] = R[k - 1] + Len(Written(txt[k])) /\ (~Wordy(txt[k]) => R[k] = R[k - 1] + 1)
    BY <1>4, <2>2, <2>3, <2>6
  <2>. QED
    BY <2>2, <2>5, <2>7
<1>16. ASSUME NEW j \in 1 .. R[last] PROVE \E k \in p + 1 .. last : j \in R[k - 1] + 1 .. R[k]
  <2>1. O[p] + j \in O[p] + 1 .. O[last] /\ p < last
    BY <1>1, <1>3, <1>4, <1>13
  <2>2. PICK k \in p + 1 .. last : O[p] + j \in O[k - 1] + 1 .. O[k]
    BY <1>5, <2>1
  <2>3. R[k] = O[k] - O[p] /\ R[k - 1] = O[k - 1] - O[p] /\ O[k] \in Nat /\ O[k - 1] \in Nat
    BY <1>15
  <2>4. j \in Int /\ O[p] \in Nat
    BY <1>4
  <2>. HIDE DEF y
  <2>5. j \in R[k - 1] + 1 .. R[k]
    BY <2>2, <2>3, <2>4
  <2>. QED
    BY <2>5
<1>. HIDE DEF y
<1>17. IsLineSpelling(txt, p, last, R, l)
  BY <1>10, <1>13, <1>14, <1>15, <1>16 DEF IsLineSpelling
<1>. QED
  BY <1>17 DEF l, s
BytesInOrder(txt, p, last, R, l) ==
    /\ \A a \in p .. last : R[a] \in Nat /\ R[a] <= R[last]
    /\ \A a, b \in p .. last : a <= b => R[a] <= R[b]
    /\ \A lo, hi \in p .. last : \A j \in R[lo] + 1 .. R[hi] :
          \E k \in lo + 1 .. hi : j \in R[k - 1] + 1 .. R[k] /\ l[j].is = ByteKind(txt[k])
    /\ \A k \in p + 1 .. last : R[k - 1] < R[k] /\ l[R[k - 1] + 1].is = ByteKind(txt[k])
    /\ l[1].is = ByteKind(txt[p + 1])

\* Where the bytes of the characters from one to another are.
LEMMA LineBytes ==
    ASSUME NEW txt, NEW p \in Nat, NEW last \in Nat, p < last, NEW R, NEW l, IsLineSpelling(txt, p, last, R, l)
    PROVE  BytesInOrder(txt, p, last, R, l)
<1>1. /\ R \in [p .. last -> Nat]
      /\ \A a, b \in p .. last : a < b => R[a] < R[b]
      /\ \A k \in p + 1 .. last : \A j \in R[k - 1] + 1 .. R[k] : l[j].is = ByteKind(txt[k])
      /\ \A j \in 1 .. R[last] : \E k \in p + 1 .. last : j \in R[k - 1] + 1 .. R[k]
  BY DEF IsLineSpelling
<1>2. ASSUME NEW a \in p .. last, NEW b \in p .. last, a <= b PROVE R[a] <= R[b] /\ R[a] \in Nat /\ R[b] \in Nat
  <2>1. R[a] \in Nat /\ R[b] \in Nat /\ (a = b \/ a < b)
    BY <1>1, <1>2
  <2>. QED
    BY <1>1, <2>1
<1>3. ASSUME NEW a \in p .. last PROVE R[a] \in Nat /\ R[a] <= R[last]
  BY <1>2
<1>4. ASSUME NEW lo \in p .. last, NEW hi \in p .. last, NEW j \in R[lo] + 1 .. R[hi]
      PROVE  \E k \in lo + 1 .. hi : j \in R[k - 1] + 1 .. R[k] /\ l[j].is = ByteKind(txt[k])
  <2>1. R[lo] \in Nat /\ R[hi] \in Nat /\ R[last] \in Nat /\ R[hi] <= R[last]
    BY <1>3
  <2>2. j \in 1 .. R[last]
    BY <2>1
  <2>3. PICK k \in p + 1 .. last : j \in R[k - 1] + 1 .. R[k]
    BY <1>1, <2>2
  <2>4. k \in p .. last /\ k - 1 \in p .. last /\ k \in Int /\ lo \in Int /\ hi \in Int
    OBVIOUS
  <2>5. R[k] \in Nat /\ R[k - 1] \in Nat
    BY <1>3, <2>4
  <2>6. lo < k
    <3>. SUFFICES ASSUME ~(lo < k) PROVE FALSE
      OBVIOUS
    <3>1. R[k] <= R[lo]
      BY <1>2, <2>4
    <3>. QED
      BY <2>1, <2>3, <2>5, <3>1
  <2>7. k <= hi
    <3>. SUFFICES ASSUME ~(k <= hi) PROVE FALSE
      OBVIOUS
    <3>1. R[hi] <= R[k - 1]
      BY <1>2, <2>4
    <3>. QED
      BY <2>1, <2>3, <2>5, <3>1
  <2>8. k \in lo + 1 .. hi
    BY <2>4, <2>6, <2>7
  <2>. QED
    BY <1>1, <2>3, <2>8
<1>5. ASSUME NEW k \in p + 1 .. last PROVE R[k - 1] < R[k] /\ l[R[k - 1] + 1].is = ByteKind(txt[k])
  <2>1. k \in p .. last /\ k - 1 \in p .. last /\ k - 1 < k
    OBVIOUS
  <2>2. R[k - 1] < R[k] /\ R[k - 1] \in Nat /\ R[k] \in Nat
    BY <1>1, <1>3, <2>1
  <2>3. R[k - 1] + 1 \in R[k - 1] + 1 .. R[k]
    BY <2>2
  <2>. QED
    BY <1>1, <2>2, <2>3
<1>6. l[1].is = ByteKind(txt[p + 1])
  <2>1. p + 1 \in p + 1 .. last /\ (p + 1) - 1 = p
    OBVIOUS
  <2>2. R[(p + 1) - 1] = 0
    BY <2>1 DEF IsLineSpelling
  <2>3. l[R[(p + 1) - 1] + 1].is = ByteKind(txt[p + 1])
    BY <1>5, <2>1
  <2>. QED
    BY <2>2, <2>3
<1>. QED
  BY <1>2, <1>3, <1>4, <1>5, <1>6 DEF BytesInOrder

\* The label of the bytes is the first word of the characters.
LEMMA LabelOfBytes ==
    ASSUME NEW txt, IsWritten(txt), NEW p \in Nat, NEW last \in Nat, p < last, last <= Len(txt),
           NEW R, NEW l, IsLineSpelling(txt, p, last, R, l),
           NEW a, StepsTo(txt, p, a, "word"), NEW x \in Labels(l)
    PROVE  /\ LabelName(l, x) = Written(txt[a])
           /\ \E K, E : LabelPlaces(txt, p, last, txt[a], a, K, E)
<1>. DEFINE n == Len(txt)
            w == Written(txt[a])
            at == x.at
            end == x.last
            colon == x.colon
<1>1. n \in Nat /\ last \in Nat /\ p \in Nat /\ p < last /\ last <= n
  BY DEF IsWritten, IsText
<1>2. /\ \A k \in p .. last : R[k] \in Nat /\ R[k] <= R[last]
      /\ \A b, c \in p .. last : b <= c => R[b] <= R[c]
      /\ \A lo, hi \in p .. last : \A j \in R[lo] + 1 .. R[hi] :
            \E k \in lo + 1 .. hi : j \in R[k - 1] + 1 .. R[k] /\ l[j].is = ByteKind(txt[k])
      /\ \A k \in p + 1 .. last : R[k - 1] < R[k] /\ l[R[k - 1] + 1].is = ByteKind(txt[k])
  <2>1. BytesInOrder(txt, p, last, R, l)
    BY LineBytes
  <2>. QED
    BY <2>1 DEF BytesInOrder
<1>3. /\ R[p] = 0 /\ DOMAIN l = 1 .. R[last]
      /\ \A k \in p + 1 .. last :
            /\ R[k] = R[k - 1] + Len(Written(txt[k]))
            /\ ~Wordy(txt[k]) => R[k] = R[k - 1] + 1
            /\ \A j \in R[k - 1] + 1 .. R[k] :
                  l[j].is = ByteKind(txt[k]) /\ l[j].byte = Written(txt[k])[j - R[k - 1]]
  BY DEF IsLineSpelling
<1>4. /\ at \in 1 .. R[last] /\ end \in 1 .. R[last] /\ colon \in 1 .. R[last]
      /\ at <= end /\ end < colon
      /\ l[colon].is = "COLON"
      /\ \A k \in at .. end : l[k].is = "name"
      /\ \A k \in 1 .. colon - 1 : k \notin at .. end => l[k].is = "space"
      /\ \E e \in colon + 1 .. R[last] + 1 :
            /\ e = R[last] + 1 \/ l[e].is = "semicolon"
            /\ \A k \in colon + 1 .. e - 1 : l[k].is = "space"
  <2>1. Len(l) = R[last] /\ IsLabel(l, x)
    BY DEF Labels, IsLineSpelling
  <2>2. at \in DOMAIN l /\ end \in DOMAIN l /\ colon \in DOMAIN l
    BY DEF Labels
  <2>. QED
    BY <1>3, <2>1, <2>2 DEF IsLabel
<1>5. /\ R[last] \in Nat /\ at \in Nat /\ end \in Nat /\ colon \in Nat
      /\ p \in p .. last /\ last \in p .. last
  BY <1>1, <1>2, <1>4
<1>6. a \in p + 1 .. n /\ txt[a].is = "word" /\ \A k \in p + 1 .. a - 1 : txt[k].is = "space"
  BY DEF StepsTo
<1>. HIDE DEF n, w, at, end, colon
<1>7. a \in p + 1 .. last
  <2>. SUFFICES ASSUME a > last PROVE FALSE
    BY <1>1, <1>6
  <2>1. at \in R[p] + 1 .. R[last]
    BY <1>3, <1>4
  <2>2. PICK k \in p + 1 .. last : l[at].is = ByteKind(txt[k])
    BY <1>2, <1>5, <2>1
  <2>3. k \in p + 1 .. a - 1 /\ at \in at .. end
    BY <1>1, <1>4, <1>5, <1>6
  <2>. QED
    BY <1>4, <1>6, <2>2, <2>3 DEF ByteKind, Wordy
<1>8. /\ a \in p .. last /\ a - 1 \in p .. last /\ a \in Nat
      /\ R[a] \in Nat /\ R[a - 1] \in Nat /\ R[a - 1] < R[a] /\ R[a] <= R[last]
  <2>1. a \in p .. last /\ a - 1 \in p .. last /\ a \in Nat
    BY <1>1, <1>7
  <2>. QED
    BY <1>2, <1>7, <2>1
<1>9. \A j \in R[a - 1] + 1 .. R[a] : l[j].is = "name" /\ l[j].byte = w[j - R[a - 1]]
  BY <1>3, <1>6, <1>7 DEF ByteKind, Wordy, w
<1>10. at > R[a - 1]
  <2>. SUFFICES ASSUME at <= R[a - 1] PROVE FALSE
    BY <1>5, <1>8
  <2>1. at \in R[p] + 1 .. R[a - 1]
    BY <1>3, <1>4, <1>8
  <2>2. PICK k \in p + 1 .. a - 1 : l[at].is = ByteKind(txt[k])
    BY <1>2, <1>5, <1>8, <2>1
  <2>3. at \in at .. end
    BY <1>4, <1>5
  <2>. QED
    BY <1>4, <1>6, <2>2, <2>3 DEF ByteKind, Wordy
<1>11. at = R[a - 1] + 1
  <2>. SUFFICES ASSUME R[a - 1] + 1 < at PROVE FALSE
    BY <1>5, <1>8, <1>10
  <2>1. R[a - 1] + 1 \in 1 .. colon - 1 /\ R[a - 1] + 1 \notin at .. end /\ R[a - 1] + 1 \in R[a - 1] + 1 .. R[a]
    <3>. DEFINE u == R[a - 1]
                v == R[a]
    <3>1. u \in Nat /\ v \in Nat /\ u < v /\ u + 1 < at
      BY <1>8
    <3>2. at \in Nat /\ end \in Nat /\ colon \in Nat /\ at <= end /\ end < colon
      BY <1>4, <1>5
    <3>. HIDE DEF u, v
    <3>3. u + 1 \in 1 .. colon - 1 /\ u + 1 \notin at .. end /\ u + 1 \in u + 1 .. v
      BY <3>1, <3>2
    <3>. QED
      BY <3>3 DEF u, v
  <2>. QED
    BY <1>4, <1>9, <2>1
<1>12. end >= R[a]
  <2>. SUFFICES ASSUME end < R[a] PROVE FALSE
    BY <1>5, <1>8
  <2>1. end + 1 \in R[a - 1] + 1 .. R[a] /\ end + 1 \notin at .. end /\ (end + 1 = colon \/ end + 1 \in 1 .. colon - 1)
    <3>. DEFINE u == R[a - 1]
                v == R[a]
    <3>1. u \in Nat /\ v \in Nat /\ u < v /\ at = u + 1 /\ end < v
      BY <1>8, <1>11
    <3>2. at \in Nat /\ end \in Nat /\ colon \in Nat /\ at <= end /\ end < colon
      BY <1>4, <1>5
    <3>. HIDE DEF u, v
    <3>3. end + 1 \in u + 1 .. v /\ end + 1 \notin at .. end /\ (end + 1 = colon \/ end + 1 \in 1 .. colon - 1)
      BY <3>1, <3>2
    <3>. QED
      BY <3>3 DEF u, v
  <2>2. l[end + 1].is = "name"
    BY <1>9, <2>1
  <2>. QED
    BY <1>4, <2>1, <2>2
<1>13. end = R[a]
  <2>. SUFFICES ASSUME R[a] < end PROVE FALSE
    BY <1>5, <1>8, <1>12
  <2>1. R[a] + 1 \in at .. end /\ R[a] + 1 \in R[a] + 1 .. R[last]
    <3>. DEFINE u == R[a - 1]
                v == R[a]
                z == R[last]
    <3>1. u \in Nat /\ v \in Nat /\ u < v /\ at = u + 1 /\ v < end
      BY <1>8, <1>11
    <3>2. z \in Nat /\ end \in 1 .. z
      BY <1>4, <1>5
    <3>. HIDE DEF u, v, z
    <3>3. v + 1 \in at .. end /\ v + 1 \in v + 1 .. z
      BY <3>1, <3>2
    <3>. QED
      BY <3>3 DEF v, z
  <2>2. PICK k \in a + 1 .. last : R[a] + 1 \in R[k - 1] + 1 .. R[k] /\ l[R[a] + 1].is = ByteKind(txt[k])
    BY <1>2, <1>5, <1>8, <2>1
  <2>3. k \in p + 1 .. last /\ k - 1 \in p + 1 .. last /\ k - 1 \in p .. last /\ a <= k - 1 /\ k \in Nat
    BY <1>1, <1>8
  <2>4. k = a + 1
    <3>. SUFFICES ASSUME a <= k - 2 PROVE FALSE
      BY <1>8, <2>3
    <3>1. (k - 1) - 1 \in p .. last /\ a <= (k - 1) - 1
      BY <1>1, <1>8, <2>3
    <3>2. R[a] <= R[(k - 1) - 1] /\ R[(k - 1) - 1] < R[k - 1] /\ R[(k - 1) - 1] \in Nat /\ R[k - 1] \in Nat
      BY <1>2, <1>8, <2>3, <3>1
    <3>. QED
      BY <1>8, <2>2, <3>2
  <2>5. a \in 1 .. n - 1
    BY <1>1, <1>8, <2>3, <2>4
  <2>6. ~Wordy(txt[a + 1])
    BY <1>6, <2>5 DEF IsWritten, IsText, Wordy, n
  <2>7. l[R[a] + 1].is = "name"
    BY <1>4, <2>1
  <2>8. ByteKind(txt[a + 1]) # "name"
    <3>1. a + 1 \in 1 .. n
      BY <1>1, <2>5
    <3>2. txt[a + 1].is \in Kinds
      BY <3>1 DEF IsWritten, IsText, n
    <3>. QED
      BY <2>6, <3>2 DEF ByteKind, Kinds, Single
  <2>. QED
    BY <2>2, <2>4, <2>7, <2>8
<1>14. LabelName(l, x) = w
  <2>1. w \in Seq(Byte)
    BY <1>1, <1>7 DEF IsWritten, w, n
  <2>2. Len(w) \in Nat /\ w = [k \in 1 .. Len(w) |-> w[k]]
    BY <2>1
  <2>3. R[a] = R[a - 1] + Len(w)
    BY <1>3, <1>7 DEF w
  <2>4. end - at + 1 = Len(w)
    BY <1>8, <1>11, <1>13, <2>2, <2>3
  <2>5. ASSUME NEW k \in 1 .. Len(w) PROVE l[at + k - 1].byte = w[k]
    <3>1. at + k - 1 \in R[a - 1] + 1 .. R[a] /\ (at + k - 1) - R[a - 1] = k
      <4>. DEFINE u == R[a - 1]
                  v == R[a]
                  m == Len(w)
      <4>1. u \in Nat /\ v = u + m /\ m \in Nat /\ at = u + 1 /\ k \in 1 .. m
        BY <1>8, <1>11, <2>2, <2>3
      <4>. HIDE DEF u, v, m
      <4>2. at + k - 1 \in u + 1 .. v /\ (at + k - 1) - u = k
        BY <4>1
      <4>. QED
        BY <4>2 DEF u, v
    <3>. QED
      BY <1>9, <3>1
  <2>6. LabelName(l, x) = [k \in 1 .. end - at + 1 |-> l[at + k - 1].byte]
    BY DEF LabelName, at, end
  <2>. QED
    BY <2>2, <2>4, <2>5, <2>6
<1>15. PICK K \in a + 1 .. last : txt[K].is = "COLON" /\ R[K] = colon /\ R[K - 1] = colon - 1
  <2>1. colon \in R[a] + 1 .. R[last]
    BY <1>4, <1>5, <1>8, <1>13
  <2>2. PICK K \in a + 1 .. last : colon \in R[K - 1] + 1 .. R[K] /\ l[colon].is = ByteKind(txt[K])
    BY <1>2, <1>5, <1>8, <2>1
  <2>3. txt[K].is = "COLON" /\ ~Wordy(txt[K])
    BY <1>4, <2>2 DEF ByteKind, Wordy
  <2>4. K \in p + 1 .. last /\ K \in p .. last /\ K - 1 \in p .. last
    BY <1>1, <1>8
  <2>5. R[K] = R[K - 1] + 1 /\ R[K - 1] \in Nat
    BY <1>2, <1>3, <2>3, <2>4
  <2>6. R[K] = colon /\ R[K - 1] = colon - 1
    <3>. DEFINE u == R[K - 1]
                v == R[K]
    <3>1. u \in Nat /\ v = u + 1 /\ colon \in u + 1 .. v
      BY <2>2, <2>5
    <3>. HIDE DEF u, v
    <3>2. v = colon /\ u = colon - 1
      BY <3>1
    <3>. QED
      BY <3>2 DEF u, v
  <2>. QED
    BY <2>3, <2>6
<1>16. K \in p + 1 .. last /\ K \in p .. last /\ K - 1 \in p .. last /\ a <= K - 1 /\ K \in Nat
  BY <1>1, <1>8
<1>17. PICK e \in colon + 1 .. R[last] + 1 :
          /\ e = R[last] + 1 \/ l[e].is = "semicolon"
          /\ \A k \in colon + 1 .. e - 1 : l[k].is = "space"
  BY <1>4
<1>18. PICK E \in K + 1 .. last + 1 : (E = last + 1 \/ txt[E].is = "semicolon") /\ R[E - 1] = e - 1
  <2>1. CASE e = R[last] + 1
    <3>1. last + 1 \in K + 1 .. last + 1 /\ (last + 1) - 1 = last /\ R[last] = e - 1
      BY <1>1, <1>5, <1>16, <2>1
    <3>. QED
      BY <3>1
  <2>2. CASE e # R[last] + 1
    <3>1. e \in R[K] + 1 .. R[last] /\ l[e].is = "semicolon"
      BY <1>5, <1>15, <1>17, <2>2
    <3>2. PICK E \in K + 1 .. last : e \in R[E - 1] + 1 .. R[E] /\ l[e].is = ByteKind(txt[E])
      BY <1>2, <1>5, <1>16, <3>1
    <3>3. txt[E].is = "semicolon" /\ ~Wordy(txt[E])
      BY <3>1, <3>2 DEF ByteKind, Wordy
    <3>4. E \in p + 1 .. last /\ E - 1 \in p .. last /\ E \in K + 1 .. last + 1
      BY <1>1, <1>16
    <3>5. R[E] = R[E - 1] + 1 /\ R[E - 1] \in Nat
      BY <1>2, <1>3, <3>3, <3>4
    <3>6. R[E - 1] = e - 1
      BY <3>2, <3>5
    <3>. QED
      BY <3>3, <3>4, <3>6
  <2>. QED
    BY <2>1, <2>2
<1>19. ASSUME NEW k \in p + 1 .. E - 1, k \notin {a, K} PROVE txt[k].is = "space"
  <2>1. /\ k \in p + 1 .. last /\ k \in p .. last /\ k - 1 \in p .. last /\ k \in Nat
        /\ E - 1 \in p .. last /\ E \in Nat
    BY <1>1, <1>16
  <2>2. /\ R[k] \in Nat /\ R[k - 1] \in Nat /\ R[k - 1] < R[k] /\ R[E - 1] \in Nat
        /\ l[R[k - 1] + 1].is = ByteKind(txt[k])
    BY <1>2, <2>1
  <2>3. l[R[k - 1] + 1].is = "space" => txt[k].is = "space"
    BY <2>2 DEF ByteKind
  <2>4. CASE k < a
    BY <1>6, <1>8, <2>1, <2>4
  <2>5. CASE a < k /\ k < K
    <3>1. a <= k - 1 /\ k <= K - 1
      BY <1>8, <1>16, <2>1, <2>5
    <3>2. R[a] <= R[k - 1] /\ R[k] <= R[K - 1]
      BY <1>2, <1>8, <1>16, <2>1, <3>1
    <3>3. R[k - 1] + 1 \in 1 .. colon - 1 /\ R[k - 1] + 1 \notin at .. end
      <4>. DEFINE u == R[k - 1]
                  v == R[k]
      <4>1. u \in Nat /\ v \in Nat /\ u < v /\ end <= u /\ v <= colon - 1
        BY <1>13, <1>15, <2>2, <3>2
      <4>. HIDE DEF u, v
      <4>2. u + 1 \in 1 .. colon - 1 /\ u + 1 \notin at .. end
        BY <1>5, <4>1
      <4>. QED
        BY <4>2 DEF u
    <3>. QED
      BY <1>4, <2>3, <3>3
  <2>6. CASE K < k
    <3>1. K <= k - 1 /\ k <= E - 1
      BY <1>16, <2>1, <2>6
    <3>2. R[K] <= R[k - 1] /\ R[k] <= R[E - 1]
      BY <1>2, <1>16, <2>1, <3>1
    <3>3. R[k - 1] + 1 \in colon + 1 .. e - 1
      <4>. DEFINE u == R[k - 1]
                  v == R[k]
      <4>1. u \in Nat /\ v \in Nat /\ u < v /\ colon <= u /\ v <= e - 1
        BY <1>15, <1>18, <2>2, <3>2
      <4>2. e \in Nat /\ colon \in Nat
        BY <1>5
      <4>. HIDE DEF u, v
      <4>3. u + 1 \in colon + 1 .. e - 1
        BY <4>1, <4>2
      <4>. QED
        BY <4>3 DEF u
    <3>. QED
      BY <1>17, <2>3, <3>3
  <2>. QED
    BY <1>8, <1>16, <1>19, <2>1, <2>4, <2>5, <2>6
<1>20. LabelPlaces(txt, p, last, txt[a], a, K, E)
  <2>1. a \in p + 1 .. last /\ K \in p + 1 .. last /\ E \in p + 1 .. last + 1 /\ a < K /\ K < E
    BY <1>1, <1>7, <1>8, <1>16
  <2>. QED
    BY <1>6, <1>15, <1>18, <1>19, <2>1 DEF LabelPlaces
<1>. QED
  BY <1>14, <1>20 DEF w

\* The label of the characters is one of the bytes.
LEMMA BytesOfLabel ==
    ASSUME NEW txt, IsWritten(txt), NEW p \in Nat, NEW last \in Nat, p < last, last <= Len(txt),
           NEW R, NEW l, IsLineSpelling(txt, p, last, R, l),
           NEW c, NEW A, NEW K, NEW E, LabelPlaces(txt, p, last, c, A, K, E)
    PROVE  \E x \in Labels(l) : LabelName(l, x) = Written(c)
<1>. DEFINE n == Len(txt)
            w == Written(c)
            e == R[E - 1] + 1
            x == [at |-> R[A - 1] + 1, last |-> R[A], colon |-> R[K]]
<1>1. n \in Nat /\ last \in Nat /\ p \in Nat /\ p < last /\ last <= n
  BY DEF IsWritten, IsText
<1>. HIDE DEF n, w, e, x
<1>2. /\ \A k \in p .. last : R[k] \in Nat /\ R[k] <= R[last]
      /\ \A a, b \in p .. last : a <= b => R[a] <= R[b]
      /\ \A lo, hi \in p .. last : \A j \in R[lo] + 1 .. R[hi] :
            \E k \in lo + 1 .. hi : j \in R[k - 1] + 1 .. R[k] /\ l[j].is = ByteKind(txt[k])
      /\ \A k \in p + 1 .. last : R[k - 1] < R[k] /\ l[R[k - 1] + 1].is = ByteKind(txt[k])
  <2>1. BytesInOrder(txt, p, last, R, l)
    BY LineBytes
  <2>. QED
    BY <2>1 DEF BytesInOrder
<1>3. /\ R[p] = 0 /\ DOMAIN l = 1 .. R[last] /\ Len(l) = R[last]
      /\ \A k \in p + 1 .. last :
            /\ R[k] = R[k - 1] + Len(Written(txt[k]))
            /\ ~Wordy(txt[k]) => R[k] = R[k - 1] + 1
            /\ \A j \in R[k - 1] + 1 .. R[k] :
                  l[j].is = ByteKind(txt[k]) /\ l[j].byte = Written(txt[k])[j - R[k - 1]]
  BY DEF IsLineSpelling
<1>4. /\ A \in p + 1 .. last /\ K \in p + 1 .. last /\ E \in p + 1 .. last + 1
      /\ A < K /\ K < E
      /\ txt[A] = c /\ c.is = "word" /\ Wordy(c)
      /\ txt[K].is = "COLON"
      /\ E = last + 1 \/ txt[E].is = "semicolon"
      /\ \A k \in p + 1 .. E - 1 : k \notin {A, K} => txt[k].is = "space"
  BY DEF LabelPlaces, Wordy
<1>5. /\ A \in p .. last /\ A - 1 \in p .. last /\ K \in p .. last /\ K - 1 \in p .. last /\ E - 1 \in p .. last
      /\ p \in p .. last /\ last \in p .. last
      /\ A \in Nat /\ K \in Nat /\ E \in Nat /\ A <= K - 1 /\ K <= E - 1 /\ A \in 1 .. n
  BY <1>1, <1>4
<1>6. /\ R[A] \in Nat /\ R[A - 1] \in Nat /\ R[K] \in Nat /\ R[K - 1] \in Nat /\ R[E - 1] \in Nat /\ R[last] \in Nat
      /\ R[A - 1] < R[A] /\ R[A] <= R[K - 1] /\ R[K] = R[K - 1] + 1 /\ R[K] <= R[E - 1] /\ R[E - 1] <= R[last]
  <2>1. ~Wordy(txt[K])
    BY <1>4 DEF Wordy
  <2>2. R[K] = R[K - 1] + 1
    BY <1>3, <1>4, <2>1
  <2>3. R[A] <= R[K - 1] /\ R[K] <= R[E - 1]
    BY <1>2, <1>5
  <2>. QED
    BY <1>2, <1>4, <1>5, <2>2, <2>3
<1>7. l[R[K]].is = "COLON"
  <2>1. R[K] \in R[K - 1] + 1 .. R[K]
    BY <1>6
  <2>2. l[R[K]].is = ByteKind(txt[K])
    BY <1>3, <1>4, <2>1
  <2>. QED
    BY <1>4, <2>2 DEF ByteKind, Wordy
<1>8. \A j \in R[A - 1] + 1 .. R[A] : l[j].is = "name" /\ l[j].byte = w[j - R[A - 1]]
  BY <1>3, <1>4 DEF ByteKind, w
<1>9. ASSUME NEW j \in 1 .. R[K] - 1, j \notin R[A - 1] + 1 .. R[A] PROVE l[j].is = "space"
  <2>1. j \in R[p] + 1 .. R[K - 1]
    BY <1>3, <1>6
  <2>2. PICK k \in p + 1 .. K - 1 : j \in R[k - 1] + 1 .. R[k] /\ l[j].is = ByteKind(txt[k])
    BY <1>2, <1>5, <2>1
  <2>3. k \in p + 1 .. E - 1 /\ k \notin {A, K}
    BY <1>1, <1>5, <1>9, <2>2
  <2>. QED
    BY <1>4, <2>2, <2>3 DEF ByteKind, Wordy
<1>10. /\ e \in R[K] + 1 .. R[last] + 1
       /\ e = R[last] + 1 \/ l[e].is = "semicolon"
  <2>1. e \in R[K] + 1 .. R[last] + 1
    BY <1>6 DEF e
  <2>2. CASE E = last + 1
    <3>1. E - 1 = last
      BY <1>1, <2>2
    <3>. QED
      BY <2>1, <3>1 DEF e
  <2>3. CASE E # last + 1
    <3>1. E \in p + 1 .. last /\ txt[E].is = "semicolon"
      BY <1>1, <1>4, <2>3
    <3>2. l[e].is = ByteKind(txt[E])
      BY <1>2, <3>1 DEF e
    <3>. QED
      BY <2>1, <3>1, <3>2 DEF ByteKind, Wordy
  <2>. QED
    BY <2>2, <2>3
<1>11. ASSUME NEW j \in R[K] + 1 .. e - 1 PROVE l[j].is = "space"
  <2>1. j \in R[K] + 1 .. R[E - 1]
    BY <1>6 DEF e
  <2>2. PICK k \in K + 1 .. E - 1 : l[j].is = ByteKind(txt[k])
    BY <1>2, <1>5, <2>1
  <2>3. k \in p + 1 .. E - 1 /\ k \notin {A, K}
    <3>1. k \in Nat /\ p \in Nat /\ p < K /\ A < K /\ k > K /\ k <= E - 1
      BY <1>4, <1>5
    <3>. QED
      BY <1>5, <3>1
  <2>. QED
    BY <1>4, <2>2, <2>3 DEF ByteKind, Wordy
<1>12. x \in Labels(l)
  <2>1. R[A - 1] + 1 \in 1 .. R[last] /\ R[A] \in 1 .. R[last] /\ R[K] \in 1 .. R[last]
    <3>. DEFINE u == R[A - 1]
                v == R[A]
                m == R[K]
                z == R[last]
    <3>1. u \in Nat /\ v \in Nat /\ m \in Nat /\ z \in Nat /\ u < v /\ v < m /\ m <= z
      BY <1>6
    <3>. HIDE DEF u, v, m, z
    <3>2. u + 1 \in 1 .. z /\ v \in 1 .. z /\ m \in 1 .. z
      BY <3>1
    <3>. QED
      BY <3>2 DEF u, v, m, z
  <2>2. x \in [at : DOMAIN l, last : DOMAIN l, colon : DOMAIN l]
    BY <1>3, <2>1 DEF x
  <2>3. x.at = R[A - 1] + 1 /\ x.last = R[A] /\ x.colon = R[K]
    BY DEF x
  <2>4. x.at <= x.last /\ x.last < x.colon
    BY <1>6, <2>3
  <2>5. IsLabel(l, x)
    BY <1>3, <1>7, <1>8, <1>9, <1>10, <1>11, <2>3, <2>4 DEF IsLabel
  <2>. QED
    BY <2>2, <2>5 DEF Labels
<1>13. LabelName(l, x) = w
  <2>1. w \in Seq(Byte) /\ w = Written(txt[A])
    BY <1>4, <1>5 DEF IsWritten, w, n
  <2>2. Len(w) \in Nat /\ w = [k \in 1 .. Len(w) |-> w[k]]
    BY <2>1
  <2>3. R[A] = R[A - 1] + Len(w)
    BY <1>3, <1>4, <2>1
  <2>4. R[A] - (R[A - 1] + 1) + 1 = Len(w)
    BY <1>6, <2>2, <2>3
  <2>5. ASSUME NEW k \in 1 .. Len(w) PROVE l[(R[A - 1] + 1) + k - 1].byte = w[k]
    <3>1. (R[A - 1] + 1) + k - 1 \in R[A - 1] + 1 .. R[A] /\ ((R[A - 1] + 1) + k - 1) - R[A - 1] = k
      <4>. DEFINE u == R[A - 1]
                  v == R[A]
                  m == Len(w)
      <4>1. u \in Nat /\ v = u + m /\ m \in Nat /\ k \in 1 .. m
        BY <1>6, <2>2, <2>3
      <4>. HIDE DEF u, v, m
      <4>2. (u + 1) + k - 1 \in u + 1 .. v /\ ((u + 1) + k - 1) - u = k
        BY <4>1
      <4>. QED
        BY <4>2 DEF u, v
    <3>. QED
      BY <1>8, <3>1
  <2>6. LabelName(l, x) = [k \in 1 .. R[A] - (R[A - 1] + 1) + 1 |-> l[(R[A - 1] + 1) + k - 1].byte]
    BY DEF LabelName, x
  <2>. QED
    BY <2>2, <2>4, <2>5, <2>6
<1>. QED
  BY <1>12, <1>13 DEF w

\* Where lines fit its buffers, the tool reads line by line: at a line of the
\* text, it sees that line, and the labels of its bytes are those of its
\* characters.
LEMMA LineOfTool ==
    ASSUME IsWritten(text), LinesFit, NEW p \in Starts(text), scanned = Offsets(text)[p]
    PROVE  /\ PieceEnd(File, scanned) = Offsets(text)[LineEnd(text, p)]
           /\ CurrentLine[1].is = "semicolon" <=> TrimmedText(text, p)[1].is = "semicolon"
           /\ \A a : StepsTo(text, p, a, "word") =>
                 LabelsIn(CurrentLine) = {Written(c) : c \in NamesIn(TrimmedText(text, p))}
<1>. DEFINE n == Len(text)
            O == Offsets(text)
            f == File
            e == LineEnd(text, p)
            l == CurrentLine
<1>1. IsText(text) /\ IsSpelling(text, O, f)
  <2>1. File = FileOf(text)
    BY DEF File, FileOf
  <2>. QED
    BY <2>1, OffsetsFound DEF IsWritten
<1>2. l = Trimmed(Piece(f, O[p]))
  BY DEF CurrentLine
<1>. HIDE DEF O, f, e, l, n
<1>3. /\ n \in Nat /\ Len(f) \in Nat
      /\ \A a, b \in 0 .. n : a < b => O[a] < O[b]
      /\ \A k \in 1 .. n : ~Wordy(text[k]) => O[k] = O[k - 1] + 1
  BY <1>1, SpellingFacts DEF n
<1>4. /\ O \in [0 .. n -> Nat] /\ O[0] = 0 /\ O[n] = Len(f)
      /\ \A k \in 1 .. n : \A j \in O[k - 1] + 1 .. O[k] : f[j].is = ByteKind(text[k])
  BY <1>1 DEF IsSpelling, n
<1>5. p \in 0 .. n /\ p # n /\ p < n /\ n \in 0 .. n /\ (p = 0 \/ text[p].is = "NEWLINE")
  BY <1>3 DEF Starts, n
<1>6. O[p] \in 0 .. Len(f) - 1
  BY <1>3, <1>4, <1>5
<1>7. O[p] = 0 \/ f[O[p]].is = "NEWLINE"
  <2>. SUFFICES ASSUME p # 0 PROVE f[O[p]].is = "NEWLINE"
    BY <1>4
  <2>1. p \in 1 .. n /\ p - 1 \in 0 .. n /\ ~Wordy(text[p])
    BY <1>3, <1>5 DEF Wordy
  <2>2. O[p] = O[p - 1] + 1 /\ O[p - 1] \in Nat
    BY <1>3, <1>4, <2>1
  <2>3. O[p] \in O[p - 1] + 1 .. O[p]
    BY <2>2
  <2>4. f[O[p]].is = ByteKind(text[p])
    BY <1>4, <2>1, <2>3
  <2>. QED
    BY <1>5, <2>1, <2>4 DEF ByteKind
<1>8. /\ PieceEnd(f, O[p]) = Len(f) \/ f[PieceEnd(f, O[p])].is = "NEWLINE"
      /\ \A x \in Labels(l) : FitsBuffer(x)
  BY <1>2, <1>6, <1>7 DEF LinesFit, f
<1>9. PieceEnd(f, O[p]) = O[e]
  BY <1>1, <1>8, LinePiece DEF e
<1>10. PICK last : IsTrimmed(text, p, last)
  BY <1>1, <1>5, TrimmedFound DEF n
<1>11. PICK R : IsLineSpelling(text, p, last, R, l)
  BY <1>1, <1>2, <1>5, <1>9, <1>10, LineTrimmed DEF e, n
<1>12. last \in Nat /\ p \in Nat /\ p < last /\ last <= n
  <2>1. e \in p .. n
    BY <1>1, <1>5, LineEndFound DEF e, n
  <2>. QED
    BY <1>3, <1>5, <1>10, <2>1 DEF IsTrimmed, e
<1>13. l[1].is = "semicolon" <=> TrimmedText(text, p)[1].is = "semicolon"
  <2>1. l[1].is = ByteKind(text[p + 1])
    BY <1>11, <1>12, LineBytes DEF BytesInOrder
  <2>2. TrimmedText(text, p)[1] = text[p + 1]
    BY <1>1, <1>5, FirstTrimmed DEF n
  <2>. QED
    BY <2>1, <2>2 DEF ByteKind, Wordy
<1>14. ASSUME NEW a, StepsTo(text, p, a, "word")
       PROVE  LabelsIn(l) = {Written(c) : c \in NamesIn(TrimmedText(text, p))}
  <2>1. ASSUME NEW w \in LabelsIn(l) PROVE w \in {Written(c) : c \in NamesIn(TrimmedText(text, p))}
    <3>1. PICK x \in Labels(l) : w = LabelName(l, x)
      BY DEF LabelsIn
    <3>2. LabelName(l, x) = Written(text[a]) /\ \E K, E : LabelPlaces(text, p, last, text[a], a, K, E)
      BY <1>11, <1>12, <1>14, LabelOfBytes DEF n
    <3>3. text[a] \in NamesIn(TrimmedText(text, p))
      BY <1>1, <1>5, <1>10, <3>2, LabelPlaced DEF n
    <3>. QED
      BY <3>1, <3>2, <3>3
  <2>2. ASSUME NEW c \in NamesIn(TrimmedText(text, p)) PROVE Written(c) \in LabelsIn(l)
    <3>1. PICK A, K, E : LabelPlaces(text, p, last, c, A, K, E)
      BY <1>1, <1>5, <1>10, LabelPlaced DEF n
    <3>2. \E x \in Labels(l) : LabelName(l, x) = Written(c)
      BY <1>11, <1>12, <3>1, BytesOfLabel DEF n
    <3>. QED
      BY <1>8, <3>2 DEF LabelsIn
  <2>. QED
    BY <2>1, <2>2
<1>. QED
  BY <1>9, <1>13, <1>14 DEF f, e, l, O

----------------------------------------------------------------------------
(* The lines of a tidy text, for the parser and for the tool. *)

\* The statement at p, and the line after p for the tool.
LineIs(p, s, kind) ==
    /\ s.what.kind = kind
    /\ s.lexer \in Looked(text) /\ LineEnds(s.lexer) /\ s.lexer.position = LineEnd(text, p)
    /\ TrimmedText(text, p)[1].is # "semicolon"
    /\ \E a : StepsTo(text, p, a, "word")

CommentIs(p, s) ==
    /\ s.what.kind \in {"newline", "end"}
    /\ s.what.kind = "newline" => s.lexer = LexerAt(LineEnd(text, p))
    /\ s.what.kind = "end" => LineEnd(text, p) = Len(text)
    /\ TrimmedText(text, p)[1].is = "semicolon"

LabelIs(p, s) == LineIs(p, s, "label") /\ NamesIn(TrimmedText(text, p)) = {Name(s.what.name)}

InstructionIs(p, s) == LineIs(p, s, "instruction") /\ NamesIn(TrimmedText(text, p)) = {}

LEMMA CommentRead ==
    ASSUME IsText(text), NoReturns(text), NEW p \in 0 .. Len(text), p # Len(text), text[p + 1].is = "semicolon"
    PROVE  CommentIs(p, StatementAt(text, LexerAt(p)))
<1>. DEFINE t == NextToken(text, p)
            q == AfterBlanks(text, p)
            s == StatementAt(text, LexerAt(p))
<1>1. Len(text) \in Nat /\ At(text, p) = "semicolon"
  BY TextEnd DEF IsText
<1>2. q = p
  <2>1. q \in p .. Len(text) /\ \A k \in p .. q - 1 : At(text, k) \in {"space", "cr"}
    BY AfterBlanksFound
  <2>. HIDE DEF q
  <2>2. q # p => p \in p .. q - 1
    BY <1>1, <2>1
  <2>. QED
    BY <1>1, <2>1, <2>2
<1>3. t = Scanned(text, EndOfLine(text, p))
  BY <1>1, <1>2 DEF NextToken, Skip
<1>4. At(text, EndOfLine(text, p)) \in {"NEWLINE", "end"}
  BY EndOfLineFound
<1>5. t.token.type \in {"NEWLINE", "EOF"}
  BY <1>3, <1>4 DEF Scanned
<1>6. t.position = LineEnd(text, p)
  BY <1>5, BlankStep DEF LineEnds
<1>7. t \in Looked(text) /\ t.position \in p .. Len(text)
  BY LookedAt DEF NextToken
<1>8. s = StatementFrom(text, t)
  BY DEF StatementAt, Peek, LexerAt, NextToken
<1>9. TrimmedText(text, p)[1].is = "semicolon"
  BY FirstTrimmed
<1>. HIDE DEF t, s
<1>10. CASE t.token.type = "EOF"
  <2>1. s = Read([kind |-> "end"], t)
    BY <1>8, <1>10 DEF StatementFrom
  <2>2. s.what.kind = "end"
    BY <2>1 DEF Read
  <2>3. LineEnd(text, p) = Len(text)
    <3>. DEFINE e == EndOfLine(text, p)
    <3>1. e \in 0 .. Len(text)
      BY <1>1, EndOfLineFound
    <3>2. e = Len(text)
      BY <1>3, <1>10, <3>1, ScannedOn
    <3>. QED
      BY <3>2, LineEndFound
  <2>. QED
    BY <1>9, <2>2, <2>3 DEF CommentIs, s
<1>11. CASE t.token.type = "NEWLINE"
  <2>1. s = Read([kind |-> "newline"], Advance(text, t))
    BY <1>8, <1>11 DEF StatementFrom
  <2>2. Advance(text, t) = LexerAt(t.position)
    BY <1>1, <1>7, LookedFacts DEF Advance, LexerAt
  <2>3. s.what.kind = "newline" /\ s.lexer = LexerAt(LineEnd(text, p))
    BY <1>6, <2>1, <2>2 DEF Read
  <2>. QED
    BY <1>9, <2>3 DEF CommentIs, s
<1>. QED
  BY <1>5, <1>10, <1>11

\* One token before a sequence of them.
LEMMA HeadOf ==
    ASSUME NEW T, NEW t \in T, NEW x \in Seq(T)
    PROVE  /\ <<t>> \o x # <<>> /\ (<<t>> \o x)[1] = t
           /\ Len(<<t>> \o x) = 1 + Len(x) /\ Len(x) \in Nat
           /\ x # <<>> => Len(x) > 0 /\ (<<t>> \o x)[2] = x[1]
           /\ Len(x) = 0 <=> x = <<>>
<1>1. Len(x) \in Nat /\ Len(<<t>> \o x) = 1 + Len(x) /\ (<<t>> \o x)[1] = t
  OBVIOUS
<1>2. Len(x) = 0 => x = <<>>
  OBVIOUS
<1>3. x # <<>> => Len(x) > 0
  BY <1>1, <1>2
<1>4. x # <<>> => (<<t>> \o x)[2] = x[1]
  BY <1>1, <1>3
<1>5. <<t>> \o x # <<>>
  BY <1>1
<1>. QED
  BY <1>1, <1>2, <1>3, <1>4, <1>5

LEMMA TailOf ==
    ASSUME NEW T, NEW t \in T, NEW x \in Seq(T), NEW c, <<t>> \o x = <<t, c>>
    PROVE  Len(x) = 1 /\ x # <<>> /\ x[1] = c
<1>1. Len(<<t, c>>) = 2 /\ <<t, c>>[2] = c
  OBVIOUS
<1>2. /\ Len(<<t>> \o x) = 1 + Len(x) /\ Len(x) \in Nat
      /\ x # <<>> => (<<t>> \o x)[2] = x[1]
  BY HeadOf
<1>3. 1 + Len(x) = 2 /\ (x # <<>> => c = x[1])
  BY <1>1, <1>2
<1>4. Len(x) = 1
  BY <1>2, <1>3
<1>5. x # <<>>
  <2>1. Len(x) = 0 <=> x = <<>>
    BY HeadOf
  <2>. QED
    BY <1>4, <2>1
<1>. QED
  BY <1>3, <1>4, <1>5

\* A line of two tokens.
LEMMA TwoTokens ==
    ASSUME IsText(text), NEW l \in Looked(text), ~LineEnds(l),
           RestOfLine(text, l) = <<l.token.type, "COLON">>
    PROVE  /\ ~LineEnds(TokenAfter(text, l)) /\ TokenAfter(text, l).token.type = "COLON"
           /\ LineEnds(TokenAfter(text, TokenAfter(text, l)))
<1>. DEFINE rest == RestFrom(text)
            a == TokenAfter(text, l)
            b == TokenAfter(text, a)
            T == TokenTypes(text) \union {l.token.type}
            x == rest[l.position]
            y == rest[a.position]
<1>1. /\ l.position \in 0 .. Len(text) /\ a \in Looked(text) /\ a = NextToken(text, l.position)
      /\ b = NextToken(text, a.position)
  BY LookedFacts DEF TokenAfter, NextToken
<1>2. a.position \in 0 .. Len(text)
  BY <1>1, LookedFacts
<1>3. rest \in [0 .. Len(text) -> Seq(TokenTypes(text))] /\ RestSolves(text, rest)
  BY RestFound
<1>4. RestOfLine(text, l) = <<l.token.type>> \o x
  BY DEF RestOfLine, RestFrom
<1>5. /\ x = IF LineEnds(a) THEN <<>> ELSE <<a.token.type>> \o y
      /\ y = IF LineEnds(b) THEN <<>> ELSE <<b.token.type>> \o rest[b.position]
  BY <1>1, <1>2, <1>3 DEF RestSolves
<1>6. x \in Seq(T) /\ y \in Seq(T)
  <2>1. x \in Seq(TokenTypes(text)) /\ y \in Seq(TokenTypes(text))
    BY <1>1, <1>2, <1>3
  <2>. QED
    BY <2>1
<1>7. a.token.type \in T /\ b.token.type \in T /\ l.token.type \in T
  <2>1. a.token.type \in TokenTypes(text) /\ b.token.type \in TokenTypes(text)
    BY <1>1, <1>2 DEF TokenTypes
  <2>. QED
    BY <2>1
<1>8. ~LineEnds(b) => rest[b.position] \in Seq(T)
  <2>1. b \in Looked(text)
    BY <1>1, LookedFacts
  <2>2. b.position \in 0 .. Len(text)
    BY <2>1, LookedFacts
  <2>3. rest[b.position] \in Seq(TokenTypes(text))
    BY <1>3, <2>2
  <2>. QED
    BY <2>3
<1>. DEFINE z == rest[b.position]
<1>9. <<l.token.type>> \o x = <<l.token.type, "COLON">>
  BY <1>4
<1>. HIDE DEF rest, a, b, T, x, y, z
<1>10. Len(x) = 1 /\ x # <<>> /\ x[1] = "COLON"
  BY <1>6, <1>7, <1>9, TailOf
<1>11. ~LineEnds(a) /\ x = <<a.token.type>> \o y
  BY <1>5, <1>10
<1>12. a.token.type = "COLON" /\ y = <<>>
  <2>. DEFINE u == <<a.token.type>> \o y
  <2>1. u[1] = a.token.type /\ Len(u) = 1 + Len(y) /\ Len(y) \in Nat /\ (Len(y) = 0 => y = <<>>)
    BY <1>6, <1>7, HeadOf
  <2>. HIDE DEF u
  <2>2. x = u
    BY <1>11 DEF u
  <2>. QED
    BY <1>10, <2>1, <2>2
<1>13. LineEnds(b)
  <2>. SUFFICES ASSUME ~LineEnds(b) PROVE FALSE
    OBVIOUS
  <2>1. y = <<b.token.type>> \o z
    BY <1>5 DEF z
  <2>2. z \in Seq(T)
    BY <1>8 DEF z
  <2>3. <<b.token.type>> \o z # <<>>
    BY <1>7, <2>2, HeadOf
  <2>. QED
    BY <1>12, <2>1, <2>3
<1>. QED
  BY <1>11, <1>12, <1>13 DEF a, b

LEMMA StatementRules ==
    ASSUME IsText(text), NEW l \in Looked(text), NEW s, s = StatementFrom(text, l)
    PROVE  /\ s.what.kind = "label" => /\ l.token.type = "IDENTIFIER"
                                       /\ s.what.name = l.token.word /\ s.lexer = SkipLine(text, l)
           /\ s.what.kind = "instruction" => /\ l.token.type = "IDENTIFIER"
                                             /\ ~EndsWithColon(text, l.position)
                                             /\ s.lexer \in Looked(text)
           /\ l.token.type = "EOF" => s.what.kind = "end"
           /\ l.token.type = "NEWLINE" => s.what.kind = "newline" /\ s.lexer = LexerAt(l.position)
<1>. DEFINE t == l.token.type
<1>1. CASE t = "EOF"
  <2>1. s = Read([kind |-> "end"], l)
    BY <1>1 DEF StatementFrom
  <2>. QED
    BY <1>1, <2>1 DEF Read
<1>2. CASE t = "NEWLINE"
  <2>1. s = Read([kind |-> "newline"], Advance(text, l))
    BY <1>2 DEF StatementFrom
  <2>2. Advance(text, l) = LexerAt(l.position)
    BY LookedFacts DEF Advance, LexerAt
  <2>. QED
    BY <1>2, <2>1, <2>2 DEF Read
<1>3. CASE t = "IDENTIFIER" /\ EndsWithColon(text, l.position)
  <2>1. s = Read([kind |-> "label", name |-> l.token.word], SkipLine(text, l))
    BY <1>3 DEF StatementFrom
  <2>. QED
    BY <1>3, <2>1 DEF Read
<1>4. CASE t = "IDENTIFIER" /\ ~EndsWithColon(text, l.position)
  <2>1. s \in {ConstantAt(text, l), InstructionAt(text, l)}
    BY <1>4 DEF StatementFrom
  <2>2. /\ ConstantAt(text, l).what.kind \in {"constant", "error"}
        /\ InstructionAt(text, l).what.kind \in {"instruction", "error"}
        /\ ConstantAt(text, l).lexer \in Looked(text) /\ InstructionAt(text, l).lexer \in Looked(text)
    BY ConstantKeeps, InstructionKeeps
  <2>. QED
    BY <1>4, <2>1, <2>2
<1>5. CASE t \notin {"EOF", "NEWLINE", "IDENTIFIER"}
  <2>1. s = Read([kind |-> "other"], l)
    BY <1>5 DEF StatementFrom
  <2>. QED
    BY <1>5, <2>1 DEF Read
<1>. QED
  BY <1>1, <1>2, <1>3, <1>4, <1>5

\* Every line of a tidy text is one of three things, for both.
LEMMA TidyRead ==
    ASSUME IsText(text), TidyText, NEW p \in LineStarts, NEW s, s = StatementAt(text, LexerAt(p))
    PROVE  CommentIs(p, s) \/ LabelIs(p, s) \/ InstructionIs(p, s)
<1>. DEFINE l == NextToken(text, p)
<1>1. Len(text) \in Nat /\ NoReturns(text) /\ p \in 0 .. Len(text) /\ p # Len(text)
  BY DEF IsText, TidyText, NoReturns, LineStarts
<1>2. CASE text[p + 1].is = "semicolon"
  BY <1>1, <1>2, CommentRead
<1>3. CASE text[p + 1].is # "semicolon"
  <2>1. TidyStatement(p, s)
    BY <1>3 DEF TidyText, TidyLine
  <2>2. TrimmedText(text, p)[1].is # "semicolon"
    BY <1>1, <1>3, FirstTrimmed
  <2>3. Peek(text, LexerAt(p)) = l /\ s = StatementFrom(text, l)
    BY DEF StatementAt, Peek, LexerAt, NextToken
  <2>4. l \in Looked(text)
    BY <1>1, LookedAt DEF NextToken
  <2>5. CASE s.what.kind = "label" /\ RestOfLine(text, l) = <<"IDENTIFIER", "COLON">>
    <3>. DEFINE m == TokenAfter(text, l)
                o == TokenAfter(text, m)
                a == l.position
                c == m.position
    <3>1. l.token.type = "IDENTIFIER" /\ s.what.name = l.token.word /\ s.lexer = SkipLine(text, l)
      BY <2>3, <2>4, <2>5, StatementRules
    <3>2. ~LineEnds(l)
      BY <3>1 DEF LineEnds
    <3>3. ~LineEnds(m) /\ m.token.type = "COLON" /\ LineEnds(o)
      BY <2>4, <2>5, <3>1, <3>2, TwoTokens
    <3>4. m \in Looked(text) /\ o \in Looked(text)
      BY <2>4, LookedFacts
    <3>5. s.lexer = o
      BY <2>4, <3>1, <3>2, <3>3, <3>4, LineSkipped
    <3>6. m = NextToken(text, a) /\ o = NextToken(text, c) /\ a \in 0 .. Len(text) /\ c \in 0 .. Len(text)
      BY <2>4, <3>4, LookedFacts DEF TokenAfter, NextToken
    <3>7. StepsTo(text, p, a, "word") /\ l.token.word = text[a].word
      BY <1>1, <3>1, BlankStep
    <3>. HIDE DEF l, m, o, a, c
    <3>8. StepsTo(text, a, c, "COLON")
      BY <1>1, <3>3, <3>6, BlankStep DEF c
    <3>9. Blanks(text, c) /\ o.position = LineEnd(text, c)
      BY <1>1, <3>3, <3>6, BlankStep
    <3>10. LineEnd(text, c) = LineEnd(text, p)
      <4>1. LineEnd(text, a) = LineEnd(text, p)
        BY <1>1, <3>7, SameLine
      <4>2. LineEnd(text, c) = LineEnd(text, a)
        BY <3>6, <3>8, SameLine
      <4>. QED
        BY <4>1, <4>2
    <3>11. NamesIn(TrimmedText(text, p)) = {text[a]}
      BY <1>1, <3>7, <3>8, <3>9, LabelShown DEF LabelShape
    <3>12. text[a] = Name(s.what.name)
      <4>1. a \in 1 .. Len(text) /\ text[a].is = "word"
        BY <1>1, <3>7 DEF StepsTo
      <4>. QED
        BY <3>1, <3>7, <4>1 DEF IsText
    <3>. QED
      BY <2>2, <2>5, <3>3, <3>4, <3>5, <3>7, <3>9, <3>10, <3>11, <3>12 DEF LabelIs, LineIs
  <2>6. CASE /\ s.what.kind = "instruction"
             /\ Token(text, s.lexer).type \in {"NEWLINE", "EOF"}
             /\ Peek(text, s.lexer).position = LineEnd(text, p)
    <3>1. l.token.type = "IDENTIFIER" /\ ~EndsWithColon(text, l.position) /\ s.lexer \in Looked(text)
      BY <2>3, <2>4, <2>6, StatementRules
    <3>2. Peek(text, s.lexer) = s.lexer
      BY <3>1, LookedFacts
    <3>3. NamesIn(TrimmedText(text, p)) = {}
      BY <1>1, <3>1, LabelTested
    <3>4. \E a : StepsTo(text, p, a, "word")
      BY <1>1, <3>1, BlankStep
    <3>. QED
      BY <2>2, <2>6, <3>1, <3>2, <3>3, <3>4 DEF InstructionIs, LineIs, Token, LineEnds
  <2>. QED
    BY <2>1, <2>3, <2>5, <2>6 DEF TidyStatement
<1>. QED
  BY <1>2, <1>3

\* What a reading of the text has got up to a place: the labels, and the
\* instructions counted before each of them and before the place.
Found(txt) == {txt[k] : k \in {j \in 1 .. Len(txt) : txt[j].is = "word"}}

LEMMA NamesAreFound ==
    ASSUME NEW txt, IsText(txt), NEW p \in Starts(txt), NEW c \in NamesIn(TrimmedText(txt, p))
    PROVE  c \in Found(txt)
<1>1. Len(txt) \in Nat /\ p \in 0 .. Len(txt) /\ p # Len(txt)
  BY DEF IsText, Starts
<1>2. PICK last : IsTrimmed(txt, p, last)
  BY <1>1, TrimmedFound
<1>3. PICK at, colon, end : LabelPlaces(txt, p, last, c, at, colon, end)
  BY <1>1, <1>2, LabelPlaced
<1>4. at \in p + 1 .. last /\ last \in p + 1 .. LineEnd(txt, p) /\ LineEnd(txt, p) \in p .. Len(txt)
  BY <1>1, <1>2, <1>3, LineEndFound DEF LabelPlaces, IsTrimmed
<1>5. at \in 1 .. Len(txt)
  BY <1>1, <1>4
<1>. QED
  BY <1>3, <1>5 DEF LabelPlaces, Found

Reads(txt) == [labels : Seq([label : Found(txt), count : Nat]), count : Nat]

WithName(r, c) ==
    IF Len(r.labels) >= MaxSymbols \/ \E k \in DOMAIN r.labels : r.labels[k].label = c THEN r
    ELSE [r EXCEPT !.labels = Append(r.labels, [label |-> c, count |-> r.count])]

AfterLine(txt, p, r) ==
    IF TrimmedText(txt, p)[1].is = "semicolon" THEN r
    ELSE IF NamesIn(TrimmedText(txt, p)) # {} THEN WithName(r, CHOOSE c : c \in NamesIn(TrimmedText(txt, p)))
    ELSE [r EXCEPT !.count = r.count + 1]

NothingRead == [labels |-> <<>>, count |-> 0]

IsReading(txt, f) ==
    /\ f \in [0 .. Len(txt) -> Reads(txt)]
    /\ f[0] = NothingRead
    /\ \A k \in 1 .. Len(txt) :
          f[k] = IF k - 1 \in Starts(txt) THEN AfterLine(txt, k - 1, f[k - 1]) ELSE f[k - 1]

Reading(txt) == CHOOSE f : IsReading(txt, f)

LEMMA WithNameRead ==
    ASSUME NEW txt, NEW r \in Reads(txt), NEW c \in Found(txt)
    PROVE  WithName(r, c) \in Reads(txt)
<1>. DEFINE E == [label : Found(txt), count : Nat]
            e == [label |-> c, count |-> r.count]
<1>1. r = [labels |-> r.labels, count |-> r.count] /\ r.labels \in Seq(E) /\ r.count \in Nat
  BY DEF Reads
<1>2. e \in E
  BY <1>1
<1>. HIDE DEF E, e
<1>3. Append(r.labels, e) \in Seq(E)
  BY <1>1, <1>2
<1>4. [r EXCEPT !.labels = Append(r.labels, e)] = [labels |-> Append(r.labels, e), count |-> r.count]
  BY <1>1
<1>5. [r EXCEPT !.labels = Append(r.labels, e)] \in Reads(txt)
  BY <1>1, <1>3, <1>4 DEF Reads, E
<1>. QED
  BY <1>5 DEF WithName, e

LEMMA AfterLineRead ==
    ASSUME NEW txt, IsText(txt), NEW p \in Starts(txt), NEW r \in Reads(txt)
    PROVE  AfterLine(txt, p, r) \in Reads(txt)
<1>1. CASE TrimmedText(txt, p)[1].is = "semicolon"
  BY <1>1 DEF AfterLine
<1>2. CASE TrimmedText(txt, p)[1].is # "semicolon" /\ NamesIn(TrimmedText(txt, p)) # {}
  <2>. DEFINE c == CHOOSE c : c \in NamesIn(TrimmedText(txt, p))
  <2>1. c \in Found(txt)
    BY <1>2, NamesAreFound
  <2>2. AfterLine(txt, p, r) = WithName(r, c)
    BY <1>2 DEF AfterLine
  <2>. QED
    BY <2>1, <2>2, WithNameRead
<1>3. CASE TrimmedText(txt, p)[1].is # "semicolon" /\ NamesIn(TrimmedText(txt, p)) = {}
  BY <1>3 DEF AfterLine, Reads
<1>. QED
  BY <1>1, <1>2, <1>3

LEMMA ReadingFound == ASSUME NEW txt, IsText(txt) PROVE IsReading(txt, Reading(txt))
<1>. DEFINE n == Len(txt)
            S == Reads(txt)
            h == [k \in 1 .. n |-> [r \in S |-> IF k - 1 \in Starts(txt) THEN AfterLine(txt, k - 1, r) ELSE r]]
<1>1. n \in Nat
  BY DEF IsText
<1>2. ASSUME NEW k \in 1 .. n, NEW r \in S
      PROVE  (IF k - 1 \in Starts(txt) THEN AfterLine(txt, k - 1, r) ELSE r) \in S
  BY AfterLineRead
<1>3. NothingRead \in S
  BY DEF NothingRead, Reads
<1>. HIDE DEF S
<1>4. /\ h \in [1 .. n -> [S -> S]]
      /\ \A k \in 1 .. n : \A r \in S :
            h[k][r] = IF k - 1 \in Starts(txt) THEN AfterLine(txt, k - 1, r) ELSE r
  BY <1>2
<1>. HIDE DEF h
<1>5. PICK f \in [0 .. n -> S] : Recursion(f, NothingRead, h, n)
  BY <1>1, <1>3, <1>4, RecursionExists
<1>6. ASSUME NEW k \in 1 .. n
      PROVE  f[k] = IF k - 1 \in Starts(txt) THEN AfterLine(txt, k - 1, f[k - 1]) ELSE f[k - 1]
  <2>1. k - 1 \in 0 .. n
    BY <1>1
  <2>2. f[k] = h[k][f[k - 1]] /\ f[k - 1] \in S
    BY <1>5, <2>1 DEF Recursion
  <2>. QED
    BY <1>4, <2>2
<1>7. IsReading(txt, f)
  BY <1>5, <1>6 DEF Recursion, IsReading, S
<1>. QED
  BY <1>7 DEF Reading

\* The reading goes on line by line.
LEMMA ReadingOn ==
    ASSUME NEW txt, IsText(txt), NEW p \in Starts(txt)
    PROVE  /\ Reading(txt)[LineEnd(txt, p)] = AfterLine(txt, p, Reading(txt)[p])
           /\ Reading(txt)[p] \in Reads(txt)
<1>. DEFINE n == Len(txt)
            f == Reading(txt)
            e == LineEnd(txt, p)
            r == AfterLine(txt, p, f[p])
            S == {k \in Nat : p + 1 + k <= e => f[p + 1 + k] = r}
<1>1. n \in Nat /\ p \in 0 .. n /\ p # n /\ p < n
  BY DEF IsText, Starts
<1>2. e \in p + 1 .. n /\ \A k \in p + 1 .. e - 1 : k \notin Starts(txt)
  <2>1. e \in p .. n /\ e > p /\ \A k \in p + 1 .. e - 1 : k \notin Starts(txt)
    BY <1>1, LineEndFound
  <2>. HIDE DEF e
  <2>. QED
    BY <1>1, <2>1
<1>3. /\ f \in [0 .. n -> Reads(txt)]
      /\ \A k \in 1 .. n :
            f[k] = IF k - 1 \in Starts(txt) THEN AfterLine(txt, k - 1, f[k - 1]) ELSE f[k - 1]
  BY ReadingFound DEF IsReading
<1>. HIDE DEF f, e
<1>4. f[p + 1] = r
  <2>1. p + 1 \in 1 .. n /\ (p + 1) - 1 = p
    BY <1>1
  <2>. QED
    BY <1>3, <2>1
<1>. HIDE DEF r
<1>5. 0 \in S
  <2>1. p + 1 + 0 = p + 1
    BY <1>1
  <2>. QED
    BY <1>4, <2>1
<1>6. ASSUME NEW k \in Nat, k \in S PROVE k + 1 \in S
  <2>. SUFFICES ASSUME p + 1 + (k + 1) <= e PROVE f[p + 1 + (k + 1)] = r
    OBVIOUS
  <2>. DEFINE m == p + 1 + (k + 1)
  <2>1. m \in 1 .. n /\ m - 1 = p + 1 + k /\ m - 1 \in p + 1 .. e - 1 /\ p + 1 + k <= e
    BY <1>1, <1>2
  <2>2. f[m] = f[m - 1]
    <3>. HIDE DEF m
    <3>. QED
      BY <1>2, <1>3, <2>1
  <2>3. f[p + 1 + k] = r
    BY <1>6, <2>1
  <2>. HIDE DEF m
  <2>4. f[m] = r
    BY <2>1, <2>2, <2>3
  <2>. QED
    BY <2>4 DEF m
<1>7. Nat \subseteq S
  <2>. HIDE DEF S
  <2>. QED
    BY <1>5, <1>6, SetInduction
<1>8. e - (p + 1) \in Nat /\ p + 1 + (e - (p + 1)) = e
  BY <1>1, <1>2
<1>9. f[e] = r
  <2>. DEFINE k == e - (p + 1)
  <2>1. k \in Nat /\ p + 1 + k = e /\ e <= e
    BY <1>1, <1>2, <1>8
  <2>. HIDE DEF k
  <2>2. p + 1 + k <= e => f[p + 1 + k] = r
    BY <1>7, <2>1
  <2>3. p + 1 + k <= e
    BY <1>1, <1>2, <2>1
  <2>4. f[p + 1 + k] = r
    BY <2>2, <2>3
  <2>. QED
    BY <2>1, <2>4
<1>. QED
  BY <1>1, <1>3, <1>9 DEF f, e, r

\* No more instructions are counted than there are characters.
Counted(f, k) == f[k].count <= k /\ \A i \in 1 .. Len(f[k].labels) : f[k].labels[i].count < k

LEMMA WithNameCases ==
    ASSUME NEW txt, NEW r \in Reads(txt), NEW c, NEW q, q = WithName(r, c)
    PROVE  /\ q.count = r.count /\ Len(r.labels) \in Nat /\ DOMAIN r.labels = 1 .. Len(r.labels)
           /\ \/ /\ q = r
                 /\ Len(r.labels) >= MaxSymbols \/ \E k \in 1 .. Len(r.labels) : r.labels[k].label = c
              \/ /\ Len(q.labels) = Len(r.labels) + 1
                 /\ q.labels = Append(r.labels, [label |-> c, count |-> r.count])
                 /\ q.labels[Len(r.labels) + 1] = [label |-> c, count |-> r.count]
                 /\ \A i \in 1 .. Len(r.labels) : q.labels[i] = r.labels[i]
                 /\ ~(Len(r.labels) >= MaxSymbols)
                 /\ \A k \in 1 .. Len(r.labels) : r.labels[k].label # c
<1>. DEFINE E == [label : Found(txt), count : Nat]
            e == [label |-> c, count |-> r.count]
<1>1. r = [labels |-> r.labels, count |-> r.count] /\ r.labels \in Seq(E) /\ r.count \in Nat
  BY DEF Reads
<1>. HIDE DEF E
<1>2. Len(r.labels) \in Nat /\ DOMAIN r.labels = 1 .. Len(r.labels)
  BY <1>1
<1>3. CASE Len(r.labels) >= MaxSymbols \/ \E k \in DOMAIN r.labels : r.labels[k].label = c
  BY <1>2, <1>3 DEF WithName
<1>4. CASE ~(Len(r.labels) >= MaxSymbols \/ \E k \in DOMAIN r.labels : r.labels[k].label = c)
  <2>1. q = [r EXCEPT !.labels = Append(r.labels, e)]
    BY <1>4 DEF WithName
  <2>. HIDE DEF e
  <2>2. q.labels = Append(r.labels, e) /\ q.count = r.count
    BY <1>1, <2>1
  <2>3. /\ Len(Append(r.labels, e)) = Len(r.labels) + 1
        /\ Append(r.labels, e)[Len(r.labels) + 1] = e
        /\ \A i \in 1 .. Len(r.labels) : Append(r.labels, e)[i] = r.labels[i]
    <3>. DEFINE T == E \union {e}
    <3>1. r.labels \in Seq(T) /\ e \in T
      BY <1>1
    <3>. HIDE DEF T
    <3>. QED
      BY <3>1
  <2>. QED
    BY <1>2, <1>4, <2>2, <2>3 DEF e
<1>. QED
  BY <1>3, <1>4

LEMMA ReadingCounted == ASSUME NEW txt, IsText(txt), NEW k \in 0 .. Len(txt) PROVE Counted(Reading(txt), k)
<1>. DEFINE n == Len(txt)
            f == Reading(txt)
            S == {j \in Nat : j <= n => Counted(f, j)}
<1>1. n \in Nat
  BY DEF IsText
<1>2. /\ f \in [0 .. n -> Reads(txt)] /\ f[0] = NothingRead
      /\ \A j \in 1 .. n :
            f[j] = IF j - 1 \in Starts(txt) THEN AfterLine(txt, j - 1, f[j - 1]) ELSE f[j - 1]
  BY ReadingFound DEF IsReading
<1>. HIDE DEF f
<1>3. 0 \in S
  <2>1. Counted(f, 0)
    BY <1>2 DEF Counted, NothingRead
  <2>. QED
    BY <2>1
<1>4. ASSUME NEW j \in Nat, j \in S PROVE j + 1 \in S
  <2>. SUFFICES ASSUME j + 1 <= n PROVE Counted(f, j + 1)
    OBVIOUS
  <2>. DEFINE r == f[j]
  <2>1. j \in 0 .. n /\ j + 1 \in 1 .. n /\ (j + 1) - 1 = j /\ j <= n /\ j + 1 \in 0 .. n
    BY <1>1
  <2>2. r \in Reads(txt) /\ r.count \in Nat /\ r.count <= j
        /\ \A i \in 1 .. Len(r.labels) : r.labels[i].count < j
    BY <1>2, <1>4, <2>1 DEF Counted, Reads
  <2>. DEFINE E == [label : Found(txt), count : Nat]
  <2>3. \A i \in 1 .. Len(r.labels) : r.labels[i].count \in Nat
    <3>1. r.labels \in Seq(E) /\ \A e \in E : e.count \in Nat
      BY <2>2 DEF Reads
    <3>. HIDE DEF E, r
    <3>2. \A i \in 1 .. Len(r.labels) : r.labels[i] \in E
      BY <3>1
    <3>. QED
      BY <3>1, <3>2
  <2>4. f[j + 1] = IF j \in Starts(txt) THEN AfterLine(txt, j, r) ELSE r
    BY <1>2, <2>1
  <2>. DEFINE q == f[j + 1]
  <2>5. q = r \/ q = [r EXCEPT !.count = r.count + 1] \/ \E c : q = WithName(r, c)
    BY <2>4 DEF AfterLine
  <2>. HIDE DEF r, q
  <2>6. CASE q = r
    <3>1. q.count <= j + 1 /\ \A i \in 1 .. Len(q.labels) : q.labels[i].count < j + 1
      BY <2>2, <2>3, <2>6
    <3>. QED
      BY <3>1 DEF Counted, q
  <2>7. CASE q = [r EXCEPT !.count = r.count + 1]
    <3>1. q.count = r.count + 1 /\ q.labels = r.labels
      BY <2>2, <2>7 DEF Reads
    <3>2. q.count <= j + 1 /\ \A i \in 1 .. Len(q.labels) : q.labels[i].count < j + 1
      BY <2>2, <2>3, <3>1
    <3>. QED
      BY <3>2 DEF Counted, q
  <2>8. CASE \E c : q = WithName(r, c)
    <3>1. PICK c : q = WithName(r, c)
      BY <2>8
    <3>. DEFINE m == Len(r.labels)
    <3>2. /\ q.count = r.count /\ m \in Nat
          /\ \/ q = r
             \/ /\ Len(q.labels) = m + 1
                /\ q.labels[m + 1] = [label |-> c, count |-> r.count]
                /\ \A i \in 1 .. m : q.labels[i] = r.labels[i]
      BY <2>2, <3>1, WithNameCases
    <3>. HIDE DEF m
    <3>3. q # r => \A i \in 1 .. Len(q.labels) : i \in 1 .. m \/ i = m + 1
      BY <3>2
    <3>4. \A i \in 1 .. Len(q.labels) : q.labels[i].count < j + 1
      <4>1. CASE q = r
        BY <2>2, <2>3, <4>1
      <4>2. CASE q # r
        <5>. SUFFICES ASSUME NEW i \in 1 .. Len(q.labels) PROVE q.labels[i].count < j + 1
          OBVIOUS
        <5>1. CASE i \in 1 .. m
          <6>1. q.labels[i] = r.labels[i]
            BY <3>2, <4>2, <5>1
          <6>. QED
            BY <2>2, <2>3, <5>1, <6>1 DEF m
        <5>2. CASE i = m + 1
          <6>1. q.labels[i].count = r.count
            BY <3>2, <4>2, <5>2
          <6>. QED
            BY <2>2, <2>3, <6>1
        <5>. QED
          BY <3>3, <4>2, <5>1, <5>2
      <4>. QED
        BY <4>1, <4>2
    <3>5. q.count <= j + 1
      BY <2>2, <3>2
    <3>. QED
      BY <3>4, <3>5 DEF Counted, q
  <2>. QED
    BY <2>5, <2>6, <2>7, <2>8
<1>5. Nat \subseteq S
  <2>. HIDE DEF S
  <2>. QED
    BY <1>3, <1>4, SetInduction
<1>. QED
  BY <1>1, <1>5 DEF f

----------------------------------------------------------------------------
(* The parser and the tool, each between two lines of a tidy text.         *)

Edges(txt) == Starts(txt) \union {Len(txt)}

Between(txt, lx) ==
    /\ lx.position \in Edges(txt)
    /\ lx = LexerAt(lx.position) \/ (lx \in Looked(txt) /\ LineEnds(lx))

\* The next statement, and what the reading of the text makes of it.
GoesOn(txt, lx, s) ==
    LET f == Reading(txt)
        r == f[lx.position]
    IN  \/ s.what.kind = "newline" /\ Between(txt, s.lexer) /\ f[s.lexer.position] = r
        \/ s.what.kind = "end" /\ f[Len(txt)] = r
        \/ /\ s.what.kind = "label" /\ Between(txt, s.lexer)
           /\ f[s.lexer.position] = WithName(r, Name(s.what.name))
        \/ /\ s.what.kind = "instruction" /\ Between(txt, s.lexer)
           /\ f[s.lexer.position] = [r EXCEPT !.count = r.count + 1]

LEMMA EndRead == ASSUME IsText(text) PROVE StatementAt(text, LexerAt(Len(text))).what.kind = "end"
<1>. DEFINE n == Len(text)
            l == Scanned(text, Skip(text, n))
<1>1. n \in Nat /\ n \in 0 .. n
  BY DEF IsText
<1>2. Skip(text, n) = n
  <2>1. Skip(text, n) \in n .. n
    BY <1>1, SkipFound
  <2>. QED
    BY <1>1, <2>1
<1>3. l.token.type = "EOF" /\ l \in Looked(text)
  BY <1>1, <1>2, ScannedOn, LookedAt
<1>4. StatementAt(text, LexerAt(n)) = StatementFrom(text, l)
  BY DEF StatementAt, Peek, LexerAt
<1>. HIDE DEF l, n
<1>5. StatementFrom(text, l).what.kind = "end"
  BY <1>3, StatementRules
<1>. QED
  BY <1>4, <1>5 DEF n

LEMMA EndAtEnd ==
    ASSUME IsText(text), NEW l \in Looked(text), l.token.type = "EOF"
    PROVE  l.position = Len(text)
<1>1. PICK p \in 0 .. Len(text) : l = Scanned(text, p)
  BY DEF Looked
<1>2. p = Len(text) /\ l.position \in p .. Len(text) /\ Len(text) \in Nat
  BY <1>1, ScannedOn DEF IsText
<1>. QED
  BY <1>2

LEMMA NextRead ==
    ASSUME IsText(text), TidyText, NEW lx, Between(text, lx), NEW s, s = StatementAt(text, lx)
    PROVE  GoesOn(text, lx, s)
<1>. DEFINE f == Reading(text)
            p == lx.position
            e == LineEnd(text, p)
            r == f[p]
<1>1. Len(text) \in Nat /\ p \in 0 .. Len(text) /\ e \in Edges(text)
  <2>1. Len(text) \in Nat /\ p \in 0 .. Len(text)
    BY DEF Between, IsText, Edges, Starts
  <2>. QED
    BY <2>1, LineEndFound DEF Edges
<1>2. CASE lx \in Looked(text) /\ LineEnds(lx)
  <2>1. s = StatementFrom(text, lx)
    BY <1>2, LookedFacts DEF StatementAt
  <2>2. CASE lx.token.type = "EOF"
    <3>1. s.what.kind = "end" /\ p = Len(text)
      BY <1>2, <2>1, <2>2, StatementRules, EndAtEnd
    <3>. QED
      BY <3>1 DEF GoesOn
  <2>3. CASE lx.token.type = "NEWLINE"
    <3>1. s.what.kind = "newline" /\ s.lexer = LexerAt(p)
      BY <1>2, <2>1, <2>3, StatementRules
    <3>2. s.lexer.position = p
      BY <3>1 DEF LexerAt
    <3>3. Between(text, s.lexer)
      BY <3>1, <3>2 DEF Between
    <3>. QED
      BY <3>1, <3>2, <3>3 DEF GoesOn
  <2>. QED
    BY <1>2, <2>2, <2>3 DEF LineEnds
<1>3. CASE lx = LexerAt(p) /\ p = Len(text)
  <2>1. s.what.kind = "end"
    BY <1>3, EndRead
  <2>. QED
    BY <1>3, <2>1 DEF GoesOn
<1>4. CASE lx = LexerAt(p) /\ p # Len(text)
  <2>1. p \in Starts(text) /\ p \in LineStarts
    BY <1>4 DEF Between, Edges, Starts, LineStarts
  <2>2. CommentIs(p, s) \/ LabelIs(p, s) \/ InstructionIs(p, s)
    BY <1>4, <2>1, TidyRead
  <2>3. f[e] = AfterLine(text, p, r)
    BY <2>1, ReadingOn
  <2>. HIDE DEF f, e, r
  <2>4. CASE CommentIs(p, s)
    <3>1. f[e] = r
      BY <2>3, <2>4 DEF AfterLine, CommentIs
    <3>2. s.what.kind = "newline" => s.lexer.position = e /\ Between(text, s.lexer)
      BY <1>1, <2>4 DEF CommentIs, LexerAt, Between, e
    <3>3. s.what.kind = "end" => e = Len(text)
      BY <2>4 DEF CommentIs, e
    <3>. QED
      BY <2>4, <3>1, <3>2, <3>3 DEF CommentIs, GoesOn, f, r
  <2>5. CASE LabelIs(p, s)
    <3>1. s.what.kind = "label" /\ s.lexer.position = e /\ Between(text, s.lexer)
      BY <1>1, <2>5 DEF LabelIs, LineIs, Between, e
    <3>2. NamesIn(TrimmedText(text, p)) = {Name(s.what.name)} /\ TrimmedText(text, p)[1].is # "semicolon"
      BY <2>5 DEF LabelIs, LineIs
    <3>3. (CHOOSE c : c \in NamesIn(TrimmedText(text, p))) = Name(s.what.name)
      BY <3>2
    <3>4. f[e] = WithName(r, Name(s.what.name))
      BY <2>3, <3>2, <3>3 DEF AfterLine
    <3>. QED
      BY <3>1, <3>4 DEF GoesOn, f, r
  <2>6. CASE InstructionIs(p, s)
    <3>1. s.what.kind = "instruction" /\ s.lexer.position = e /\ Between(text, s.lexer)
      BY <1>1, <2>6 DEF InstructionIs, LineIs, Between, e
    <3>2. f[e] = [r EXCEPT !.count = r.count + 1]
      BY <2>3, <2>6 DEF AfterLine, InstructionIs, LineIs
    <3>. QED
      BY <3>1, <3>2 DEF GoesOn, f, r
  <2>. QED
    BY <2>2, <2>4, <2>5, <2>6
<1>. QED
  BY <1>2, <1>3, <1>4 DEF Between

\* A symbol table that starts with the labels, and has no other.
Holds(symbols, ls) ==
    /\ Len(ls) <= Len(symbols)
    /\ \A k \in 1 .. Len(ls) :
          symbols[k].type = "LABEL" /\ Name(symbols[k].name) = ls[k].label /\ symbols[k].address = ls[k].count
    /\ \A k \in Len(ls) + 1 .. Len(symbols) : symbols[k].type # "LABEL"

LEMMA LabelAdded ==
    ASSUME NamesFit, NEW t, TableInv(t), NEW n \in Names, NEW txt, NEW r \in Reads(txt),
           Len(t.symbols) = Len(r.labels), Holds(t.symbols, r.labels),
           NEW u, u = AfterDefineLabel(t, n, r.count), NEW q, q = WithName(r, Name(n))
    PROVE  Len(u.symbols) = Len(q.labels) /\ Holds(u.symbols, q.labels)
<1>. DEFINE m == Len(r.labels)
            s == [name |-> n, type |-> "LABEL", address |-> r.count, text |-> <<>>]
            c == Name(n)
            T == Seq(Byte)
<1>1. Shape(T, t) /\ t.symbols \in Seq(Entry(T)) /\ r.count \in Nat
  BY DEF TableInv, Shape, Reads
<1>2. /\ s \in Entry(T)
      /\ Added(t, n) => u.symbols = Append(t.symbols, s)
      /\ ~Added(t, n) => u.symbols = t.symbols
  <2>1. Stored[n] = n /\ "LABEL" \in SymbolType /\ <<>> \in T \union {<<>>}
    BY DEF NamesFit, SymbolType
  <2>2. u = AfterAdd(t, n, "LABEL", r.count, <<>>)
    BY DEF AfterDefineLabel
  <2>. HIDE DEF T
  <2>. QED
    BY <1>1, <2>1, <2>2, AddCases
<1>3. Added(t, n) <=> ~Full(t) /\ Matches(t, n) = {}
  BY <1>1, AddedIff
<1>4. /\ m \in Nat /\ q.count = r.count
      /\ \/ /\ q = r
            /\ m >= MaxSymbols \/ \E k \in 1 .. m : r.labels[k].label = c
         \/ /\ Len(q.labels) = m + 1
            /\ q.labels[m + 1] = [label |-> c, count |-> r.count]
            /\ \A i \in 1 .. m : q.labels[i] = r.labels[i]
            /\ ~(m >= MaxSymbols)
            /\ \A k \in 1 .. m : r.labels[k].label # c
  <2>. HIDE DEF c
  <2>. QED
    BY WithNameCases DEF c
<1>5. \A k \in 1 .. m : t.symbols[k].name = n <=> r.labels[k].label = c
  <2>1. \A k \in 1 .. m : Name(t.symbols[k].name) = r.labels[k].label
    BY DEF Holds
  <2>2. \A a, b : Name(a) = Name(b) => a = b
    <3>1. \A a : Name(a).word = a
      BY DEF Name
    <3>. QED
      BY <3>1
  <2>. QED
    BY <2>1, <2>2
<1>6. Full(t) <=> m >= MaxSymbols
  BY DEF Full
<1>7. Matches(t, n) = {} <=> \A k \in 1 .. m : r.labels[k].label # c
  BY <1>5 DEF Matches
<1>. HIDE DEF m, c, s
<1>8. CASE ~Added(t, n)
  <2>1. q = r /\ u.symbols = t.symbols
    BY <1>2, <1>3, <1>4, <1>6, <1>7, <1>8
  <2>. QED
    BY <2>1
<1>9. CASE Added(t, n)
  <2>1. /\ Len(q.labels) = m + 1
        /\ q.labels[m + 1] = [label |-> c, count |-> r.count]
        /\ \A i \in 1 .. m : q.labels[i] = r.labels[i]
    BY <1>3, <1>4, <1>6, <1>7, <1>9
  <2>2. /\ Len(u.symbols) = m + 1 /\ u.symbols[m + 1] = s
        /\ \A i \in 1 .. m : u.symbols[i] = t.symbols[i]
    BY <1>1, <1>2, <1>9 DEF m
  <2>3. \A k \in 1 .. Len(q.labels) : k \in 1 .. m \/ k = m + 1
    BY <1>4, <2>1
  <2>4. \A k \in Len(q.labels) + 1 .. Len(u.symbols) : FALSE
    BY <1>4, <2>1, <2>2
  <2>5. s.type = "LABEL" /\ Name(s.name) = c /\ s.address = r.count
    BY DEF s, c
  <2>6. \A k \in 1 .. m : /\ t.symbols[k].type = "LABEL" /\ Name(t.symbols[k].name) = r.labels[k].label
                          /\ t.symbols[k].address = r.labels[k].count
    BY DEF Holds, m
  <2>7. \A k \in 1 .. Len(q.labels) :
           /\ u.symbols[k].type = "LABEL" /\ Name(u.symbols[k].name) = q.labels[k].label
           /\ u.symbols[k].address = q.labels[k].count
    BY <2>1, <2>2, <2>3, <2>5, <2>6
  <2>8. Len(q.labels) <= Len(u.symbols)
    BY <1>4, <2>1, <2>2
  <2>. QED
    BY <2>1, <2>2, <2>4, <2>7, <2>8 DEF Holds
<1>. QED
  BY <1>8, <1>9

\* Literals are put behind the labels.
LEMMA HoldsOn ==
    ASSUME NamesFit, NEW t, TableInv(t), NEW i, IsInstruction(i), NEW ls, Len(ls) \in Nat,
           Holds(t.symbols, ls), NEW u, u = AfterEncode(t, i)
    PROVE  Holds(u.symbols, ls)
<1>. DEFINE T == Seq(Byte)
            s == [name |-> LiteralName(i), type |-> "STRING",
                  address |-> t.next_string_addr, text |-> LastArg(i).string]
<1>1. t.symbols \in Seq(Entry(T)) /\ Len(t.symbols) \in Nat
  BY DEF TableInv, Shape
<1>2. u.symbols = t.symbols \/ (u.symbols = Append(t.symbols, s) /\ s \in Entry(T))
  BY EncodedSymbols
<1>3. s.type # "LABEL"
  OBVIOUS
<1>. HIDE DEF s, T
<1>4. CASE u.symbols = t.symbols
  BY <1>4
<1>5. CASE u.symbols = Append(t.symbols, s) /\ s \in Entry(T)
  <2>. DEFINE m == Len(t.symbols)
  <2>1. /\ Len(u.symbols) = m + 1 /\ u.symbols[m + 1] = s
        /\ \A k \in 1 .. m : u.symbols[k] = t.symbols[k]
    BY <1>1, <1>5
  <2>. HIDE DEF m
  <2>2. Len(ls) <= m /\ m \in Nat
    BY <1>1 DEF Holds, m
  <2>3. \A k \in 1 .. Len(ls) : k \in 1 .. m
    BY <2>2
  <2>4. \A k \in Len(ls) + 1 .. Len(u.symbols) : (k \in 1 .. m /\ k \in Len(ls) + 1 .. m) \/ k = m + 1
    BY <2>1, <2>2
  <2>5. /\ \A k \in 1 .. Len(ls) : /\ t.symbols[k].type = "LABEL"
                                   /\ Name(t.symbols[k].name) = ls[k].label
                                   /\ t.symbols[k].address = ls[k].count
        /\ \A k \in Len(ls) + 1 .. m : t.symbols[k].type # "LABEL"
    BY DEF Holds, m
  <2>6. Len(ls) <= Len(u.symbols)
    BY <2>1, <2>2
  <2>. QED
    BY <1>3, <2>1, <2>3, <2>4, <2>5, <2>6 DEF Holds
<1>. QED
  BY <1>2, <1>4, <1>5

\* In the first pass the table and the count are those of the reading up to
\* where the lexer is; after it the table starts with all labels of the text.
TableReads(txt, at, lx, symbols, count) ==
    /\ at = "pass1" =>
          /\ Between(txt, lx)
          /\ count = Reading(txt)[lx.position].count
          /\ Len(symbols) = Len(Reading(txt)[lx.position].labels)
          /\ Holds(symbols, Reading(txt)[lx.position].labels)
    /\ at \notin {"pass1", "failed"} => Holds(symbols, Reading(txt)[Len(txt)].labels)

ParserReads == TidyText => TableReads(text, stage, lexer, symbol_table.symbols, current_address)

LEMMA NameCounted == ASSUME NEW txt, NEW r \in Reads(txt), NEW c PROVE WithName(r, c).count = r.count
<1>. r = [labels |-> r.labels, count |-> r.count]
  BY DEF Reads
<1>. QED
  BY DEF WithName

LEMMA TidyKept == ASSUME text' = text, TidyText' PROVE TidyText
  BY DEF TidyText, LineStarts, TidyLine, TidyStatement, LexerAt

LEMMA FitKept == ASSUME text' = text, LinesFit' PROVE LinesFit
<1>1. File' = File
  BY FileKept
<1>. QED
  BY <1>1 DEF LinesFit

LEMMA ReadingTyped ==
    ASSUME NEW txt, IsText(txt), NEW p \in Edges(txt)
    PROVE  /\ p \in 0 .. Len(txt) /\ Reading(txt)[p] \in Reads(txt) /\ Reading(txt)[p].count \in Nat
           /\ Len(Reading(txt)[p].labels) \in Nat
<1>. DEFINE f == Reading(txt)
            E == [label : Found(txt), count : Nat]
<1>1. p \in 0 .. Len(txt) /\ f \in [0 .. Len(txt) -> Reads(txt)]
  BY ReadingFound DEF IsReading, Edges, Starts, IsText
<1>. HIDE DEF f
<1>2. f[p] \in Reads(txt)
  BY <1>1
<1>3. f[p].labels \in Seq(E) /\ f[p].count \in Nat
  BY <1>2 DEF Reads
<1>. HIDE DEF E
<1>4. Len(f[p].labels) \in Nat
  BY <1>3
<1>. QED
  BY <1>1, <1>2, <1>3, <1>4 DEF f

\* Nothing is read at first.
LEMMA EmptyReading ==
    ASSUME NEW txt, IsText(txt)
    PROVE  0 \in Edges(txt) /\ Reading(txt)[0] = NothingRead
<1>1. Len(txt) \in Nat
  BY DEF IsText
<1>2. 0 \in Edges(txt)
  <2>1. CASE Len(txt) = 0
    BY <2>1 DEF Edges
  <2>2. CASE Len(txt) # 0
    BY <1>1, <2>2 DEF Edges, Starts
  <2>. QED
    BY <2>1, <2>2
<1>. QED
  BY <1>2, ReadingFound DEF IsReading

LEMMA InitParserReads == ASSUME ParserInit PROVE ParserReads
<1>1. IsText(text)
  BY InitTextInv, TextFacts
<1>2. /\ stage = "pass1" /\ lexer = NewLexer /\ symbol_table = EmptySymbolTable /\ current_address = 0
  BY DEF ParserInit, AssemblerInit
<1>3. lexer.position = 0 /\ lexer = LexerAt(0) /\ symbol_table.symbols = <<>>
  BY <1>2 DEF NewLexer, LexerAt, EmptySymbolTable
<1>4. 0 \in Edges(text) /\ Reading(text)[0] = NothingRead
  BY <1>1, EmptyReading
<1>5. Between(text, lexer)
  BY <1>3, <1>4 DEF Between
<1>6. Holds(<<>>, <<>>) /\ Len(<<>>) = 0
  BY DEF Holds
<1>7. TableReads(text, stage, lexer, symbol_table.symbols, current_address)
  BY <1>2, <1>3, <1>4, <1>5, <1>6 DEF TableReads, NothingRead
<1>. QED
  BY <1>7 DEF ParserReads

\* The symbols after a statement of the first pass.
LEMMA FirstPassReads ==
    ASSUME DocumentsAreRead, NamesFit, AssemblerInv, TextInv, TidyText, ParserReads, stage = "pass1",
           ParseStatement(StatementAt(text, lexer))
    PROVE  TableReads(text, stage', lexer', symbol_table'.symbols, current_address')
<1>. DEFINE s == StatementAt(text, lexer)
            f == Reading(text)
            r == f[lexer.position]
            S == symbol_table.symbols
<1>1. IsText(text) /\ IsSource(source) /\ line \in 0 .. Len(source) /\ Len(source) \in Nat
      /\ stage \in Passes /\ TableInv(symbol_table) /\ text' = text
  <2>1. text' = text
    BY DEF ParseStatement, EmptyLine, LabelStatement, ConstantStatement, InstructionStatement,
           ErrorStatement, RewindText, TextParsed, NextStatement
  <2>. QED
    BY <2>1, TextFacts DEF AssemblerInv, AssemblerTypeOK, Passes
<1>2. Between(text, lexer) /\ current_address = r.count /\ Len(S) = Len(r.labels) /\ Holds(S, r.labels)
  BY DEF ParserReads, TableReads
<1>3. GoesOn(text, lexer, s)
  BY <1>1, <1>2, NextRead
<1>4. r \in Reads(text) /\ r.count \in Nat
  BY <1>1, <1>2, ReadingTyped DEF Between
<1>5. s.what.kind \notin {"newline", "end"} => line < Len(source) /\ s.what = source[line + 1]
  <2>1. s.what.kind # "newline" => s.what = IF line < Len(source) THEN source[line + 1] ELSE [kind |-> "end"]
    BY <1>1, StatementIsLine
  <2>. QED
    BY <2>1
<1>. HIDE DEF s, f, r
<1>6. CASE EmptyLine(s)
  <2>1. s.what.kind = "newline" /\ lexer' = s.lexer /\ UNCHANGED <<stage, symbol_table, current_address>>
    BY <1>6 DEF EmptyLine, asmVars
  <2>2. Between(text, lexer') /\ f[lexer'.position] = r
    BY <1>3, <2>1 DEF GoesOn, f, r
  <2>. QED
    BY <1>2, <2>1, <2>2 DEF TableReads, f, S
<1>7. CASE LabelStatement(s)
  <2>. DEFINE n == s.what.name
              q == WithName(r, Name(n))
  <2>1. /\ s.what.kind = "label" /\ lexer' = s.lexer /\ UNCHANGED <<stage, current_address>>
        /\ symbol_table' = AfterDefineLabel(symbol_table, n, current_address)
    BY <1>7 DEF LabelStatement, NextStatement, Defines, LabelAddress
  <2>2. Between(text, lexer') /\ f[lexer'.position] = q
    BY <1>3, <2>1 DEF GoesOn, f, r
  <2>3. n \in Names
    <3>1. line + 1 \in 1 .. Len(source) /\ s.what = source[line + 1] /\ source[line + 1].kind = "label"
      BY <1>1, <1>5, <2>1
    <3>. QED
      BY <1>1, <3>1 DEF IsSource
  <2>. HIDE DEF q
  <2>4. q.count = r.count
    BY <1>4, NameCounted DEF q
  <2>5. Len(symbol_table'.symbols) = Len(q.labels) /\ Holds(symbol_table'.symbols, q.labels)
    <3>. HIDE DEF n
    <3>. QED
      BY <1>1, <1>2, <1>4, <2>1, <2>3, LabelAdded DEF q
  <2>. QED
    BY <1>2, <2>1, <2>2, <2>4, <2>5 DEF TableReads, f
<1>8. CASE InstructionStatement(s)
  <2>1. /\ s.what.kind = "instruction" /\ lexer' = s.lexer /\ UNCHANGED <<stage, symbol_table>>
        /\ current_address' = current_address + 1
    BY <1>8 DEF InstructionStatement, NextStatement, Counts, Emits, Overflows
  <2>2. Between(text, lexer') /\ f[lexer'.position] = [r EXCEPT !.count = r.count + 1]
    BY <1>3, <2>1 DEF GoesOn, f, r
  <2>3. f[lexer'.position].count = r.count + 1 /\ f[lexer'.position].labels = r.labels
    BY <1>4, <2>2 DEF Reads
  <2>. QED
    BY <1>2, <2>1, <2>2, <2>3 DEF TableReads, f, S
<1>9. CASE RewindText(s)
  <2>1. /\ s.what.kind \in {"end", "other"} /\ stage' = "pass2" /\ symbol_table' = symbol_table
    BY <1>9 DEF RewindText, TextEnds, StartsSecondPass
  <2>2. f[Len(text)] = r
    BY <1>3, <2>1 DEF GoesOn, f, r
  <2>. QED
    BY <1>2, <2>1, <2>2 DEF TableReads, f, S
<1>10. ~ConstantStatement(s) /\ ~ErrorStatement(s) /\ ~TextParsed(s)
  <2>1. s.what.kind \in {"newline", "end", "label", "instruction"}
    BY <1>3 DEF GoesOn
  <2>. QED
    BY <2>1 DEF ConstantStatement, ErrorStatement, TextParsed, EndsSecondPass
<1>. QED
  BY <1>6, <1>7, <1>8, <1>9, <1>10 DEF ParseStatement, s

\* The symbols after a statement of the second.
LEMMA SecondPassReads ==
    ASSUME DocumentsAreRead, NamesFit, AssemblerInv, TextInv, TidyText, ParserReads, stage = "pass2",
           ParseStatement(StatementAt(text, lexer))
    PROVE  TableReads(text, stage', lexer', symbol_table'.symbols, current_address')
<1>. DEFINE s  == StatementAt(text, lexer)
            ls == Reading(text)[Len(text)].labels
<1>1. IsText(text) /\ IsSource(source) /\ line \in 0 .. Len(source) /\ Len(source) \in Nat
      /\ stage \in Passes /\ TableInv(symbol_table) /\ stage \notin {"pass1", "failed"}
  BY TextFacts DEF AssemblerInv, AssemblerTypeOK, Passes
<1>2. Holds(symbol_table.symbols, ls)
  BY <1>1 DEF ParserReads, TableReads
<1>3. Len(ls) \in Nat
  BY <1>1, ReadingTyped DEF Edges
<1>4. stage' # "pass1"
  BY DEF ParseStatement, EmptyLine, LabelStatement, ConstantStatement, InstructionStatement, ErrorStatement,
         RewindText, TextParsed, Defines, Counts, Emits, Overflows, Fails, StartsSecondPass, EndsSecondPass, asmVars
<1>5. \/ stage' = "failed" \/ symbol_table' = symbol_table
      \/ s.what.kind = "instruction" /\ symbol_table' = AfterEncode(symbol_table, s.what.instruction)
  <2>. HIDE DEF s
  <2>. QED
    BY DEF s, ParseStatement, EmptyLine, LabelStatement, ConstantStatement, InstructionStatement,
           ErrorStatement, RewindText, TextParsed, Defines, Counts, Emits, Overflows, Fails,
           StartsSecondPass, EndsSecondPass, asmVars
<1>6. stage' = "failed" \/ Holds(symbol_table'.symbols, ls)
  <2>1. CASE symbol_table' = symbol_table
    BY <1>2, <2>1
  <2>2. CASE s.what.kind = "instruction" /\ symbol_table' = AfterEncode(symbol_table, s.what.instruction)
    <3>1. s.what = IF line < Len(source) THEN source[line + 1] ELSE [kind |-> "end"]
      BY <1>1, <2>2, StatementIsLine
    <3>. HIDE DEF s, ls
    <3>2. line + 1 \in 1 .. Len(source) /\ s.what = source[line + 1]
      BY <1>1, <2>2, <3>1
    <3>3. IsInstruction(s.what.instruction)
      BY <1>1, <2>2, <3>2 DEF IsSource
    <3>. QED
      BY <1>1, <1>2, <1>3, <2>2, <3>3, HoldsOn
  <2>. QED
    BY <1>5, <2>1, <2>2
<1>. QED
  BY <1>4, <1>6 DEF TableReads

LEMMA ParserReadsOn ==
    ASSUME DocumentsAreRead, NamesFit, AssemblerInv, TextInv, ParserReads, [ParserNext]_textVars, text' = text
    PROVE  ParserReads'
<1>. SUFFICES ASSUME TidyText' PROVE TableReads(text, stage', lexer', symbol_table'.symbols, current_address')
  BY DEF ParserReads
<1>1. TidyText
  BY TidyKept
<1>2. CASE ParseStatement(StatementAt(text, lexer))
  <2>1. stage \in {"pass1", "pass2"}
    BY <1>2 DEF ParseStatement, Passes
  <2>. QED
    BY <1>1, <1>2, <2>1, FirstPassReads, SecondPassReads
<1>3. CASE AfterParse
  <2>1. /\ stage \notin {"pass1", "failed"} /\ stage' # "pass1" /\ symbol_table' = symbol_table
    BY <1>3 DEF AfterParse, CopyString, CopyAborts, StringsTooLong, OtherSymbol, StringsDone, WriteFile, AtString
  <2>. QED
    BY <1>1, <2>1 DEF ParserReads, TableReads
<1>4. CASE UNCHANGED textVars
  <2>1. UNCHANGED <<stage, lexer, symbol_table, current_address>>
    BY <1>4 DEF textVars, asmVars
  <2>. QED
    BY <1>1, <2>1 DEF ParserReads
<1>. QED
  BY <1>2, <1>3, <1>4 DEF ParserNext, AssembleText, ParserExited

\* There is a file only when the assembler has written it.
WrittenInv == output_file.exists => stage = "written"

LEMMA WrittenOn == ASSUME WrittenInv, [ParserNext]_textVars PROVE WrittenInv'
<1>1. CASE stage = "written"
  <2>1. UNCHANGED textVars
    BY <1>1, ParserRests DEF Ended
  <2>. QED
    BY <2>1 DEF WrittenInv, textVars, asmVars
<1>2. CASE stage # "written"
  <2>1. stage' = "written" \/ output_file' = output_file
    BY DEF ParserNext, AssembleText, ParserExited, AfterParse, ParseStatement, EmptyLine, LabelStatement,
           ConstantStatement, InstructionStatement, ErrorStatement, RewindText, TextParsed, Defines, Counts,
           Emits, Overflows, Fails, StartsSecondPass, EndsSecondPass, CopyString, CopyAborts, StringsTooLong,
           OtherSymbol, StringsDone, WriteFile, textVars, asmVars
  <2>. QED
    BY <1>2, <2>1 DEF WrittenInv
<1>. QED
  BY <1>1, <1>2

\* The tool's symbols for these labels.
Listed(ls) == [k \in 1 .. Len(ls) |-> [label |-> Written(ls[k].label), address |-> 4 * ls[k].count]]

LEMMA LabelListed ==
    ASSUME NEW txt, IsWritten(txt), NEW r \in Reads(txt), \E T : labels \in Seq(T), labels = Listed(r.labels),
           address = 4 * r.count, NEW c \in Found(txt), NEW q, q = WithName(r, c)
    PROVE  WithLabel(Written(c)) = Listed(q.labels)
<1>. DEFINE m == Len(r.labels)
            w == Written(c)
            e == [label |-> w, address |-> address]
<1>0. \A k \in 1 .. Len(r.labels) : Written(r.labels[k].label) = w <=> r.labels[k].label = c
  <2>1. ASSUME NEW k \in 1 .. Len(r.labels) PROVE r.labels[k].label \in Found(txt)
    <3>. DEFINE E == [label : Found(txt), count : Nat]
    <3>1. r.labels \in Seq(E)
      BY DEF Reads
    <3>. HIDE DEF E
    <3>2. r.labels[k] \in E
      BY <3>1
    <3>. QED
      BY <3>2 DEF E
  <2>2. \A d \in Found(txt) : Written(d) = w => d = c
    BY DEF Found, IsWritten
  <2>. QED
    BY <2>1, <2>2
<1>1. /\ m \in Nat
      /\ \/ /\ q = r
            /\ m >= MaxSymbols \/ \E k \in 1 .. m : r.labels[k].label = c
         \/ /\ Len(q.labels) = m + 1
            /\ q.labels[m + 1] = [label |-> c, count |-> r.count]
            /\ \A i \in 1 .. m : q.labels[i] = r.labels[i]
            /\ ~(m >= MaxSymbols)
            /\ \A k \in 1 .. m : r.labels[k].label # c
  BY WithNameCases
<1>2. /\ DOMAIN labels = 1 .. m
      /\ \A k \in 1 .. m : labels[k] = [label |-> Written(r.labels[k].label), address |-> 4 * r.labels[k].count]
  BY DEF Listed
<1>3. Len(labels) = m /\ \A k \in 1 .. m : labels[k].label = Written(r.labels[k].label)
  <2>1. PICK T : labels \in Seq(T)
    OBVIOUS
  <2>. DEFINE n == Len(labels)
  <2>2. n \in Nat /\ DOMAIN labels = 1 .. n
    BY <2>1
  <2>. HIDE DEF m, n
  <2>3. 1 .. n = 1 .. m
    BY <1>2, <2>2
  <2>4. n = m
    <3>1. n # 0 => n \in 1 .. n
      BY <2>2
    <3>2. m # 0 => m \in 1 .. m
      BY <1>1
    <3>. QED
      BY <1>1, <2>2, <2>3, <3>1, <3>2
  <2>5. ASSUME NEW k \in 1 .. m PROVE labels[k].label = Written(r.labels[k].label)
    <3>1. labels[k] = [label |-> Written(r.labels[k].label), address |-> 4 * r.labels[k].count]
      BY <1>2
    <3>. QED
      BY <3>1
  <2>. QED
    BY <2>4, <2>5 DEF n
<1>. HIDE DEF m, e, w
<1>4. CASE q = r /\ (m >= MaxSymbols \/ \E k \in 1 .. m : r.labels[k].label = c)
  <2>1. WithLabel(w) = labels
    BY <1>0, <1>2, <1>3, <1>4 DEF WithLabel, m
  <2>. QED
    BY <1>4, <2>1 DEF w
<1>5. CASE /\ Len(q.labels) = m + 1
           /\ q.labels[m + 1] = [label |-> c, count |-> r.count]
           /\ \A i \in 1 .. m : q.labels[i] = r.labels[i]
           /\ ~(m >= MaxSymbols)
           /\ \A k \in 1 .. m : r.labels[k].label # c
  <2>. DEFINE a == Append(labels, e)
              b == Listed(q.labels)
  <2>1. WithLabel(w) = a
    BY <1>0, <1>2, <1>3, <1>5 DEF WithLabel, e, m
  <2>2. PICK T : labels \in Seq(T)
    OBVIOUS
  <2>3. /\ DOMAIN b = 1 .. m + 1 /\ b = [k \in 1 .. m + 1 |-> b[k]]
        /\ \A k \in 1 .. m + 1 : b[k] = [label |-> Written(q.labels[k].label), address |-> 4 * q.labels[k].count]
    BY <1>5 DEF Listed
  <2>4. \A k \in 1 .. m : b[k] = labels[k]
    <3>1. \A k \in 1 .. m : k \in 1 .. m + 1
      BY <1>1
    <3>. HIDE DEF b
    <3>. QED
      BY <1>2, <1>5, <2>3, <3>1
  <2>5. b[m + 1] = e
    <3>1. m + 1 \in 1 .. m + 1
      BY <1>1
    <3>. HIDE DEF b
    <3>2. b[m + 1] = [label |-> w, address |-> 4 * r.count]
      BY <1>5, <2>3, <3>1 DEF w
    <3>. QED
      BY <3>2 DEF e
  <2>6. /\ a \in Seq(T \union {e}) /\ Len(a) = m + 1 /\ a[m + 1] = e
        /\ \A k \in 1 .. m : a[k] = labels[k]
    <3>1. labels \in Seq(T \union {e}) /\ e \in T \union {e}
      BY <2>2
    <3>. DEFINE U == T \union {e}
    <3>. HIDE DEF U
    <3>2. /\ a \in Seq(U) /\ Len(a) = m + 1 /\ a[m + 1] = e
          /\ \A k \in 1 .. m : a[k] = labels[k]
      BY <1>3, <3>1 DEF U
    <3>. QED
      BY <3>2 DEF U
  <2>7. \A k \in 1 .. m + 1 : k \in 1 .. m \/ k = m + 1
    BY <1>1
  <2>. HIDE DEF a, b
  <2>8. \A k \in 1 .. m + 1 : b[k] = a[k]
    BY <2>4, <2>5, <2>6, <2>7
  <2>9. DOMAIN a = 1 .. m + 1 /\ a = [k \in 1 .. m + 1 |-> a[k]]
    BY <1>1, <2>6
  <2>10. a = b
    BY <2>3, <2>8, <2>9
  <2>. QED
    BY <2>1, <2>10 DEF b, w
<1>. QED
  BY <1>1, <1>4, <1>5

\* Texts whose bytes can be counted in a word.
Short(txt) == 4 * Len(txt) <= WordSpan

\* After so many bytes of the text the tool has the labels ls and the address a.
LinesRead(txt, o, ls, a) ==
    \E p \in Edges(txt) :
        /\ o = Offsets(txt)[p]
        /\ ls = Listed(Reading(txt)[p].labels)
        /\ a = (4 * Reading(txt)[p].count) % WordSpan

LabelsFrom(ls) == IF ls = <<>> THEN SampleLabels ELSE Listed(ls)

\* The tool is up to a line in the source, or has its labels.
SourceInv ==
    /\ tool \in {"idle", "arguments", "file", "words"} =>
          labels = <<>> /\ scanned = 0 /\ address = 0 /\ found = NotFound
    /\ TidyText /\ LinesFit /\ Short(text) =>
          /\ tool = "source" => LinesRead(text, scanned, labels, address)
          /\ tool = "window" /\ found # NotFound => labels = LabelsFrom(Reading(text)[Len(text)].labels)

LEMMA InitSourceInv == ASSUME ListingInit PROVE SourceInv
  BY DEF ListingInit, OptionsInit, SourceInv

LEMMA SmallAddress ==
    ASSUME IsText(text), Short(text), NEW p \in Edges(text)
    PROVE  p # Len(text) => /\ 4 * Reading(text)[p].count \in 0 .. WordSpan - 1
                            /\ (4 * Reading(text)[p].count) % WordSpan = 4 * Reading(text)[p].count
<1>. DEFINE c == Reading(text)[p].count
            n == Len(text)
<1>1. n \in Nat /\ p \in 0 .. n /\ c \in Nat /\ WordSpan \in Nat \ {0}
  BY ReadingTyped, WordFacts DEF IsText
<1>2. c <= p
  BY <1>1, ReadingCounted DEF Counted
<1>. HIDE DEF c
<1>3. ASSUME p # n PROVE 4 * c \in 0 .. WordSpan - 1
  <2>1. 4 * n <= WordSpan
    BY DEF Short
  <2>. HIDE DEF n
  <2>2. c < n
    BY <1>1, <1>2, <1>3
  <2>. QED
    BY <1>1, <2>1, <2>2
<1>4. ASSUME 4 * c \in 0 .. WordSpan - 1 PROVE (4 * c) % WordSpan = 4 * c
  BY <1>1, <1>4
<1>. QED
  BY <1>3, <1>4 DEF c

LEMMA LineListed ==
    ASSUME IsWritten(text), TidyText, LinesFit, Short(text), LabelsInv,
           LinesRead(text, scanned, labels, address), SkipComment \/ LabelLine \/ CountedLine
    PROVE  LinesRead(text, scanned', labels', address')
<1>. DEFINE f == Reading(text)
            O == Offsets(text)
<1>1. PICK p \in Edges(text) :
         /\ scanned = O[p]
         /\ labels = Listed(f[p].labels)
         /\ address = (4 * f[p].count) % WordSpan
  BY DEF LinesRead
<1>. DEFINE e == LineEnd(text, p)
            r == f[p]
            l == CurrentLine
            labelled == NamesIn(TrimmedText(text, p))
<1>2. IsText(text) /\ Len(text) \in Nat
  BY DEF IsWritten, IsText
<1>3. scanned < Len(File) /\ scanned' = PieceEnd(File, scanned)
  BY DEF SkipComment, LabelLine, CountedLine, ReadingLine
<1>4. p # Len(text)
  <2>1. O[Len(text)] = Len(File) /\ Len(File) \in Nat
    BY OffsetsFound, FileLength DEF IsSpelling, File, FileOf
  <2>. QED
    BY <1>1, <1>3, <2>1
<1>5. p \in Starts(text) /\ p \in LineStarts /\ p \in 0 .. Len(text)
  BY <1>1, <1>2, <1>4 DEF Edges, Starts, LineStarts
<1>6. scanned' = O[e]
  BY <1>1, <1>3, <1>5, LineOfTool
<1>7. l[1].is = "semicolon" <=> TrimmedText(text, p)[1].is = "semicolon"
  BY <1>1, <1>5, LineOfTool
<1>8. \A a : StepsTo(text, p, a, "word") => LabelsIn(l) = {Written(c) : c \in labelled}
  BY <1>1, <1>5, LineOfTool
<1>9. f[e] = AfterLine(text, p, r) /\ r \in Reads(text) /\ e \in Edges(text)
  BY <1>2, <1>5, ReadingOn, LineEndFound DEF Edges
<1>10. labels = Listed(r.labels) /\ address = 4 * r.count /\ r.count \in Nat
  <2>1. (4 * r.count) % WordSpan = 4 * r.count
    BY <1>2, <1>4, SmallAddress
  <2>. QED
    BY <1>1, <1>2, <2>1, ReadingTyped
<1>11. PICK s : s = StatementAt(text, LexerAt(p))
  OBVIOUS
<1>12. CommentIs(p, s) \/ LabelIs(p, s) \/ InstructionIs(p, s)
  BY <1>2, <1>5, <1>11, TidyRead
<1>13. TrimmedText(text, p)[1].is # "semicolon" =>
          /\ LabelsIn(l) = {Written(c) : c \in labelled}
          /\ labelled = {} \/ \E d : labelled = {d}
  BY <1>8, <1>12 DEF CommentIs, LabelIs, InstructionIs, LineIs
<1>14. ASSUME labels' = Listed(f[e].labels), address' = (4 * f[e].count) % WordSpan
       PROVE  LinesRead(text, scanned', labels', address')
  BY <1>6, <1>9, <1>14 DEF LinesRead
<1>15. address = (4 * r.count) % WordSpan
  BY <1>1
<1>. HIDE DEF f, e, r, l, O
<1>16. CASE SkipComment
  <2>1. TrimmedText(text, p)[1].is = "semicolon" /\ labels' = labels /\ address' = address
    BY <1>7, <1>16 DEF SkipComment, CommentLine, l
  <2>2. f[e] = r
    BY <1>9, <2>1 DEF AfterLine
  <2>. QED
    BY <1>10, <1>14, <1>15, <2>1, <2>2
<1>17. CASE LabelLine
  <2>1. TrimmedText(text, p)[1].is # "semicolon" /\ address' = address
    BY <1>7, <1>17 DEF LabelLine, CommentLine, l
  <2>2. PICK w \in LabelsIn(l) : labels' = WithLabel(w)
    BY <1>17 DEF LabelLine, l
  <2>3. PICK c \in labelled : w = Written(c)
    BY <1>13, <2>1, <2>2
  <2>4. labelled = {c}
    BY <1>13, <2>1, <2>3
  <2>5. (CHOOSE d : d \in labelled) = c
    BY <2>4
  <2>6. f[e] = WithName(r, c)
    BY <1>9, <2>1, <2>3, <2>5 DEF AfterLine
  <2>7. c \in Found(text)
    BY <1>2, <1>5, <2>3, NamesAreFound
  <2>8. labels' = Listed(f[e].labels)
    BY <1>9, <1>10, <2>2, <2>3, <2>6, <2>7, LabelListed DEF LabelsInv
  <2>9. f[e].count = r.count
    BY <1>9, <2>6, NameCounted
  <2>. QED
    BY <1>14, <1>15, <2>1, <2>8, <2>9
<1>18. CASE CountedLine
  <2>1. /\ TrimmedText(text, p)[1].is # "semicolon" /\ LabelsIn(l) = {}
        /\ labels' = labels /\ address' = (address + 4) % WordSpan
    BY <1>7, <1>18 DEF CountedLine, CommentLine, l
  <2>2. labelled = {}
    BY <1>13, <2>1
  <2>3. f[e] = [r EXCEPT !.count = r.count + 1]
    BY <1>9, <2>1, <2>2 DEF AfterLine
  <2>4. f[e].count = r.count + 1 /\ f[e].labels = r.labels
    BY <1>9, <2>3 DEF Reads
  <2>5. address + 4 = 4 * f[e].count
    BY <1>10, <2>4
  <2>. QED
    BY <1>10, <1>14, <2>1, <2>4, <2>5
<1>. QED
  BY <1>16, <1>17, <1>18

\* The tool starts at the first line, and ends at the end of the text.
LEMMA LinesStart == ASSUME IsWritten(text) PROVE LinesRead(text, 0, <<>>, 0)
<1>1. 0 \in Edges(text) /\ Reading(text)[0] = NothingRead
  BY EmptyReading DEF IsWritten
<1>2. Listed(<<>>) = <<>>
  BY DEF Listed
<1>3. 4 * 0 = 0 /\ 0 % WordSpan = 0
  BY WordFacts
<1>4. Offsets(text)[0] = 0
  BY OffsetsFound DEF IsSpelling
<1>. QED
  BY <1>1, <1>2, <1>3, <1>4 DEF LinesRead, NothingRead

LEMMA LinesEnd ==
    ASSUME IsWritten(text), scanned = Len(File), LinesRead(text, scanned, labels, address)
    PROVE  labels = Listed(Reading(text)[Len(text)].labels)
<1>. DEFINE O == Offsets(text)
            n == Len(text)
<1>1. PICK p \in Edges(text) : scanned = O[p] /\ labels = Listed(Reading(text)[p].labels)
  BY DEF LinesRead
<1>2. File = FileOf(text) /\ IsSpelling(text, O, File)
  BY OffsetsFound DEF File, FileOf
<1>3. n \in Nat /\ p \in 0 .. n /\ n \in 0 .. n
  BY DEF IsWritten, IsText, Edges, Starts
<1>4. O[n] = Len(File) /\ O \in [0 .. n -> Nat]
  BY <1>2 DEF IsSpelling
<1>5. p < n => O[p] < O[n]
  BY <1>2, <1>3, SpellingFacts
<1>6. p = n
  <2>. HIDE DEF O
  <2>. QED
    BY <1>1, <1>3, <1>4, <1>5
<1>. QED
  BY <1>1, <1>6

LEMMA ListedEmpty == ASSUME NEW txt, IsText(txt), NEW p \in Edges(txt)
                     PROVE  Listed(Reading(txt)[p].labels) = <<>> <=> Reading(txt)[p].labels = <<>>
<1>. DEFINE ls == Reading(txt)[p].labels
            E == [label : Found(txt), count : Nat]
<1>1. ls \in Seq(E)
  BY ReadingTyped DEF Reads
<1>. HIDE DEF ls, E
<1>2. DOMAIN Listed(ls) = 1 .. Len(ls) /\ Len(ls) \in Nat
  BY <1>1 DEF Listed
<1>3. ls = <<>> => Listed(ls) = <<>>
  BY DEF Listed
<1>4. Listed(ls) = <<>> => ls = <<>>
  <2>. SUFFICES ASSUME Listed(ls) = <<>> PROVE ls = <<>>
    OBVIOUS
  <2>1. 1 .. Len(ls) = {}
    BY <1>2
  <2>2. Len(ls) = 0
    BY <1>2, <2>1
  <2>. QED
    BY <1>1, <2>2, EmptySeq
<1>. QED
  BY <1>3, <1>4 DEF ls

LEMMA SourceInvOn ==
    ASSUME IsWritten(text), SourceInv, LabelsInv, ListingNext \/ UNCHANGED listingVars, text' = text
    PROVE  SourceInv'
<1>1. TidyText' /\ LinesFit' => TidyText /\ LinesFit
  BY TidyKept, FitKept
<1>2. CASE UNCHANGED <<tool, labels, scanned, address, found>>
  BY <1>1, <1>2 DEF SourceInv
<1>3. CASE StartTool \/ UseArguments \/ NoBinary \/ CheckWindow \/ ListRow \/ RowsDone
  <2>1. UNCHANGED <<labels, scanned, address, found>>
    BY <1>3 DEF StartTool, UseArguments, NoBinary, CheckWindow, ListRow, RowsDone
  <2>2. tool \in {"idle", "arguments", "file"} \/ tool' \in {"refused", "listing", "listed"}
    BY <1>3 DEF StartTool, UseArguments, ReadArguments, ShowHelp, ValueMissing, ReadFormat, ReadStart, ReadCount,
                ReadSymbolFile, ReadSearchDir, ReadSymbols, ReadOther, ReadName, ArgumentsRead, Stop,
                Take, AtOption, AtArgument, NoBinary, CheckWindow, ListRow, RowsDone, optionVars
  <2>3. tool' \notin {"source", "window"}
    BY <1>3 DEF StartTool, UseArguments, ReadArguments, ShowHelp, ValueMissing, ReadFormat, ReadStart, ReadCount,
                ReadSymbolFile, ReadSearchDir, ReadSymbols, ReadOther, ReadName, ArgumentsRead, Stop,
                Take, AtOption, AtArgument, NoBinary, CheckWindow, ListRow, RowsDone, optionVars
  <2>. QED
    BY <2>1, <2>2, <2>3 DEF SourceInv
<1>4. CASE ListWords \/ ListFile
  <2>1. /\ tool \in {"words", "file"} /\ tool' \in {"source", "window", "listing"}
        /\ UNCHANGED <<scanned, address>>
        /\ tool' = "source" => labels' = labels
        /\ tool' = "window" => found' \in {found, NotFound}
    BY <1>4 DEF ListWords, ListFile, LoadSymbols, Stop
  <2>2. labels = <<>> /\ scanned = 0 /\ address = 0 /\ found = NotFound
    BY <2>1 DEF SourceInv
  <2>3. LinesRead(text, 0, <<>>, 0)
    BY LinesStart
  <2>. QED
    BY <2>1, <2>2, <2>3 DEF SourceInv
<1>5. CASE SkipComment \/ LabelLine \/ CountedLine
  <2>1. tool = "source" /\ tool' = "source"
    BY <1>5 DEF SkipComment, LabelLine, CountedLine, ReadingLine, optionVars
  <2>2. TidyText /\ LinesFit /\ Short(text) => LinesRead(text, scanned', labels', address')
    BY <1>5, <2>1, LineListed DEF SourceInv
  <2>. QED
    BY <1>1, <2>1, <2>2 DEF SourceInv
<1>6. CASE SourceRead
  <2>1. /\ tool = "source" /\ scanned = Len(File) /\ tool' \in {"window", "listing"}
        /\ labels' = IF labels = <<>> THEN SampleLabels ELSE labels
    BY <1>6 DEF SourceRead, Stop
  <2>2. TidyText /\ LinesFit /\ Short(text) => labels = Listed(Reading(text)[Len(text)].labels)
    BY <2>1, LinesEnd DEF SourceInv
  <2>3. Len(text) \in Edges(text)
    BY DEF Edges
  <2>4. TidyText /\ LinesFit /\ Short(text) => labels' = LabelsFrom(Reading(text)[Len(text)].labels)
    BY <2>1, <2>2, <2>3, ListedEmpty DEF LabelsFrom, IsWritten
  <2>. QED
    BY <1>1, <2>1, <2>4 DEF SourceInv
<1>. QED
  BY <1>2, <1>3, <1>4, <1>5, <1>6 DEF ListingNext, Disassemble, listingVars, toolVars, optionVars

ReadingInv == ListingInv /\ ParserReads /\ WrittenInv /\ SourceInv

LEMMA InitReadingInv == ASSUME ListingInit PROVE ReadingInv
<1>1. ListingInv /\ ParserReads /\ SourceInv
  BY InitListingInv, InitParserReads, InitSourceInv DEF ListingInit
<1>2. WrittenInv
  BY DEF ListingInit, ParserInit, AssemblerInit, NoFile, WrittenInv
<1>. QED
  BY <1>1, <1>2 DEF ReadingInv

LEMMA NextReadingInv ==
    ASSUME DocumentsAreRead, NamesFit, ReadingInv, [ListingNext]_listingVars
    PROVE  ReadingInv'
<1>1. /\ AssemblerInv /\ TextInv /\ ToolInv /\ ParserReads /\ WrittenInv /\ SourceInv
      /\ IsWritten(text) /\ LabelsInv
  BY TextWritten DEF ReadingInv, ListingInv, ToolInv
<1>2. ListingInv' /\ [ParserNext]_textVars
  BY NextListingInv DEF ReadingInv, ListingNext, listingVars
<1>3. text' = text
  BY <1>2 DEF ParserNext, AssembleText, ParserExited, ParseStatement, AfterParse, EmptyLine,
              LabelStatement, ConstantStatement, InstructionStatement, ErrorStatement, RewindText,
              TextParsed, NextStatement, textVars
<1>4. ParserReads' /\ WrittenInv'
  BY <1>1, <1>2, <1>3, ParserReadsOn, WrittenOn
<1>5. SourceInv'
  BY <1>1, <1>3, SourceInvOn
<1>. QED
  BY <1>2, <1>4, <1>5 DEF ReadingInv

\* In the window, both tables start from the same labels.
LEMMA TablesAgree ==
    ASSUME ReadingInv
    PROVE  LabelsAgree
<1>. DEFINE S   == symbol_table.symbols
            own == {k \in DOMAIN S : S[k].type = "LABEL"}
            ls  == Reading(text)[Len(text)].labels
<1>. SUFFICES ASSUME tool = "window", found # NotFound, TidyText, LinesFit, 4 * Len(text) <= WordSpan, own # {}
              PROVE  labels = [k \in own |-> [label |-> Written(Name(S[k].name)), address |-> 4 * S[k].address]]
  BY DEF LabelsAgree, SameLabels, LabelSymbols
<1>1. IsText(text) /\ S \in Seq(Entry(Seq(Byte)))
  BY TextFacts DEF ReadingInv, ListingInv, AssemblerInv, TableInv, Shape
<1>2. stage = "written"
  BY DEF ReadingInv, ListingInv, ToolInv, ControlInv, BinaryExists, WrittenInv
<1>3. Holds(S, ls)
  BY <1>2 DEF ReadingInv, ParserReads, TableReads
<1>4. labels = LabelsFrom(ls)
  BY DEF ReadingInv, SourceInv, Short
<1>5. Len(ls) \in Nat
  BY <1>1, ReadingTyped DEF Edges
<1>. DEFINE T == Entry(Seq(Byte))
            m == Len(S)
<1>6. m \in Nat /\ DOMAIN S = 1 .. m
  <2>. HIDE DEF T, S
  <2>. QED
    BY <1>1 DEF T
<1>. HIDE DEF ls, m
<1>7. /\ Len(ls) <= m
      /\ \A k \in 1 .. Len(ls) :
            S[k].type = "LABEL" /\ Name(S[k].name) = ls[k].label /\ S[k].address = ls[k].count
      /\ \A k \in Len(ls) + 1 .. m : S[k].type # "LABEL"
  BY <1>3 DEF Holds, m
<1>8. own = 1 .. Len(ls)
  <2>1. \A k \in 1 .. m : k \in 1 .. Len(ls) \/ k \in Len(ls) + 1 .. m
    BY <1>5, <1>6
  <2>2. \A k \in 1 .. Len(ls) : k \in 1 .. m
    BY <1>5, <1>6, <1>7
  <2>. HIDE DEF S
  <2>. QED
    BY <1>6, <1>7, <2>1, <2>2
<1>9. labels = Listed(ls)
  <2>1. ls # <<>>
    <3>1. ls = <<>> => Len(ls) = 0
      OBVIOUS
    <3>. QED
      BY <1>8, <3>1
  <2>. QED
    BY <1>4, <2>1 DEF LabelsFrom
<1>. HIDE DEF own, S
<1>10. \A k \in own : [label |-> Written(ls[k].label), address |-> 4 * ls[k].count] =
                      [label |-> Written(Name(S[k].name)), address |-> 4 * S[k].address]
  BY <1>7, <1>8
<1>. QED
  BY <1>8, <1>9, <1>10 DEF Listed

\* Of every text whose lines are statements and fit the tool's buffers, however
\* they are spaced and commented within these, and whatever its names, unless
\* the assembler cuts them: the tool, which counts pieces of at most LineLimit
\* bytes, has the labels of the assembler, which counts instructions.
THEOREM LabelsCoincide ==
    ASSUME DocumentsAreRead, NamesFit
    PROVE  ListingSpec => []LabelsAgree
<1>1. ListingInit => ReadingInv
  BY InitReadingInv
<1>2. ReadingInv /\ [ListingNext]_listingVars => ReadingInv'
  BY NextReadingInv
<1>3. ReadingInv => LabelsAgree
  BY TablesAgree
<1>. QED
  BY <1>1, <1>2, <1>3, PTL DEF ListingSpec
=============================================================================
