------------------------------ MODULE DezLexer ------------------------------
(***************************************************************************)
(* The lexer of the assembler (src/assembler/dez_lexer.c): from the text   *)
(* of a source to tokens, one at a time, with one token of look-ahead.     *)
(*                                                                         *)
(* A text is a sequence of characters, where a whole word (letters, digits *)
(* and underscores, no digit first) and a whole number, of any base, count *)
(* as one, also inside a literal.  Words and numbers of more than 255      *)
(* characters are left out.  Spaces and tabs are alike.  The functions of  *)
(* the source take a pointer to the lexer; the operators here take the     *)
(* text and a lexer record, and give what the function returns or the      *)
(* record it leaves.  Line and column numbers of messages are left out.    *)
(***************************************************************************)
EXTENDS DezWord, DezLibrary

CONSTANTS
    RegisterNumber, \* RegisterNumber[w]: the number of the register named w
    Written(_),     \* Written(c): the bytes of the character c
    LiteralLimit    \* characters a literal may have (255)

ASSUME LexerAssumption == LiteralLimit \in Nat

\* Characters.  The kind of one that is a token by itself is that token's type.
Single == {"NEWLINE", "COMMA", "COLON", "HASH", "LBRACKET", "RBRACKET", "UNKNOWN"}
Kinds  == Single \union {"space", "cr", "semicolon", "quote", "word", "number"}

Char(kind)   == [is |-> kind]
Name(w)      == [is |-> "word", word |-> w]
Numeral(n)   == [is |-> "number", value |-> n]

\* A word ends where no letter, digit or underscore follows, a number where
\* no digit follows.
IsText(text) ==
    /\ Len(text) \in Nat
    /\ \A p \in 1 .. Len(text) :
          text[p].is \in Kinds /\ (text[p].is = "word" => text[p] = Name(text[p].word))
    /\ \A p \in 1 .. Len(text) - 1 :
          /\ text[p].is = "word" => text[p + 1].is \notin {"word", "number"}
          /\ text[p].is = "number" => text[p + 1].is # "number"

\* The character after the first p, as the kind of character it is.
At(text, p) == IF p < Len(text) THEN text[p + 1].is ELSE "end"

\* lexer_skip_comment stops before the newline, or at the end.
EndOfLine(text, p) ==
    CHOOSE q \in p .. Len(text) :
        /\ At(text, q) \in {"NEWLINE", "end"}
        /\ \A k \in p .. q - 1 : At(text, k) # "NEWLINE"

AfterBlanks(text, p) ==
    CHOOSE q \in p .. Len(text) :
        /\ At(text, q) \notin {"space", "cr"}
        /\ \A k \in p .. q - 1 : At(text, k) \in {"space", "cr"}

\* lexer_skip_whitespace
Skip(text, p) ==
    LET q == AfterBlanks(text, p)
    IN  IF At(text, q) = "semicolon" THEN EndOfLine(text, q) ELSE q

\* Mutant: a literal ends at the end of its line.
EndOfLiteralInLine(text, p) ==
    CHOOSE q \in p .. Len(text) :
        /\ At(text, q) \in {"quote", "NEWLINE", "end"} \/ q = p + LiteralLimit
        /\ q <= p + LiteralLimit
        /\ \A k \in p .. q - 1 : At(text, k) \notin {"quote", "NEWLINE"}

\* Where the characters of a literal that starts at p end: at a quote, at the
\* end of the text, or at the limit.  Newlines and semicolons are characters.
EndOfLiteral(text, p) ==
    CHOOSE q \in p .. Len(text) :
        /\ At(text, q) \in {"quote", "end"} \/ q = p + LiteralLimit
        /\ q <= p + LiteralLimit
        /\ \A k \in p .. q - 1 : At(text, k) # "quote"

NoToken == [type |-> "NONE"]

LiteralToken(text, p, q) ==
    IF At(text, q) = "quote"
      THEN [token |-> [type |-> "STRING",
                       text |-> Sequence!FlattenSeq([k \in 1 .. q - p |-> Written(text[p + k])])],
            position |-> q + 1]
      ELSE [token |-> [type |-> "UNKNOWN"], position |-> q]

\* The token that starts at p, and the position after it.  At the end of the
\* text there is no end to the "EOF" tokens.
Scanned(text, p) ==
    LET c == At(text, p)
    IN  CASE c = "end" -> [token |-> [type |-> "EOF"], position |-> p]
          [] c = "quote" -> LiteralToken(text, p + 1, EndOfLiteral(text, p + 1))
          [] c = "number" ->
                [token |-> [type |-> "NUMBER", value |-> text[p + 1].value % WordSpan], position |-> p + 1]
          [] c = "word" ->
                [token |-> [type |-> IF text[p + 1].word \in DOMAIN RegisterNumber
                                       THEN "REGISTER" ELSE "IDENTIFIER",
                            word |-> text[p + 1].word],
                 position |-> p + 1]
          [] OTHER -> [token |-> [type |-> c], position |-> p + 1]

----------------------------------------------------------------------------
(* lexer_t: the position, and the token that was looked at but not taken.  *)

\* lexer_init
NewLexer == [position |-> 0, token |-> NoToken]

\* lexer_peek_token
Peek(text, lexer) ==
    IF lexer.token # NoToken THEN lexer ELSE Scanned(text, Skip(text, lexer.position))

\* lexer_next_token
Advance(text, lexer) ==
    [position |-> Peek(text, lexer).position, token |-> NoToken]

Token(text, lexer) == Peek(text, lexer).token

IsLexer(text, lexer) ==
    /\ lexer.position \in 0 .. Len(text)
    /\ lexer.token # NoToken => \E p \in 0 .. Len(text) : lexer = Scanned(text, p)
=============================================================================
