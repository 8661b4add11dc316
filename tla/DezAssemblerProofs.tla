------------------------ MODULE DezAssemblerProofs -------------------------
(***************************************************************************)
(* Proofs about the assembler, for every source and every width: it keeps  *)
(* its output within the buffer and its tables in shape, and its output is *)
(* the program of the source.                                              *)
(***************************************************************************)
EXTENDS DezAssembler, DezISALemmas, DezSymbolTableProofs


----------------------------------------------------------------------------
(* Sequences of sequences. *)

\* The recursion of FlattenSeq, on the first n of seqs.
Flattens(f, seqs, n) ==
    f = [i \in 1 .. n |-> IF i = 1 THEN seqs[i] ELSE f[i - 1] \o seqs[i]]

\* It has a solution, however many sequences there are.
LEMMA FlattenExists ==
    ASSUME NEW S, NEW seqs \in Seq(Seq(S)), NEW n \in 0 .. Len(seqs)
    PROVE  \E f \in [1 .. n -> Seq(S)] : Flattens(f, seqs, n)
<1>. DEFINE Solved == {m \in Nat : m <= Len(seqs) =>
                          \E f \in [1 .. m -> Seq(S)] : Flattens(f, seqs, m)}
<1>1. 0 \in Solved
  <2>. DEFINE f == [i \in 1 .. 0 |-> IF i = 1 THEN seqs[i] ELSE <<>>]
  <2>1. f \in [1 .. 0 -> Seq(S)] /\ Flattens(f, seqs, 0)
    BY DEF Flattens
  <2>. QED
    BY <2>1
<1>2. ASSUME NEW m \in Nat, m \in Solved PROVE m + 1 \in Solved
  <2>. SUFFICES ASSUME m + 1 <= Len(seqs)
                PROVE  \E g \in [1 .. m + 1 -> Seq(S)] : Flattens(g, seqs, m + 1)
    OBVIOUS
  <2>1. PICK f \in [1 .. m -> Seq(S)] : Flattens(f, seqs, m)
    BY <1>2
  <2>. DEFINE g == [i \in 1 .. m + 1 |->
                      IF i = m + 1 THEN (IF m = 0 THEN seqs[1] ELSE f[m] \o seqs[m + 1]) ELSE f[i]]
  <2>2. \A i \in 1 .. m + 1 : seqs[i] \in Seq(S)
    OBVIOUS
  <2>3. g \in [1 .. m + 1 -> Seq(S)]
    <3>1. m # 0 => f[m] \o seqs[m + 1] \in Seq(S)
      BY <2>2
    <3>2. m = 0 => seqs[1] \in Seq(S)
      BY <2>2
    <3>. QED
      BY <3>1, <3>2
  <2>4. \A i \in 1 .. m + 1 : g[i] = IF i = 1 THEN seqs[i] ELSE g[i - 1] \o seqs[i]
    <3>1. \A i \in 1 .. m : f[i] = IF i = 1 THEN seqs[i] ELSE f[i - 1] \o seqs[i]
      BY <2>1 DEF Flattens
    <3>2. /\ \A i \in 1 .. m : g[i] = f[i]
          /\ g[m + 1] = IF m = 0 THEN seqs[1] ELSE f[m] \o seqs[m + 1]
      <4>1. \A i \in 1 .. m : i \in 1 .. m + 1 /\ i # m + 1
        OBVIOUS
      <4>2. \A i \in 1 .. m : g[i] = f[i]
        BY <4>1
      <4>3. m + 1 \in 1 .. m + 1
        OBVIOUS
      <4>4. g[m + 1] = IF m = 0 THEN seqs[1] ELSE f[m] \o seqs[m + 1]
        BY <4>3
      <4>. QED
        BY <4>2, <4>4
    <3>. SUFFICES ASSUME NEW i \in 1 .. m + 1
                  PROVE  g[i] = IF i = 1 THEN seqs[i] ELSE g[i - 1] \o seqs[i]
      OBVIOUS
    <3>. HIDE DEF g
    <3>3. CASE i = m + 1
      <4>1. g[i] = IF m = 0 THEN seqs[1] ELSE f[m] \o seqs[m + 1]
        BY ONLY <3>2, <3>3
      <4>2. (m = 0 <=> i = 1) /\ i - 1 = m
        BY <3>3
      <4>3. m # 0 => m \in 1 .. m /\ g[m] = f[m]
        BY <3>2
      <4>4. CASE m = 0
        BY <3>3, <4>1, <4>2, <4>4
      <4>5. CASE m # 0
        <5>1. g[i - 1] = f[m] /\ seqs[i] = seqs[m + 1] /\ i # 1
          BY <3>3, <4>2, <4>3, <4>5
        <5>. QED
          BY <4>1, <4>5, <5>1
      <4>. QED
        BY <4>4, <4>5
    <3>4. CASE i \in 1 .. m
      <4>1. i # 1 => i - 1 \in 1 .. m /\ g[i - 1] = f[i - 1]
        BY <3>2, <3>4
      <4>2. g[i] = f[i] /\ f[i] = IF i = 1 THEN seqs[i] ELSE f[i - 1] \o seqs[i]
        BY ONLY <3>1, <3>2, <3>4
      <4>. QED
        BY ONLY <4>1, <4>2
    <3>. QED
      BY <3>3, <3>4
  <2>5. Flattens(g, seqs, m + 1)
    <3>. HIDE DEF g
    <3>. QED
      BY <2>3, <2>4 DEF Flattens
  <2>. QED
    BY <2>3, <2>5
<1>3. Nat \subseteq Solved
  <2>. HIDE DEF Solved
  <2>. QED
    BY <1>1, <1>2, SetInduction
<1>. QED
  BY <1>3

\* Any solution consists of sequences.
LEMMA FlattenedTyped ==
    ASSUME NEW S, NEW seqs \in Seq(Seq(S)), NEW n \in 0 .. Len(seqs), NEW f, Flattens(f, seqs, n)
    PROVE  \A i \in 1 .. n : f[i] \in Seq(S)
<1>. DEFINE Typed == {m \in Nat : m \in 1 .. n => f[m] \in Seq(S)}
<1>1. 0 \in Typed
  OBVIOUS
<1>2. ASSUME NEW m \in Nat, m \in Typed PROVE m + 1 \in Typed
  <2>. SUFFICES ASSUME m + 1 \in 1 .. n PROVE f[m + 1] \in Seq(S)
    OBVIOUS
  <2>1. f[m + 1] = IF m = 0 THEN seqs[m + 1] ELSE f[m] \o seqs[m + 1]
    <3>1. \A i \in 1 .. n : f[i] = IF i = 1 THEN seqs[i] ELSE f[i - 1] \o seqs[i]
      BY DEF Flattens
    <3>2. f[m + 1] = IF m + 1 = 1 THEN seqs[m + 1] ELSE f[m + 1 - 1] \o seqs[m + 1]
      BY <3>1
    <3>3. m + 1 - 1 = m /\ (m + 1 = 1 <=> m = 0)
      OBVIOUS
    <3>. QED
      BY <3>2, <3>3
  <2>2. seqs[m + 1] \in Seq(S)
    OBVIOUS
  <2>3. m # 0 => f[m] \in Seq(S)
    BY <1>2
  <2>. QED
    BY <2>1, <2>2, <2>3
<1>3. Nat \subseteq Typed
  <2>. HIDE DEF Typed
  <2>. QED
    BY <1>1, <1>2, SetInduction
<1>. QED
  BY <1>3

\* Sequences, one after the other, are a sequence.
LEMMA FlattenTyped ==
    ASSUME NEW S, NEW seqs \in Seq(Seq(S))
    PROVE  Sequence!FlattenSeq(seqs) \in Seq(S)
<1>1. CASE Len(seqs) = 0
  BY <1>1 DEF Sequence!FlattenSeq
<1>2. CASE Len(seqs) # 0
  <2>. DEFINE f == CHOOSE f : Flattens(f, seqs, Len(seqs))
  <2>1. Len(seqs) \in 1 .. Len(seqs) /\ Len(seqs) \in 0 .. Len(seqs)
    BY <1>2
  <2>2. Flattens(f, seqs, Len(seqs))
    <3>1. \E g : Flattens(g, seqs, Len(seqs))
      BY <2>1, FlattenExists
    <3>. QED
      BY <3>1
  <2>3. Sequence!FlattenSeq(seqs) = f[Len(seqs)]
    BY <1>2 DEF Sequence!FlattenSeq, Flattens
  <2>. HIDE DEF f
  <2>. QED
    BY <2>1, <2>2, <2>3, FlattenedTyped
<1>. QED
  BY <1>1, <1>2

\* Putting sequences one after the other, step by step.
Concatenates(F, seqs) ==
    /\ F[0] = <<>>
    /\ \A k \in 1 .. Len(seqs) : F[k] = F[k - 1] \o seqs[k]

\* FlattenSeq puts its sequences one after the other.
LEMMA Concatenation ==
    ASSUME NEW S, NEW seqs \in Seq(Seq(S))
    PROVE  \E F \in [0 .. Len(seqs) -> Seq(S)] :
              Concatenates(F, seqs) /\ Sequence!FlattenSeq(seqs) = F[Len(seqs)]
<1>1. Len(seqs) \in Nat
  OBVIOUS
<1>2. CASE Len(seqs) = 0
  <2>. DEFINE F == [k \in 0 .. 0 |-> <<>>]
  <2>1. Sequence!FlattenSeq(seqs) = <<>>
    BY <1>2 DEF Sequence!FlattenSeq
  <2>2. F \in [0 .. 0 -> Seq(S)] /\ F[0] = <<>>
    OBVIOUS
  <2>. HIDE DEF F
  <2>3. Concatenates(F, seqs)
    BY <1>2, <2>2 DEF Concatenates
  <2>. QED
    BY <1>2, <2>1, <2>2, <2>3
<1>3. CASE Len(seqs) # 0
  <2>. DEFINE n == Len(seqs)
              f == CHOOSE f : Flattens(f, seqs, n)
              F == [k \in 0 .. n |-> IF k = 0 THEN <<>> ELSE f[k]]
  <2>1. n \in 1 .. n /\ n \in 0 .. n
    BY <1>1, <1>3
  <2>2. Flattens(f, seqs, n)
    <3>1. \E g : Flattens(g, seqs, n)
      BY <2>1, FlattenExists
    <3>. QED
      BY <3>1
  <2>3. Sequence!FlattenSeq(seqs) = f[n]
    BY <1>3 DEF Sequence!FlattenSeq, Flattens
  <2>. HIDE DEF f
  <2>4. \A k \in 1 .. n : f[k] \in Seq(S)
    BY <2>1, <2>2, FlattenedTyped
  <2>5. \A k \in 1 .. n : seqs[k] \in Seq(S)
    OBVIOUS
  <2>6. \A k \in 1 .. n : f[k] = IF k = 1 THEN seqs[k] ELSE f[k - 1] \o seqs[k]
    BY <2>2 DEF Flattens
  <2>7. F \in [0 .. n -> Seq(S)] /\ F[0] = <<>> /\ \A k \in 1 .. n : F[k] = f[k]
    BY <1>1, <2>1, <2>4
  <2>. HIDE DEF F
  <2>8. ASSUME NEW k \in 1 .. n PROVE F[k] = F[k - 1] \o seqs[k]
    <3>1. CASE k = 1
      <4>1. F[k] = seqs[1] /\ F[k - 1] = <<>> /\ seqs[1] \in Seq(S)
        BY <2>5, <2>6, <2>7, <3>1
      <4>2. \A s \in Seq(S) : <<>> \o s = s
        OBVIOUS
      <4>. QED
        BY <3>1, <4>1, <4>2
    <3>2. CASE k # 1
      <4>1. k - 1 \in 1 .. n
        BY <3>2
      <4>. QED
        BY <2>6, <2>7, <3>2, <4>1
    <3>. QED
      BY <3>1, <3>2
  <2>9. F[n] = f[n]
    BY <2>1, <2>7
  <2>. QED
    BY <2>3, <2>7, <2>8, <2>9 DEF Concatenates
<1>. QED
  BY <1>2, <1>3

\* The elements of two sequences put together.
LEMMA JoinedSequences ==
    ASSUME NEW S, NEW a \in Seq(S), NEW b \in Seq(S)
    PROVE  /\ Len(a \o b) = Len(a) + Len(b) /\ Len(a) \in Nat /\ Len(b) \in Nat
           /\ \A x \in 1 .. Len(a) : (a \o b)[x] = a[x]
           /\ \A x \in 1 .. Len(b) : (a \o b)[Len(a) + x] = b[x]
  OBVIOUS

\* One sequence starts with the other.
StartsWith(t, s) == Len(s) <= Len(t) /\ \A x \in 1 .. Len(s) : t[x] = s[x]

\* What was put together first stays at the front.
LEMMA Prefixes ==
    ASSUME NEW S, NEW seqs \in Seq(Seq(S)),
           NEW F \in [0 .. Len(seqs) -> Seq(S)], Concatenates(F, seqs),
           NEW k \in 0 .. Len(seqs)
    PROVE  \A m \in k .. Len(seqs) : StartsWith(F[m], F[k])
<1>. DEFINE n == Len(seqs)
            Holds(m) == /\ Len(F[k]) <= Len(F[m])
                        /\ \A x \in 1 .. Len(F[k]) : F[m][x] = F[k][x]
            Good == {m \in Nat : m \in k .. n => Holds(m)}
<1>1. /\ n \in Nat /\ k \in Nat /\ k \in 0 .. n
      /\ \A j \in 1 .. n : seqs[j] \in Seq(S)
      /\ \A j \in 0 .. n : F[j] \in Seq(S) /\ Len(F[j]) \in Nat
  OBVIOUS
<1>2. 0 \in Good
  BY <1>1
<1>3. ASSUME NEW m \in Nat, m \in Good PROVE m + 1 \in Good
  <2>. HIDE DEF Holds, n
  <2>. SUFFICES ASSUME m + 1 \in k .. n PROVE Holds(m + 1)
    OBVIOUS
  <2>1. CASE m + 1 = k
    <3>. QED
      BY <1>1, <2>1 DEF Holds
  <2>2. CASE m + 1 # k
    <3>1. m \in k .. n /\ m + 1 \in 1 .. n /\ m \in 0 .. n /\ (m + 1) - 1 = m
      BY <1>1, <2>2
    <3>2. Holds(m)
      BY <1>3, <3>1
    <3>3. F[m + 1] = F[m] \o seqs[m + 1]
      <4>1. \A j \in 1 .. n : F[j] = F[j - 1] \o seqs[j]
        BY DEF Concatenates, n
      <4>. QED
        BY <3>1, <4>1
    <3>4. F[m] \in Seq(S) /\ seqs[m + 1] \in Seq(S)
      BY <1>1, <3>1
    <3>5. /\ Len(F[m + 1]) = Len(F[m]) + Len(seqs[m + 1])
          /\ Len(F[m]) \in Nat /\ Len(seqs[m + 1]) \in Nat /\ Len(F[m + 1]) \in Nat
          /\ \A x \in 1 .. Len(F[m]) : F[m + 1][x] = F[m][x]
      <4>. DEFINE a == F[m] b == seqs[m + 1] c == F[m + 1]
      <4>1. a \in Seq(S) /\ b \in Seq(S) /\ c = a \o b
        BY <3>3, <3>4
      <4>. HIDE DEF a, b, c
      <4>2. /\ Len(c) = Len(a) + Len(b) /\ Len(a) \in Nat /\ Len(b) \in Nat /\ Len(c) \in Nat
            /\ \A x \in 1 .. Len(a) : c[x] = a[x]
        BY <4>1, JoinedSequences
      <4>. QED
        BY <4>2 DEF a, b, c
    <3>6. Len(F[k]) <= Len(F[m]) /\ \A x \in 1 .. Len(F[k]) : F[m][x] = F[k][x]
      BY <3>2 DEF Holds
    <3>7. Len(F[k]) <= Len(F[m + 1])
      <4>. DEFINE a == Len(F[k]) b == Len(F[m]) c == Len(seqs[m + 1]) d == Len(F[m + 1])
      <4>1. a \in Nat /\ b \in Nat /\ c \in Nat /\ a <= b /\ d = b + c
        BY <1>1, <3>5, <3>6
      <4>. HIDE DEF a, b, c, d
      <4>2. a <= d
        BY ONLY <4>1
      <4>. QED
        BY <4>2 DEF a, d
    <3>8. ASSUME NEW x \in 1 .. Len(F[k]) PROVE F[m + 1][x] = F[k][x]
      <4>1. x \in 1 .. Len(F[m])
        BY <1>1, <3>5, <3>6
      <4>. QED
        BY <3>5, <3>6, <4>1
    <3>. QED
      BY <3>7, <3>8 DEF Holds
  <2>. QED
    BY <2>1, <2>2
<1>4. Nat \subseteq Good
  <2>. HIDE DEF Good
  <2>. QED
    BY <1>2, <1>3, SetInduction
<1>. QED
  BY <1>1, <1>4 DEF StartsWith

----------------------------------------------------------------------------
(* The encoder. *)

LEMMA JoinedTyped ==
    ASSUME NEW op, NEW a, NEW b, NEW c, NEW n
    PROVE  Joined(op, a, b, c, n) \in Nat
<1>1. \A bits \in [0 .. WordBits - 1 -> {0, 1}] : FromBits(bits) \in Nat
  BY FromBitsWord, WordAssumption DEF Word
<1>. QED
  BY <1>1 DEF Joined

\* The bytes of a word.
LEMMA InstructionByteTyped ==
    ASSUME NEW w \in Nat, NEW k \in 0 .. 3
    PROVE  InstructionByte(w, k) \in Byte
<1>1. /\ ByteSpan \in Nat \ {0}
      /\ ByteSpan * ByteSpan \in Nat \ {0}
      /\ ByteSpan * (ByteSpan * ByteSpan) \in Nat \ {0}
  BY ByteAssumption, ProductPositive
<1>. DEFINE place == << 1, ByteSpan, ByteSpan * ByteSpan, ByteSpan * (ByteSpan * ByteSpan) >>[k + 1]
<1>2. k = 0 \/ k = 1 \/ k = 2 \/ k = 3
  OBVIOUS
<1>3. place \in Nat \ {0}
  BY <1>1, <1>2
<1>. HIDE DEF place
<1>4. w \div place \in Nat
  BY <1>3, DivNat
<1>5. (w \div place) % ByteSpan \in 0 .. ByteSpan - 1
  <2>1. \A q \in Nat : q % ByteSpan \in 0 .. ByteSpan - 1
    BY <1>1, ModRange
  <2>. QED
    BY <1>4, <2>1
<1>. QED
  BY <1>5 DEF InstructionByte, place, Byte

LEMMA DigitBefore ==
    ASSUME NEW m \in Nat, NEW low \in Nat, NEW high \in Nat
    PROVE  low + m * high \in Nat
  OBVIOUS

LEMMA LeadingWordTyped ==
    ASSUME NEW bytes \in Seq(Byte)
    PROVE  LeadingWord(bytes) \in Nat
<1>. DEFINE b(k) == IF k <= Len(bytes) THEN bytes[k] ELSE 0
<1>1. ByteSpan \in Nat /\ \A x \in Byte : x \in Nat
  BY ByteAssumption DEF Byte
<1>2. b(1) \in Nat /\ b(2) \in Nat /\ b(3) \in Nat /\ b(4) \in Nat
  BY <1>1
<1>3. LeadingWord(bytes) = b(1) + ByteSpan * (b(2) + ByteSpan * (b(3) + ByteSpan * b(4)))
  BY DEF LeadingWord
<1>. HIDE DEF b
<1>4. b(3) + ByteSpan * b(4) \in Nat
  BY <1>1, <1>2, DigitBefore
<1>5. b(2) + ByteSpan * (b(3) + ByteSpan * b(4)) \in Nat
  BY <1>1, <1>2, <1>4, DigitBefore
<1>6. b(1) + ByteSpan * (b(2) + ByteSpan * (b(3) + ByteSpan * b(4))) \in Nat
  BY <1>1, <1>2, <1>5, DigitBefore
<1>. QED
  BY <1>3, <1>6

\* An operand of any type can be read as a number.
LEMMA UnionWordTyped ==
    ASSUME NEW o, IsOperand(o), NEW junk \in Nat
    PROVE  UnionWord(o, junk) \in Nat
<1>1. CASE o.type = "REGISTER"
  <2>1. o.reg \in Nat
    BY <1>1, ISAAssumption DEF IsOperand, Register
  <2>2. o.reg + ByteSpan * junk \in Nat
    BY <2>1, ByteAssumption
  <2>. QED
    BY <1>1, <2>2 DEF UnionWord
<1>2. CASE o.type \in {"IMMEDIATE", "MEMORY"}
  BY <1>2 DEF IsOperand, UnionWord
<1>3. CASE o.type = "LABEL"
  <2>1. Spelling[o.label] \in Seq(Byte)
    BY <1>3, EncoderAssumption DEF IsOperand
  <2>. QED
    BY <1>3, <2>1, LeadingWordTyped DEF UnionWord
<1>4. CASE o.type = "STRING"
  <2>1. o.string \in Seq(Byte)
    BY <1>4 DEF IsOperand
  <2>. QED
    BY <1>4, <2>1, LeadingWordTyped DEF UnionWord
<1>. QED
  BY <1>1, <1>2, <1>3, <1>4 DEF IsOperand, OperandType

----------------------------------------------------------------------------
(* The symbol table of the assembler, whose texts are literals. *)

TableInv(t) == Shape(Seq(Byte), t) /\ IsSymbolTable(t)

LEMMA LiteralsHaveLengths == TextsHaveLengths(Seq(Byte))
  BY DEF TextsHaveLengths

LEMMA FoundTable ==
    ASSUME NEW t, TableInv(t), NEW n \in Names
    PROVE  TableInv(AfterFind(t, n))
  BY FindKeeps, FindTable DEF TableInv

LEMMA DefinedTable ==
    ASSUME NEW t, TableInv(t), NEW n \in Names, NEW k \in Nat
    PROVE  TableInv(AfterDefineLabel(t, n, k)) /\ TableInv(AfterDefineConstant(t, n, k))
<1>1. ASSUME NEW type \in {"LABEL", "CONSTANT"}
      PROVE  TableInv(AfterAdd(t, n, type, k, <<>>))
  BY AddCases, AddTable DEF TableInv, SymbolType
<1>. QED
  BY <1>1 DEF AfterDefineLabel, AfterDefineConstant

LEMMA StringTable ==
    ASSUME NEW t, TableInv(t), NEW n \in Names, NEW text \in Seq(Byte)
    PROVE  TableInv(AfterDefineString(t, n, text))
<1>. DEFINE u == Allocated(t, text)
<1>1. Shape(Seq(Byte), u) /\ IsSymbolTable(u) /\ t.next_string_addr \in Nat
  BY AllocatedShape, AllocatedTable, LiteralsHaveLengths DEF TableInv, Shape
<1>. HIDE DEF u
<1>2. TableInv(AfterAdd(u, n, "STRING", t.next_string_addr, text))
  BY <1>1, AddCases, AddTable DEF TableInv, SymbolType
<1>. QED
  BY <1>2 DEF AfterDefineString, u

LEMMA SymbolicOperand ==
    ASSUME NEW i, IsInstruction(i), NEW o \in Symbolic(i)
    PROVE  /\ SymbolName(o) \in Names
           /\ o.type = "STRING" => o.string \in Seq(Byte)
<1>1. IsOperand(o) /\ o.type \in {"STRING", "LABEL"}
  BY DEF Symbolic, IsInstruction
<1>. QED
  BY <1>1 DEF IsOperand, SymbolName

LEMMA EncodedTable ==
    ASSUME NEW t, TableInv(t), NEW i, IsInstruction(i)
    PROVE  TableInv(AfterEncode(t, i))
<1>1. CASE Symbolic(i) = {}
  BY <1>1 DEF AfterEncode
<1>2. CASE Symbolic(i) # {}
  <2>. DEFINE o == CHOOSE o \in Symbolic(i) : TRUE
  <2>1. o \in Symbolic(i)
    BY <1>2
  <2>2. AfterEncode(t, i) =
            IF o.type = "STRING"
              THEN AfterFind(AfterDefineString(t, SymbolName(o), o.string), SymbolName(o))
              ELSE AfterFind(t, SymbolName(o))
    BY <1>2 DEF AfterEncode
  <2>. HIDE DEF o
  <2>3. SymbolName(o) \in Names /\ (o.type = "STRING" => o.string \in Seq(Byte))
    BY <2>1, SymbolicOperand
  <2>. QED
    BY <2>2, <2>3, StringTable, FoundTable
<1>. QED
  BY <1>1, <1>2

LEMMA SymbolAddressTyped ==
    ASSUME NEW t, TableInv(t), NEW n
    PROVE  SymbolAddress(t, n) \in Nat
<1>1. t.symbols \in Seq(Entry(Seq(Byte)))
  BY DEF TableInv, Shape
<1>2. Find(t, n) # None => Find(t, n) \in 1 .. Len(t.symbols)
  BY <1>1, FindMatches DEF None
<1>3. Find(t, n) # None => t.symbols[Find(t, n)].address \in Nat
  BY <1>1, <1>2, EntryFields, LiteralsHaveLengths
<1>. QED
  BY <1>3 DEF SymbolAddress

----------------------------------------------------------------------------
(* The word an instruction is encoded to. *)

OtherOps == ImmediateOps \union {Op.CMP} \union ArithmeticOps \union IndexedOps
              \union LogicOps \union IndirectOps \union SingleOps \union NullaryOps

\* A jump has one operand.
LEMMA JumpOperand ==
    ASSUME NEW op \in JumpOps
    PROVE  op \in Nat /\ op \notin OtherOps /\ Len(Format(op)) = 1
<1>1. op \in Nat /\ op \notin OtherOps
  BY DEF JumpOps, OtherOps, ImmediateOps, ArithmeticOps, IndexedOps, LogicOps, IndirectOps,
         SingleOps, NullaryOps, Op
<1>2. Format(op) = << {"LABEL", "IMMEDIATE", "REGISTER"} >>
  BY <1>1 DEF OtherOps, ImmediateOps, Format
<1>. QED
  BY <1>1, <1>2

\* An instruction is encoded to a word.
LEMMA EncodeTyped ==
    ASSUME NEW t, TableInv(t), NEW i, IsInstruction(i), NEW junk \in Junk
    PROVE  Encode(t, i, junk) \in Nat
<1>1. CASE i.op \in JumpOps
  <2>. i.op \in Nat /\ i.op \notin OtherOps /\ Len(Format(i.op)) = 1
    BY <1>1, JumpOperand
  <2>1. 1 \in 1 .. Len(i.args) /\ IsOperand(i.args[1])
    BY DEF IsInstruction
  <2>2. junk \in Nat
    BY DEF Junk
  <2>3. Number(t, i, 1, junk) \in Nat
    BY <2>1, <2>2, UnionWordTyped, SymbolAddressTyped DEF Number
  <2>. DEFINE n == Number(t, i, 1, junk) % ImmSpan
  <2>4. n \in Nat /\ i.op \in Nat
    <3>1. i.op \in Nat
      OBVIOUS
    <3>2. n \in 0 .. ImmSpan - 1
      BY <2>3, ImmediateRange
    <3>. QED
      BY <3>1, <3>2
  <2>5. Pack(i.op, 0, 0, 0, n) \in Nat
    <3>. HIDE DEF n
    <3>. DEFINE high == 0 + NReg * (0 + NReg * (0 + NReg * i.op))
    <3>1. 0 + NReg * i.op \in Nat
      BY <2>4, ISAAssumption, DigitBefore
    <3>2. high \in Nat
      BY <3>1, ISAAssumption, DigitBefore
    <3>. HIDE DEF high
    <3>3. n + ImmSpan * high \in Nat
      BY <2>4, <3>2, ISAAssumption, DigitBefore
    <3>. QED
      BY <3>3 DEF Pack, high
  <2>. HIDE DEF n
  <2>6. Encode(t, i, junk) = Pack(i.op, 0, 0, 0, n)
    BY <1>1 DEF Encode, OtherOps, n
  <2>. QED
    BY <2>5, <2>6
<1>2. CASE i.op \notin JumpOps
  BY <1>2, JoinedTyped DEF Encode, ArithmeticImmediate
<1>. QED
  BY <1>1, <1>2

----------------------------------------------------------------------------
(* The assembler's variables have their types. *)

\* In the passes the parser has counted at most one instruction a line, and
\* the string loop has not begun; the texts in the table are bytes.
AssemblerInv ==
    /\ AssemblerTypeOK
    /\ TableInv(symbol_table)
    /\ stage \in Passes => current_address <= line /\ symbol = 1

\* The assembler starts with an empty table and an empty buffer.
LEMMA InitAssemblerInv == AssemblerInit => AssemblerInv
<1>. SUFFICES ASSUME AssemblerInit PROVE AssemblerInv
  OBVIOUS
<1>1. IsSource(source) /\ Len(source) \in Nat
  BY AssemblerAssumption DEF AssemblerInit, IsSource
<1>2. TableInv(EmptySymbolTable) /\ Len(EmptySymbolTable.symbols) = 0
  BY SymbolTableAssumption DEF TableInv, Shape, IsSymbolTable, EmptySymbolTable, None
<1>3. output_buffer \in [BufferByte -> Byte] /\ output_size \in 0 .. Capacity
  BY AssemblerAssumption DEF AssemblerInit
<1>. QED
  BY <1>1, <1>2, <1>3
     DEF AssemblerInit, AssemblerInv, AssemblerTypeOK, TableInv, Stage, Passes

\* What the invariant says of the line the parser is at.
LEMMA AtLineFacts ==
    ASSUME AssemblerInv, NEW kind, AtLine(kind)
    PROVE  /\ IsSource(source) /\ Len(source) \in Nat
           /\ line \in Nat /\ line + 1 \in 1 .. Len(source) /\ line + 1 \in 0 .. Len(source)
           /\ current_address \in Nat /\ current_address <= line /\ symbol = 1
           /\ source[line + 1].kind = kind /\ stage \in Passes
<1>1. IsSource(source) /\ line \in 0 .. Len(source) /\ current_address \in 0 .. Len(source)
  BY DEF AssemblerInv, AssemblerTypeOK
<1>2. Len(source) \in Nat
  BY <1>1 DEF IsSource
<1>. QED
  BY <1>1, <1>2 DEF AssemblerInv, AtLine

\* The table holds as many symbols as it has room for, or fewer.
LEMMA TableLength == ASSUME NEW t, TableInv(t) PROVE Len(t.symbols) \in Nat
  BY DEF TableInv, Shape

\* A line without a word changes neither table nor buffer.
LEMMA BlankOK == ASSUME AssemblerInv, Blank PROVE AssemblerInv'
<1>1. AtLine("blank") /\ line' = line + 1 /\ UNCHANGED <<source, parserVars>>
  BY DEF Blank, NextLine
<1>. QED
  BY <1>1, AtLineFacts DEF parserVars, AssemblerInv, AssemblerTypeOK

\* A label or a constant changes the table only, in the first pass.
LEMMA DefinitionOK == ASSUME AssemblerInv, Label \/ Constant PROVE AssemblerInv'
<1>1. PICK kind \in {"label", "constant"} :
          /\ AtLine(kind) /\ Defines(source[line + 1])
          /\ line' = line + 1 /\ source' = source
  BY DEF Label, Constant, NextLine
<1>. DEFINE l == source[line + 1]
<1>2. l.name \in Names /\ (l.kind = "constant" => l.value \in Nat) /\ l.kind = kind
  BY <1>1, AtLineFacts DEF IsSource
<1>3. LabelAddress \in Nat
  BY <1>1, AtLineFacts DEF LabelAddress
<1>. HIDE DEF l
<1>4. TableInv(symbol_table')
  <2>1. TableInv(symbol_table)
    BY DEF AssemblerInv
  <2>2. symbol_table' =
          IF stage # "pass1" THEN symbol_table
          ELSE IF l.kind = "label" THEN AfterDefineLabel(symbol_table, l.name, LabelAddress)
          ELSE AfterDefineConstant(symbol_table, l.name, l.value)
    BY <1>1 DEF Defines, l
  <2>. QED
    BY <1>2, <1>3, <2>1, <2>2, DefinedTable
<1>5. UNCHANGED <<stage, current_address, output_buffer, output_size, symbol>>
  BY <1>1 DEF Defines
<1>6. symbol' \in 1 .. Len(symbol_table'.symbols) + 1
  BY <1>1, <1>4, <1>5, AtLineFacts, TableLength
<1>. QED
  BY <1>1, <1>4, <1>5, <1>6, AtLineFacts DEF AssemblerInv, AssemblerTypeOK, TableInv

\* The first pass counts instructions.
LEMMA CountInstructionOK == ASSUME AssemblerInv, CountInstruction PROVE AssemblerInv'
<1>1. /\ AtLine("instruction") /\ line' = line + 1 /\ source' = source
      /\ current_address' = current_address + 1
      /\ UNCHANGED <<stage, symbol_table, output_buffer, output_size, symbol>>
  BY DEF CountInstruction, Counts, NextLine
<1>. QED
  BY <1>1, AtLineFacts DEF AssemblerInv, AssemblerTypeOK

\* An instruction that is encoded: the table and the output keep their types.
LEMMA EmitInstructionOK == ASSUME AssemblerInv, EmitInstruction PROVE AssemblerInv'
<1>. DEFINE i == source[line + 1].instruction
<1>1. AtLine("instruction") /\ Emits(i) /\ line' = line + 1 /\ source' = source
  BY DEF EmitInstruction, NextLine
<1>2. IsInstruction(i)
  BY <1>1, AtLineFacts DEF IsSource
<1>. HIDE DEF i
<1>3. TableInv(symbol_table')
  BY <1>1, <1>2, EncodedTable DEF Emits, AssemblerInv
<1>4. PICK junk \in Junk :
          output_buffer' = [b \in DOMAIN output_buffer |->
                              IF b \div 4 = output_size
                                THEN InstructionByte(Encode(symbol_table', i, junk), b % 4)
                                ELSE output_buffer[b]]
  BY <1>1 DEF Emits
<1>5. output_buffer' \in [BufferByte -> Byte]
  <2>1. Encode(symbol_table', i, junk) \in Nat
    BY <1>2, <1>3, EncodeTyped
  <2>2. \A b \in BufferByte : b % 4 \in 0 .. 3
    BY AssemblerAssumption DEF BufferByte
  <2>3. output_buffer \in [BufferByte -> Byte]
    BY DEF AssemblerInv, AssemblerTypeOK
  <2>. QED
    BY <1>4, <2>1, <2>2, <2>3, InstructionByteTyped
<1>6. output_size' \in 0 .. Capacity
  BY <1>1, AssemblerAssumption DEF Emits, Room, AssemblerInv, AssemblerTypeOK
<1>7. current_address' = current_address + 1 /\ UNCHANGED <<stage, symbol>>
  BY <1>1 DEF Emits
<1>8. symbol' \in 1 .. Len(symbol_table'.symbols) + 1
  BY <1>1, <1>3, <1>7, AtLineFacts, TableLength
<1>. QED
  BY <1>1, <1>3, <1>5, <1>6, <1>7, <1>8, AtLineFacts DEF AssemblerInv, AssemblerTypeOK, TableInv

\* An instruction without room in the buffer leaves it as it is.
LEMMA OutputOverflowOK == ASSUME AssemblerInv, OutputOverflow PROVE AssemblerInv'
<1>. DEFINE i == source[line + 1].instruction
<1>1. AtLine("instruction") /\ Overflows(i) /\ line' = line + 1 /\ source' = source
  BY DEF OutputOverflow, NextLine
<1>2. IsInstruction(i)
  BY <1>1, AtLineFacts DEF IsSource
<1>. HIDE DEF i
<1>3. TableInv(symbol_table')
  BY <1>1, <1>2, EncodedTable DEF Overflows, AssemblerInv
<1>4. stage' = "failed" /\ UNCHANGED <<current_address, output_buffer, output_size, symbol>>
  BY <1>1 DEF Overflows
<1>5. symbol' \in 1 .. Len(symbol_table'.symbols) + 1
  BY <1>1, <1>3, <1>4, AtLineFacts, TableLength
<1>. QED
  BY <1>1, <1>3, <1>4, <1>5, AtLineFacts
     DEF AssemblerInv, AssemblerTypeOK, TableInv, Stage, Ended, Passes

\* A line the parser rejects ends the assembly.
LEMMA ParserErrorOK == ASSUME AssemblerInv, ParserError PROVE AssemblerInv'
<1>1. /\ AtLine("error") /\ line' = line + 1 /\ source' = source /\ stage' = "failed"
      /\ UNCHANGED <<current_address, symbol_table, output_buffer, output_size, symbol>>
  BY DEF ParserError, Fails, NextLine
<1>. QED
  BY <1>1, AtLineFacts DEF AssemblerInv, AssemblerTypeOK, Stage, Ended, Passes

\* Between the passes only positions and sizes are reset.
LEMMA PassOK == ASSUME AssemblerInv, SecondPass \/ Parsed PROVE AssemblerInv'
<1>1. IsSource(source) /\ Len(source) \in Nat
  BY DEF AssemblerInv, AssemblerTypeOK, IsSource
<1>2. CASE SecondPass
  BY <1>1, <1>2, AssemblerAssumption
     DEF SecondPass, StartsSecondPass, AssemblerInv, AssemblerTypeOK, Stage, Passes
<1>3. CASE Parsed
  BY <1>1, <1>3 DEF Parsed, EndsSecondPass, AssemblerInv, AssemblerTypeOK, Stage, Passes
<1>. QED
  BY <1>2, <1>3

\* A string of the table is bytes at a natural address.
LEMMA StringTyped ==
    ASSUME AssemblerInv, AtString
    PROVE  LET s == symbol_table.symbols[symbol]
           IN  /\ symbol \in 1 .. Len(symbol_table.symbols) /\ stage = "strings"
               /\ s.address \in Nat /\ s.text \in Seq(Byte)
               /\ Terminated(s.text) \in Seq(Byte)
               /\ Len(Terminated(s.text)) = Len(s.text) + 1 /\ Len(s.text) \in Nat
<1>. DEFINE s == symbol_table.symbols[symbol]
<1>1. symbol_table.symbols \in Seq(Entry(Seq(Byte))) /\ Len(symbol_table.symbols) \in Nat
  BY DEF AssemblerInv, TableInv, Shape
<1>2. symbol \in 1 .. Len(symbol_table.symbols) /\ stage = "strings"
  BY <1>1 DEF AtString, AssemblerInv, AssemblerTypeOK
<1>3. s \in Entry(Seq(Byte))
  BY <1>1, <1>2
<1>. HIDE DEF s
<1>4. s.address \in Nat /\ s.text \in Seq(Byte)
  <2>1. <<>> \in Seq(Byte)
    OBVIOUS
  <2>2. s.address \in Nat /\ s.text \in Seq(Byte) \union {<<>>}
    BY <1>3 DEF Entry
  <2>. QED
    BY <2>1, <2>2
<1>5. 0 \in Byte
  BY ByteAssumption DEF Byte
<1>6. Append(s.text, 0) \in Seq(Byte) /\ Len(Append(s.text, 0)) = Len(s.text) + 1
  BY <1>4, <1>5
<1>. QED
  BY <1>2, <1>4, <1>6 DEF s, Terminated

\* The copy writes bytes, and never leaves the output larger than its buffer.
LEMMA CopyStringOK == ASSUME AssemblerInv, CopyString PROVE AssemblerInv'
<1>. DEFINE s == symbol_table.symbols[symbol]
            end == WordsOf(s.address + Len(Terminated(s.text)))
<1>1. /\ AtString /\ SpaceChecked(s) /\ symbol' = symbol + 1
      /\ output_buffer' =
            [b \in DOMAIN output_buffer |->
                IF b \in FirstByte(s) .. LastByte(s)
                  THEN Terminated(s.text)[b - FirstByte(s) + 1]
                  ELSE output_buffer[b]]
      /\ output_size' = IF end > output_size THEN end ELSE output_size
      /\ UNCHANGED <<source, stage, line, current_address, symbol_table>>
  BY DEF CopyString
<1>2. /\ symbol \in 1 .. Len(symbol_table.symbols) /\ stage = "strings"
      /\ s.address \in Nat /\ Len(s.text) \in Nat
      /\ Terminated(s.text) \in Seq(Byte) /\ Len(Terminated(s.text)) = Len(s.text) + 1
  BY <1>1, StringTyped
<1>3. Len(symbol_table.symbols) \in Nat
  BY TableLength DEF AssemblerInv
<1>4. output_buffer' \in [BufferByte -> Byte]
  <2>1. \A b \in BufferByte : b \in FirstByte(s) .. LastByte(s) =>
            Terminated(s.text)[b - FirstByte(s) + 1] \in Byte
    <3>. HIDE DEF s
    <3>1. ASSUME NEW b \in Nat, b \in FirstByte(s) .. LastByte(s)
          PROVE  b - FirstByte(s) + 1 \in 1 .. Len(Terminated(s.text))
      BY <1>2, <3>1 DEF FirstByte, LastByte
    <3>. QED
      BY <1>2, <3>1, AssemblerAssumption DEF BufferByte
  <2>2. output_buffer \in [BufferByte -> Byte]
    BY DEF AssemblerInv, AssemblerTypeOK
  <2>. QED
    BY <1>1, <2>1, <2>2
<1>5. output_size' \in 0 .. Capacity
  <2>1. output_size \in 0 .. Capacity /\ Capacity \in Nat
    BY AssemblerAssumption DEF AssemblerInv, AssemblerTypeOK
  <2>2. end \in 0 .. Capacity
    <3>. HIDE DEF s
    <3>1. s.address + Len(Terminated(s.text)) \in Nat /\ s.address + Len(Terminated(s.text)) <= 4 * Capacity
      BY <1>1, <1>2 DEF SpaceChecked
    <3>2. ASSUME NEW n \in Nat, n <= 4 * Capacity PROVE (n + 3) \div 4 \in 0 .. Capacity
      BY <2>1, <3>2
    <3>. QED
      BY <3>1, <3>2 DEF WordsOf
  <2>. QED
    BY <1>1, <2>1, <2>2
<1>6. stage' \notin Passes /\ symbol' \in 1 .. Len(symbol_table'.symbols) + 1
  BY <1>1, <1>2, <1>3 DEF Passes
<1>. QED
  BY <1>1, <1>4, <1>5, <1>6 DEF AssemblerInv, AssemblerTypeOK

\* A string that does not fit ends the assembly.
LEMMA StringStopOK == ASSUME AssemblerInv, CopyAborts \/ StringsTooLong PROVE AssemblerInv'
<1>1. /\ stage' = "failed"
      /\ UNCHANGED <<source, line, current_address, symbol_table, output_buffer, output_size, symbol>>
  BY DEF CopyAborts, StringsTooLong
<1>. QED
  BY <1>1 DEF AssemblerInv, AssemblerTypeOK, Stage, Ended, Passes

\* The string loop passes a symbol that is not a string.
LEMMA StringNextOK == ASSUME AssemblerInv, OtherSymbol \/ StringsDone PROVE AssemblerInv'
<1>1. CASE OtherSymbol
  <2>1. Len(symbol_table.symbols) \in Nat
    BY TableLength DEF AssemblerInv
  <2>2. symbol + 1 \in 1 .. Len(symbol_table.symbols) + 1
    BY <1>1, <2>1 DEF OtherSymbol, AssemblerInv, AssemblerTypeOK
  <2>. QED
    BY <1>1, <2>2 DEF OtherSymbol, AssemblerInv, AssemblerTypeOK, Passes
<1>2. CASE StringsDone
  BY <1>2 DEF StringsDone, AssemblerInv, AssemblerTypeOK, Stage, Passes
<1>. QED
  BY <1>1, <1>2

\* Every step of assembler_assemble_string keeps the invariant.
LEMMA AssembleStringOK == ASSUME AssemblerInv, AssembleString PROVE AssemblerInv'
  BY BlankOK, DefinitionOK, CountInstructionOK, EmitInstructionOK, OutputOverflowOK,
     ParserErrorOK, PassOK, CopyStringOK, StringStopOK, StringNextOK
     DEF AssembleString

\* Writing a file leaves the assembler as it is.
LEMMA FileWriteOK ==
    ASSUME AssemblerInv, stage' \in {"written", "unwritten"},
           UNCHANGED <<source, line, current_address, symbol_table, output_buffer, output_size, symbol>>
    PROVE  AssemblerInv'
  BY DEF AssemblerInv, AssemblerTypeOK, Stage, Ended, Passes

LEMMA WriteFileOK == ASSUME AssemblerInv, WriteFile PROVE AssemblerInv'
  BY FileWriteOK DEF WriteFile

\* The invariant is about the variables of the assembler.
LEMMA AssemblerKept == ASSUME AssemblerInv, UNCHANGED asmVars PROVE AssemblerInv'
  BY DEF asmVars, AssemblerInv, AssemblerTypeOK

\* Whatever the source, the assembler's output stays within its buffer and
\* holds bytes only, and the symbol table keeps its shape: operands of any
\* type, undefined names, a full table and strings at any address included.
THEOREM AssemblerTypeCorrect == AssemblerSpec => []AssemblerTypeOK
<1>1. AssemblerInv /\ [AssemblerNext]_asmVars => AssemblerInv'
  BY AssembleStringOK, WriteFileOK, AssemblerKept DEF AssemblerNext, Assemble, AssemblerExited
<1>2. AssemblerInv => AssemblerTypeOK
  BY DEF AssemblerInv
<1>. QED
  BY <1>1, <1>2, InitAssemblerInv, PTL DEF AssemblerSpec

----------------------------------------------------------------------------
(* The fields of an instruction word. *)

\* The fields of an instruction, or-ed together, are the fields put one next
\* to the other, if each is within its width.
LEMMA JoinedPack ==
    ASSUME NEW op \in 0 .. OpSpan - 1, NEW a \in Register, NEW b \in Register,
           NEW c \in Register, NEW n \in 0 .. ImmSpan - 1
    PROVE  Joined(op, a, b, c, n) = Pack(op, a, b, c, n)
<1>. DEFINE w == Pack(op, a, b, c, n)
            parts == {Pack(op, 0, 0, 0, n), Pack(0, a, 0, 0, 0),
                      Pack(0, 0, b, 0, 0), Pack(0, 0, 0, c, 0)}
<1>1. w \in Word
  BY PackWord
<1>2. 0 \in Register /\ 0 \in 0 .. ImmSpan - 1 /\ op \in Nat
  BY Widths DEF Register
<1>3. PICK i \in Nat, r \in Nat : i + 3 * r <= WordBits /\ ImmSpan = Power[i] /\ NReg = Power[r]
  <2>1. WordBits \in Nat
    BY ISAAssumption
  <2>. QED
    BY <2>1, FieldAssumption
<1>4. ASSUME NEW k \in 0 .. WordBits - 1
      PROVE  (\E p \in parts : Bit(p, k) = 1) <=> Bit(w, k) = 1
  <2>. DEFINE Digit(vo, va, vb, vc, vn) ==
                IF k < i THEN Bit(vn, k)
                ELSE IF k - i < r THEN Bit(vc, k - i)
                ELSE IF (k - i) - r < r THEN Bit(vb, (k - i) - r)
                ELSE IF ((k - i) - r) - r < r THEN Bit(va, ((k - i) - r) - r)
                ELSE Bit(vo, (((k - i) - r) - r) - r)
  <2>1. Bit(w, k) = Digit(op, a, b, c, n)
    BY <1>2, <1>3, PackBits
  <2>2. Bit(Pack(op, 0, 0, 0, n), k) = Digit(op, 0, 0, 0, n)
    BY <1>2, <1>3, PackBits
  <2>3. Bit(Pack(0, a, 0, 0, 0), k) = Digit(0, a, 0, 0, 0)
    BY <1>2, <1>3, PackBits
  <2>4. Bit(Pack(0, 0, b, 0, 0), k) = Digit(0, 0, b, 0, 0)
    BY <1>2, <1>3, PackBits
  <2>5. Bit(Pack(0, 0, 0, c, 0), k) = Digit(0, 0, 0, c, 0)
    BY <1>2, <1>3, PackBits
  <2>6. /\ k < i => Bit(0, k) = 0
        /\ ~(k < i) => Bit(0, k - i) = 0
        /\ ~(k < i) /\ ~(k - i < r) => Bit(0, (k - i) - r) = 0
        /\ ~(k < i) /\ ~(k - i < r) /\ ~((k - i) - r < r) => Bit(0, ((k - i) - r) - r) = 0
        /\ ~(k < i) /\ ~(k - i < r) /\ ~((k - i) - r < r) /\ ~(((k - i) - r) - r < r) =>
              Bit(0, (((k - i) - r) - r) - r) = 0
    <3>1. WordBits \in Nat
      BY ISAAssumption
    <3>2. \A j \in 0 .. WordBits - 1 : Bit(0, j) = 0
      BY BitOfZero
    <3>. QED
      BY <3>1, <3>2
  <2>7. (\E p \in parts : Bit(p, k) = 1) <=>
            \/ Digit(op, 0, 0, 0, n) = 1 \/ Digit(0, a, 0, 0, 0) = 1
            \/ Digit(0, 0, b, 0, 0) = 1 \/ Digit(0, 0, 0, c, 0) = 1
    <3>. HIDE DEF Digit
    <3>. QED
      BY <2>2, <2>3, <2>4, <2>5
  <2>. QED
    BY <2>1, <2>6, <2>7
<1>5. [k \in 0 .. WordBits - 1 |-> IF \E p \in parts : Bit(p, k) = 1 THEN 1 ELSE 0]
        = [k \in 0 .. WordBits - 1 |-> Bit(w, k)]
  <2>. HIDE DEF parts
  <2>1. \A k \in 0 .. WordBits - 1 : Bit(w, k) \in {0, 1}
    BY <1>1, BitValue, WordAssumption DEF Word
  <2>. HIDE DEF w
  <2>2. \A k \in 0 .. WordBits - 1 : (IF \E p \in parts : Bit(p, k) = 1 THEN 1 ELSE 0) = Bit(w, k)
    BY <1>4, <2>1
  <2>. QED
    BY <2>2
<1>6. Joined(op, a, b, c, n) = FromBits([k \in 0 .. WordBits - 1 |-> Bit(w, k)])
  BY <1>5 DEF Joined
<1>. QED
  BY <1>1, <1>6, BitsOfWord

----------------------------------------------------------------------------
(* What the encoder makes of an instruction whose operands have the types  *)
(* it expects.                                                             *)

\* A word with these fields.
HasFields(w, op, a, b, c, n) ==
    /\ w \in Word /\ Opcode(w) = op
    /\ Reg1(w) = a /\ Reg2(w) = b /\ Reg3(w) = c /\ Imm(w) = n

\* The fields of a packed word are those it was packed from.
LEMMA PackedFields ==
    ASSUME NEW op \in Opcodes, NEW a \in Register, NEW b \in Register, NEW c \in Register,
           NEW n \in 0 .. ImmSpan - 1
    PROVE  /\ HasFields(Pack(op, a, b, c, n), op, a, b, c, n)
           /\ HasFields(Joined(op, a, b, c, n), op, a, b, c, n)
<1>1. op \in 0 .. OpSpan - 1 /\ op \in Nat
  BY OpcodeAssumption, ISAAssumption
<1>2. HasFields(Pack(op, a, b, c, n), op, a, b, c, n)
  BY <1>1, PackWord, PackFields DEF HasFields
<1>. QED
  BY <1>1, <1>2, JoinedPack

\* The number of operands of an instruction, and the types of the operands.
LEMMA FormatTypes ==
    ASSUME NEW op \in Opcodes
    PROVE  \/ /\ op \in ImmediateOps /\ Len(Format(op)) = 2
              /\ Format(op)[1] = {"REGISTER"}
              /\ "LABEL" \in Format(op)[2] => op \in {Op.MOV, Op.LOAD}
              /\ "STRING" \in Format(op)[2] => op = Op.MOV
           \/ op \in JumpOps /\ Format(op) = <<{"LABEL", "IMMEDIATE", "REGISTER"}>>
           \/ /\ op \in ArithmeticOps
              /\ Format(op) = <<{"REGISTER"}, {"REGISTER"}, {"IMMEDIATE", "REGISTER"}>>
           \/ op = Op.CMP /\ Format(op) = <<{"REGISTER"}, {"IMMEDIATE", "REGISTER"}>>
           \/ /\ op \in IndexedOps \union LogicOps
              /\ Format(op) = <<{"REGISTER"}, {"REGISTER"}, {"REGISTER"}>>
           \/ op \in IndirectOps /\ Format(op) = <<{"REGISTER"}, {"REGISTER"}>>
           \/ op \in SingleOps /\ Format(op) = <<{"REGISTER"}>>
           \/ op \in NullaryOps /\ Format(op) = <<>>
<1>. USE DEF Op
<1>1. CASE op \in ImmediateOps
  BY <1>1 DEF ImmediateOps, Format
<1>2. CASE op \in JumpOps
  BY <1>2 DEF JumpOps, Format
<1>3. CASE op \in ArithmeticOps
  BY <1>3 DEF ArithmeticOps, JumpOps, Format
<1>4. CASE op = Op.CMP
  BY <1>4 DEF JumpOps, Format
<1>5. CASE op \in IndexedOps \union LogicOps
  BY <1>5 DEF IndexedOps, LogicOps, JumpOps, ArithmeticOps, Format
<1>6. CASE op \in IndirectOps
  BY <1>6 DEF IndirectOps, IndexedOps, LogicOps, JumpOps, ArithmeticOps, Format
<1>7. CASE op \in SingleOps
  BY <1>7 DEF SingleOps, IndirectOps, IndexedOps, LogicOps, JumpOps, ArithmeticOps, Format
<1>8. CASE op \in NullaryOps
  BY <1>8 DEF NullaryOps, SingleOps, IndirectOps, IndexedOps, LogicOps, JumpOps, ArithmeticOps, Format
<1>9. \/ op \in ImmediateOps \/ op \in JumpOps \/ op \in ArithmeticOps \/ op = Op.CMP
      \/ op \in IndexedOps \union LogicOps \/ op \in IndirectOps \/ op \in SingleOps
      \/ op \in NullaryOps
  BY DEF Opcodes, ImmediateOps, JumpOps, ArithmeticOps, IndexedOps, LogicOps, IndirectOps,
         SingleOps, NullaryOps
<1>. QED
  BY <1>1, <1>2, <1>3, <1>4, <1>5, <1>6, <1>7, <1>8, <1>9

\* The encoder's cases exclude each other.
LEMMA Classes ==
    ASSUME NEW op
    PROVE  /\ op \in ImmediateOps => op \notin JumpOps \union ArithmeticOps \union {Op.CMP}
           /\ op \in JumpOps => op \notin ImmediateOps \union ArithmeticOps \union {Op.CMP}
           /\ op \in ArithmeticOps => op \notin ImmediateOps \union JumpOps \union {Op.CMP}
           /\ op = Op.CMP => op \notin ImmediateOps \union JumpOps \union ArithmeticOps
           /\ op \in IndexedOps \union LogicOps \union IndirectOps \union SingleOps \union NullaryOps =>
                 op \notin ImmediateOps \union JumpOps \union ArithmeticOps \union {Op.CMP}
  BY DEF Op, ImmediateOps, JumpOps, ArithmeticOps, IndexedOps, LogicOps, IndirectOps,
         SingleOps, NullaryOps

\* The value of an operand is a number.
LEMMA NumberTyped ==
    ASSUME NEW t, TableInv(t), NEW i, IsInstruction(i), NEW junk \in Junk,
           NEW k \in 1 .. Len(i.args)
    PROVE  Number(t, i, k, junk) \in Nat
<1>1. IsOperand(i.args[k]) /\ junk \in Nat
  BY DEF IsInstruction, Junk
<1>. QED
  BY <1>1, UnionWordTyped, SymbolAddressTyped DEF Number

\* The number of an operand is what it denotes.
LEMMA NumberOf ==
    ASSUME NEW t, NEW i, IsInstruction(i), NEW junk, NEW k \in 1 .. Len(i.args)
    PROVE  LET o == i.args[k]
           IN  /\ o.type \in {"IMMEDIATE", "MEMORY"} => Number(t, i, k, junk) = o.value
               /\ o.type = "LABEL" /\ ((k = 2 /\ i.op \in {Op.MOV, Op.LOAD}) \/ i.op \in JumpOps) =>
                     Number(t, i, k, junk) = SymbolAddress(t, o.label)
               /\ o.type = "STRING" /\ k = 2 /\ i.op = Op.MOV =>
                     Number(t, i, k, junk) = SymbolAddress(t, StringName[o.string])
<1>. DEFINE o == i.args[k]
<1>1. CASE o.type \in {"IMMEDIATE", "MEMORY"}
  <2>1. o \notin Symbolic(i)
    BY <1>1 DEF Symbolic
  <2>2. UnionWord(o, junk) = o.value
    BY <1>1 DEF UnionWord
  <2>. QED
    BY <1>1, <2>1, <2>2 DEF Number
<1>2. CASE o.type = "LABEL" /\ ((k = 2 /\ i.op \in {Op.MOV, Op.LOAD}) \/ i.op \in JumpOps)
  <2>1. o \in Symbolic(i)
    BY <1>2 DEF Symbolic
  <2>. QED
    BY <1>2, <2>1 DEF Number, SymbolName
<1>3. CASE o.type = "STRING" /\ k = 2 /\ i.op = Op.MOV
  <2>1. o \in Symbolic(i)
    BY <1>3 DEF Symbolic
  <2>. QED
    BY <1>3, <2>1 DEF Number, SymbolName
<1>. QED
  BY <1>1, <1>2, <1>3

\* A register operand, read as a byte, is the register; a missing one is 0.
LEMMA RegisterFields ==
    ASSUME NEW i, NEW k \in 1 .. 3
    PROVE  /\ k <= Len(i.args) /\ i.args[k].type = "REGISTER" /\ i.args[k].reg \in Register =>
                 RegisterField(i, k) = i.args[k].reg
           /\ ~(k <= Len(i.args)) => RegisterField(i, k) = 0
           /\ 0 \in Register
<1>. DEFINE o == i.args[k]
<1>1. CASE k <= Len(i.args) /\ o.type = "REGISTER" /\ o.reg \in Register
  <2>1. ByteSpan \in Nat \ {0} /\ o.reg \in Nat /\ o.reg < ByteSpan
    <3>1. ByteSpan \in Nat \ {0}
      BY ByteAssumption
    <3>2. NReg \in Nat
      BY ISAAssumption
    <3>3. NReg <= ByteSpan
      BY EncoderAssumption
    <3>4. o.reg \in 0 .. NReg - 1
      BY <1>1 DEF Register
    <3>. HIDE DEF o
    <3>. QED
      BY <3>1, <3>2, <3>3, <3>4
  <2>2. UnionWord(o, 0) = o.reg + ByteSpan * 0
    BY <1>1 DEF UnionWord
  <2>3. \A r, m \in Nat : r < m => (r + m * 0) % m = r
    OBVIOUS
  <2>4. UnionByte(o) = o.reg
    BY <2>1, <2>2, <2>3 DEF UnionByte
  <2>. QED
    BY <1>1, <2>4, Widths DEF RegisterField, Register
<1>. QED
  BY <1>1, Widths DEF RegisterField, Register

\* What the word w says of the instruction i, names taken from the table t.
EncodedAs(t, w, i) ==
    /\ w \in Word /\ DecodesLiterally(w, i)
    /\ \A k \in 1 .. Len(i.args) :
          LET o == i.args[k]
          IN  /\ o.type = "LABEL"  => Imm(w) = SymbolAddress(t, o.label) % ImmSpan
              /\ o.type = "STRING" => Imm(w) = SymbolAddress(t, StringName[o.string]) % ImmSpan

\* Instructions with a register and an immediate.
LEMMA EncodeImmediate ==
    ASSUME NEW t, TableInv(t), NEW i, IsInstruction(i), WellTyped(i), NEW junk \in Junk,
           i.op \in ImmediateOps
    PROVE  EncodedAs(t, Encode(t, i, junk), i)
<1>. DEFINE w == Encode(t, i, junk)
            n == Number(t, i, 2, junk)
<1>1. /\ Len(Format(i.op)) = 2 /\ Format(i.op)[1] = {"REGISTER"} /\ i.op \in Opcodes
      /\ "LABEL" \in Format(i.op)[2] => i.op \in {Op.MOV, Op.LOAD}
      /\ "STRING" \in Format(i.op)[2] => i.op = Op.MOV
  BY FormatTypes, Classes DEF IsInstruction
<1>2. /\ Len(i.args) = 2 /\ 1 \in 1 .. Len(i.args) /\ 2 \in 1 .. Len(i.args)
      /\ IsOperand(i.args[1]) /\ IsOperand(i.args[2])
      /\ i.args[1].type = "REGISTER" /\ i.args[1].reg \in Register
      /\ i.args[2].type \in Format(i.op)[2]
  <2>1. Len(i.args) = 2 /\ 1 \in 1 .. Len(i.args) /\ 2 \in 1 .. Len(i.args)
    BY <1>1 DEF IsInstruction
  <2>2. /\ IsOperand(i.args[1]) /\ IsOperand(i.args[2])
        /\ i.args[1].type = "REGISTER" /\ i.args[2].type \in Format(i.op)[2]
    BY <1>1, <2>1 DEF IsInstruction, WellTyped
  <2>. QED
    BY <2>1, <2>2 DEF IsOperand
<1>3. RegisterField(i, 1) = i.args[1].reg /\ 0 \in Register
  BY <1>2, RegisterFields
<1>4. n % ImmSpan \in 0 .. ImmSpan - 1
  BY <1>2, NumberTyped, ImmediateRange
<1>5. w = Joined(i.op, i.args[1].reg, 0, 0, n % ImmSpan)
  BY <1>3, Classes DEF Encode
<1>6. HasFields(w, i.op, i.args[1].reg, 0, 0, n % ImmSpan)
  BY <1>1, <1>2, <1>3, <1>4, <1>5, PackedFields
<1>7. /\ i.args[2].type \in {"IMMEDIATE", "MEMORY"} => n = i.args[2].value
      /\ i.args[2].type = "LABEL" => n = SymbolAddress(t, i.args[2].label)
      /\ i.args[2].type = "STRING" => n = SymbolAddress(t, StringName[i.args[2].string])
  BY <1>1, <1>2, NumberOf
<1>8. i.op \notin JumpOps /\ i.op \notin ArithmeticOps /\ i.op # Op.CMP
  BY Classes
<1>9. RegisterOperands(i.op) = {1}
  BY <1>8 DEF RegisterOperands
<1>. HIDE DEF w, n
<1>10. \A k \in 1 .. Len(i.args) : k = 1 \/ k = 2
  BY <1>2
<1>. QED
  BY <1>2, <1>6, <1>7, <1>8, <1>9, <1>10 DEF EncodedAs, DecodesLiterally, HasFields, w

\* Jumps and calls.
LEMMA EncodeJump ==
    ASSUME NEW t, TableInv(t), NEW i, IsInstruction(i), WellTyped(i), NEW junk \in Junk,
           i.op \in JumpOps
    PROVE  EncodedAs(t, Encode(t, i, junk), i)
<1>. DEFINE w == Encode(t, i, junk)
            n == Number(t, i, 1, junk)
<1>1. i.op \in Opcodes /\ Format(i.op) = <<{"LABEL", "IMMEDIATE", "REGISTER"}>>
  BY FormatTypes, Classes DEF IsInstruction
<1>2. /\ Len(i.args) = 1 /\ 1 \in 1 .. Len(i.args)
      /\ IsOperand(i.args[1])
      /\ i.args[1].type \in {"LABEL", "IMMEDIATE", "REGISTER"}
  BY <1>1 DEF IsInstruction, WellTyped
<1>3. n % ImmSpan \in 0 .. ImmSpan - 1
  BY <1>2, NumberTyped, ImmediateRange
<1>4. i.op \notin ImmediateOps /\ i.op \notin ArithmeticOps /\ i.op # Op.CMP
  BY Classes
<1>5. w = Pack(i.op, 0, 0, 0, n % ImmSpan)
  BY <1>4 DEF Encode
<1>6. HasFields(w, i.op, 0, 0, 0, n % ImmSpan)
  BY <1>1, <1>3, <1>5, PackedFields, RegisterFields
<1>7. /\ i.args[1].type = "IMMEDIATE" => n = i.args[1].value
      /\ i.args[1].type = "LABEL" => n = SymbolAddress(t, i.args[1].label)
  BY <1>2, NumberOf
<1>8. RegisterOperands(i.op) = {}
  BY DEF RegisterOperands
<1>. HIDE DEF w, n
<1>9. \A k \in 1 .. Len(i.args) : k = 1
  BY <1>2
<1>. QED
  BY <1>2, <1>4, <1>6, <1>7, <1>8, <1>9 DEF EncodedAs, DecodesLiterally, HasFields, w

\* Instructions with registers only.
LEMMA EncodeRegisters ==
    ASSUME NEW t, NEW i, IsInstruction(i), WellTyped(i), NEW junk,
           i.op \notin ImmediateOps \union JumpOps,
           \A k \in 1 .. Len(i.args) : i.args[k].type = "REGISTER"
    PROVE  EncodedAs(t, Encode(t, i, junk), i)
<1>. DEFINE w == Encode(t, i, junk)
            a == RegisterField(i, 1)
            b == RegisterField(i, 2)
            c == RegisterField(i, 3)
<1>1. Len(i.args) \in 0 .. 3 /\ i.op \in Opcodes /\ (i.op \in ArithmeticOps \union {Op.CMP} => Len(i.args) > 0)
  <2>1. i.op \in Opcodes /\ Len(i.args) = Len(Format(i.op))
    BY DEF IsInstruction
  <2>2. Len(Format(i.op)) \in 0 .. 3
    BY <2>1, FormatTypes
  <2>3. i.op \in ArithmeticOps => Len(Format(i.op)) = 3
    <3>1. i.op \in ArithmeticOps =>
              Format(i.op) = <<{"REGISTER"}, {"REGISTER"}, {"IMMEDIATE", "REGISTER"}>>
      BY <2>1, FormatTypes, Classes
    <3>. QED
      BY <3>1
  <2>4. i.op = Op.CMP => Len(Format(i.op)) = 2
    <3>1. i.op = Op.CMP => Format(i.op) = <<{"REGISTER"}, {"IMMEDIATE", "REGISTER"}>>
      BY <2>1, FormatTypes, Classes
    <3>. QED
      BY <3>1
  <2>. QED
    BY <2>1, <2>2, <2>3, <2>4
<1>2. \A k \in 1 .. Len(i.args) : i.args[k].reg \in Register
  BY DEF IsInstruction, IsOperand
<1>3. /\ 1 <= Len(i.args) => a = i.args[1].reg
      /\ 2 <= Len(i.args) => b = i.args[2].reg
      /\ 3 <= Len(i.args) => c = i.args[3].reg
      /\ a \in Register /\ b \in Register /\ c \in Register
  <2>1. /\ 1 <= Len(i.args) => 1 \in 1 .. Len(i.args)
        /\ 2 <= Len(i.args) => 2 \in 1 .. Len(i.args)
        /\ 3 <= Len(i.args) => 3 \in 1 .. Len(i.args)
    BY <1>1
  <2>. QED
    BY <1>2, <2>1, RegisterFields
<1>4. i.op \in ArithmeticOps \union {Op.CMP} => LastArg(i).type = "REGISTER"
  BY <1>1 DEF LastArg
<1>5. w = Joined(i.op, a, b, c, 0)
  BY <1>4 DEF Encode
<1>6. 0 \in 0 .. ImmSpan - 1 /\ ~(0 >= ImmSpan \div 2)
  BY ISAAssumption
<1>7. HasFields(w, i.op, a, b, c, 0)
  BY <1>1, <1>3, <1>5, <1>6, PackedFields
<1>8. ~ImmediateMode(w)
  BY <1>6, <1>7 DEF HasFields, ImmediateMode
<1>. HIDE DEF w, a, b, c
<1>9. \A k \in 1 .. Len(i.args) :
          /\ k = 1 \/ k = 2 \/ k = 3
          /\ << Reg1(w), Reg2(w), Reg3(w) >>[k] = i.args[k].reg
  BY <1>1, <1>3, <1>7 DEF HasFields
<1>. QED
  BY <1>7, <1>8, <1>9 DEF EncodedAs, DecodesLiterally, HasFields, w

\* Instructions with two sources, the second a register or a number.
LEMMA EncodeArithmetic ==
    ASSUME NEW t, NEW i, IsInstruction(i), WellTyped(i), NEW junk,
           i.op \in ArithmeticOps, LastArg(i).type = "IMMEDIATE"
    PROVE  EncodedAs(t, Encode(t, i, junk), i)
<1>. DEFINE w == Encode(t, i, junk)
            half == ImmSpan \div 2
            a == i.args[1].reg
            b == i.args[2].reg
            v == i.args[3].value
<1>1. i.op \in Opcodes /\ Format(i.op) = <<{"REGISTER"}, {"REGISTER"}, {"IMMEDIATE", "REGISTER"}>>
  BY FormatTypes, Classes DEF IsInstruction
<1>2. /\ Len(i.args) = 3 /\ 1 \in 1 .. Len(i.args) /\ 2 \in 1 .. Len(i.args) /\ 3 \in 1 .. Len(i.args)
  BY <1>1 DEF IsInstruction
<1>3. /\ i.args[1].type = "REGISTER" /\ i.args[2].type = "REGISTER" /\ i.args[3].type = "IMMEDIATE"
      /\ IsOperand(i.args[1]) /\ IsOperand(i.args[2]) /\ IsOperand(i.args[3])
  BY <1>1, <1>2 DEF IsInstruction, WellTyped, LastArg
<1>4. a \in Register /\ b \in Register /\ v \in Nat
  BY <1>3 DEF IsOperand
<1>5. RegisterField(i, 1) = a /\ RegisterField(i, 2) = b /\ 0 \in Register
  BY <1>2, <1>3, <1>4, RegisterFields
<1>6. half \in Nat \ {0} /\ 2 * half <= ImmSpan
  BY ISAAssumption
<1>7. v % half \in 0 .. half - 1
  <2>. HIDE DEF half, v
  <2>. QED
    BY <1>4, <1>6, ModRange
<1>. DEFINE n == half + (v % half)
<1>8. n \in 0 .. ImmSpan - 1 /\ n >= half /\ n % half = v % half
  <2>. DEFINE r == v % half
  <2>1. r \in 0 .. half - 1
    BY <1>7
  <2>. HIDE DEF half, r
  <2>2. (half * 1 + r) % half = r /\ half * 1 = half
    <3>1. 1 \in Int
      OBVIOUS
    <3>. QED
      BY <1>6, <2>1, <3>1, QuotRem
  <2>3. ImmSpan \in Nat
    BY ISAAssumption
  <2>. QED
    BY <1>6, <2>1, <2>2, <2>3 DEF r
<1>9. i.op \notin ImmediateOps /\ i.op \notin JumpOps /\ i.op # Op.CMP
  BY Classes
<1>10. w = Joined(i.op, a, b, 0, n)
  BY <1>5, <1>9 DEF Encode, ArithmeticImmediate
<1>. HIDE DEF n
<1>11. HasFields(w, i.op, a, b, 0, n)
  BY <1>1, <1>4, <1>5, <1>8, <1>10, PackedFields
<1>. HIDE DEF w
<1>12. ImmediateMode(w) /\ ExtImm(w) = v % half
  BY <1>8, <1>11 DEF HasFields, ImmediateMode, ExtImm
<1>13. \A k \in 1 .. Len(i.args) : k = 1 \/ k = 2 \/ k = 3
  BY <1>2
<1>. QED
  BY <1>3, <1>9, <1>11, <1>12, <1>13 DEF EncodedAs, DecodesLiterally, HasFields, w

\* The comparison.
LEMMA EncodeComparison ==
    ASSUME NEW t, NEW i, IsInstruction(i), WellTyped(i), NEW junk,
           i.op = Op.CMP, LastArg(i).type = "IMMEDIATE"
    PROVE  EncodedAs(t, Encode(t, i, junk), i)
<1>. DEFINE w == Encode(t, i, junk)
            a == i.args[1].reg
            n == i.args[2].value % ImmSpan
<1>1. i.op \in Opcodes /\ Format(i.op) = <<{"REGISTER"}, {"IMMEDIATE", "REGISTER"}>>
  BY FormatTypes, Classes DEF IsInstruction
<1>2. /\ Len(i.args) = 2 /\ 1 \in 1 .. Len(i.args) /\ 2 \in 1 .. Len(i.args)
  BY <1>1 DEF IsInstruction
<1>3. /\ i.args[1].type = "REGISTER" /\ i.args[2].type = "IMMEDIATE"
      /\ IsOperand(i.args[1]) /\ IsOperand(i.args[2])
  BY <1>1, <1>2 DEF IsInstruction, WellTyped, LastArg
<1>4. a \in Register /\ i.args[2].value \in Nat
  BY <1>3 DEF IsOperand
<1>5. RegisterField(i, 1) = a /\ 0 \in Register
  BY <1>2, <1>3, <1>4, RegisterFields
<1>6. n \in 0 .. ImmSpan - 1
  BY <1>4, ImmediateRange
<1>7. i.op \notin ImmediateOps /\ i.op \notin JumpOps /\ i.op \notin ArithmeticOps
  BY Classes
<1>8. w = Joined(i.op, a, 0, 0, n)
  BY <1>5, <1>7 DEF Encode
<1>. HIDE DEF n
<1>9. HasFields(w, i.op, a, 0, 0, n)
  BY <1>1, <1>4, <1>5, <1>6, <1>8, PackedFields
<1>. HIDE DEF w
<1>10. \A k \in 1 .. Len(i.args) : k = 1 \/ k = 2
  BY <1>2
<1>. QED
  BY <1>3, <1>7, <1>9, <1>10 DEF EncodedAs, DecodesLiterally, HasFields, w, n

\* The encoder says what the instruction says.
LEMMA EncodeFaithful ==
    ASSUME NEW t, TableInv(t), NEW i, IsInstruction(i), WellTyped(i), NEW junk \in Junk
    PROVE  EncodedAs(t, Encode(t, i, junk), i)
<1>1. i.op \in Opcodes /\ Len(i.args) = Len(Format(i.op))
  BY DEF IsInstruction
<1>2. CASE i.op \in ImmediateOps
  BY <1>2, EncodeImmediate
<1>3. CASE i.op \in JumpOps
  BY <1>3, EncodeJump
<1>4. CASE i.op \in ArithmeticOps \union {Op.CMP} /\ LastArg(i).type = "IMMEDIATE"
  BY <1>4, EncodeArithmetic, EncodeComparison
<1>5. CASE /\ i.op \notin ImmediateOps \union JumpOps
           /\ ~(i.op \in ArithmeticOps \union {Op.CMP} /\ LastArg(i).type = "IMMEDIATE")
  <2>. SUFFICES ASSUME NEW k \in 1 .. Len(i.args) PROVE i.args[k].type = "REGISTER"
    BY <1>5, EncodeRegisters
  <2>1. i.args[k].type \in Format(i.op)[k]
    BY DEF WellTyped
  <2>2. CASE i.op \in ArithmeticOps
    <3>1. Format(i.op) = <<{"REGISTER"}, {"REGISTER"}, {"IMMEDIATE", "REGISTER"}>>
      BY <1>1, <2>2, FormatTypes, Classes
    <3>2. Len(i.args) = 3 /\ k \in 1 .. 3
      BY <1>1, <3>1
    <3>. QED
      BY <1>5, <2>1, <2>2, <3>1, <3>2 DEF LastArg
  <2>3. CASE i.op = Op.CMP
    <3>1. Format(i.op) = <<{"REGISTER"}, {"IMMEDIATE", "REGISTER"}>>
      BY <1>1, <2>3, FormatTypes, Classes
    <3>2. Len(i.args) = 2 /\ k \in 1 .. 2
      BY <1>1, <3>1
    <3>. QED
      BY <1>5, <2>1, <2>3, <3>1, <3>2 DEF LastArg
  <2>4. CASE i.op \notin ArithmeticOps \union {Op.CMP}
    <3>1. \/ Format(i.op) = <<{"REGISTER"}, {"REGISTER"}, {"REGISTER"}>>
          \/ Format(i.op) = <<{"REGISTER"}, {"REGISTER"}>>
          \/ Format(i.op) = <<{"REGISTER"}>>
          \/ Format(i.op) = <<>>
      BY <1>1, <1>5, <2>4, FormatTypes
    <3>. QED
      BY <1>1, <2>1, <3>1
  <2>. QED
    BY <2>2, <2>3, <2>4
<1>. QED
  BY <1>2, <1>3, <1>4, <1>5

----------------------------------------------------------------------------
(* The output buffer. *)

\* A word, byte by byte and put together again.
LEMMA WordOfItsBytes ==
    ASSUME NEW w \in Word
    PROVE  w = InstructionByte(w, 0)
                + ByteSpan * (InstructionByte(w, 1)
                    + ByteSpan * (InstructionByte(w, 2) + ByteSpan * InstructionByte(w, 3)))
<1>. DEFINE B == ByteSpan
            x == w \div B
            y == x \div B
            z == y \div B
<1>1. B \in Nat \ {0} /\ B * B \in Nat \ {0} /\ B * (B * B) \in Nat \ {0}
  BY ByteAssumption, ProductPositive
<1>2. w \in Nat /\ w \in 0 .. B * (B * (B * B)) - 1
  BY ByteAssumption DEF Word
<1>. HIDE DEF B
<1>3. x \in Nat /\ w = (w % B) + B * x /\ x \in 0 .. B * (B * B) - 1
  <2>1. PICK q \in Nat, r \in 0 .. B - 1 : w = B * q + r /\ w \div B = q /\ w % B = r
    BY <1>1, <1>2, DivMod
  <2>2. x \in 0 .. B * (B * B) - 1
    BY <1>1, <1>2, DivRange
  <2>. QED
    BY <1>1, <2>1, <2>2
<1>. HIDE DEF x
<1>4. y \in Nat /\ x = (x % B) + B * y /\ y \in 0 .. B * B - 1
  <2>1. PICK q \in Nat, r \in 0 .. B - 1 : x = B * q + r /\ x \div B = q /\ x % B = r
    BY <1>1, <1>3, DivMod
  <2>2. y \in 0 .. B * B - 1
    BY <1>1, <1>3, DivRange
  <2>. QED
    BY <1>1, <2>1, <2>2
<1>. HIDE DEF y
<1>5. z \in Nat /\ y = (y % B) + B * z /\ z \in 0 .. B - 1
  <2>1. PICK q \in Nat, r \in 0 .. B - 1 : y = B * q + r /\ y \div B = q /\ y % B = r
    BY <1>1, <1>4, DivMod
  <2>2. z \in 0 .. B - 1
    BY <1>1, <1>4, DivRange
  <2>. QED
    BY <1>1, <2>1, <2>2
<1>. HIDE DEF z
<1>6. w \div (B * B) = y
  <2>1. w \div (B * B) = (w \div B) \div B
    BY <1>1, <1>2, DivDiv
  <2>. QED
    BY <2>1 DEF x, y
<1>7. w \div (B * (B * B)) = z
  <2>1. w \div (B * (B * B)) = (w \div B) \div (B * B)
    BY <1>1, <1>2, DivDiv
  <2>2. x \div (B * B) = (x \div B) \div B
    BY <1>1, <1>3, DivDiv
  <2>. QED
    BY <2>1, <2>2 DEF x, y, z
<1>8. z % B = z /\ w \div 1 = w
  BY <1>1, <1>2, <1>5
<1>9. /\ InstructionByte(w, 0) = w % B
      /\ InstructionByte(w, 1) = x % B
      /\ InstructionByte(w, 2) = y % B
      /\ InstructionByte(w, 3) = z
  BY <1>6, <1>7, <1>8 DEF InstructionByte, x, B
<1>10. w = (w % B) + B * ((x % B) + B * ((y % B) + B * z))
  BY <1>3, <1>4, <1>5
<1>. QED
  BY <1>9, <1>10 DEF B

\* The word at n, as WordAt reads it, of any buffer.
WordIn(buffer, n) ==
    buffer[4 * n + 0]
      + ByteSpan * (buffer[4 * n + 1]
          + ByteSpan * (buffer[4 * n + 2] + ByteSpan * buffer[4 * n + 3]))

\* An instruction that is appended can be read back, and does not disturb the
\* words before it.
LEMMA AppendedWord ==
    ASSUME NEW n \in 0 .. Capacity - 1, NEW w, NEW old \in [BufferByte -> Byte],
           NEW new, new = [b \in BufferByte |->
                             IF b \div 4 = n THEN InstructionByte(w, b % 4) ELSE old[b]]
    PROVE  /\ w \in Word => WordIn(new, n) = w
           /\ \A m \in 0 .. n - 1 : WordIn(new, m) = WordIn(old, m)
<1>1. Capacity \in Nat
  BY AssemblerAssumption
<1>2. ASSUME NEW m \in 0 .. n, NEW k \in 0 .. 3
      PROVE  /\ 4 * m + k \in BufferByte
             /\ (4 * m + k) \div 4 = m /\ (4 * m + k) % 4 = k
  BY <1>1 DEF BufferByte
<1>3. ASSUME NEW m \in 0 .. n, NEW k \in 0 .. 3
      PROVE  new[4 * m + k] = IF m = n THEN InstructionByte(w, k) ELSE old[4 * m + k]
  BY <1>2
<1>4. n \in 0 .. n /\ \A m \in 0 .. n - 1 : m \in 0 .. n /\ m # n
  BY <1>1
<1>5. /\ new[4 * n + 0] = InstructionByte(w, 0)
      /\ new[4 * n + 1] = InstructionByte(w, 1)
      /\ new[4 * n + 2] = InstructionByte(w, 2)
      /\ new[4 * n + 3] = InstructionByte(w, 3)
  BY <1>3, <1>4
<1>6. ASSUME NEW m \in 0 .. n - 1
      PROVE  /\ new[4 * m + 0] = old[4 * m + 0]
             /\ new[4 * m + 1] = old[4 * m + 1]
             /\ new[4 * m + 2] = old[4 * m + 2]
             /\ new[4 * m + 3] = old[4 * m + 3]
  BY <1>3, <1>4
<1>7. w \in Word => WordIn(new, n) = w
  BY <1>5, WordOfItsBytes DEF WordIn
<1>8. \A m \in 0 .. n - 1 : WordIn(new, m) = WordIn(old, m)
  BY <1>6 DEF WordIn
<1>. QED
  BY <1>7, <1>8

----------------------------------------------------------------------------
(* Lines and addresses. *)

\* The instructions on the first l lines, and how many they are.
InstructionsTo(src, l) == {k \in 1 .. l : src[k].kind = "instruction"}

CountTo(src, l) == Cardinality(InstructionsTo(src, l))

\* The lines counted are finitely many.
LEMMA FiniteCount ==
    ASSUME NEW src, NEW l \in Nat
    PROVE  IsFiniteSet(InstructionsTo(src, l))
<1>1. IsFiniteSet(1 .. l)
  BY FS_Interval
<1>2. InstructionsTo(src, l) \subseteq 1 .. l
  BY DEF InstructionsTo
<1>. QED
  BY <1>1, <1>2, FS_Subset

\* Counting goes line by line.
LEMMA Counting ==
    ASSUME NEW src, NEW l \in Nat
    PROVE  /\ CountTo(src, l) \in Nat /\ CountTo(src, 0) = 0
           /\ src[l + 1].kind = "instruction" => CountTo(src, l + 1) = CountTo(src, l) + 1
           /\ src[l + 1].kind # "instruction" => CountTo(src, l + 1) = CountTo(src, l)
<1>1. IsFiniteSet(InstructionsTo(src, l))
  BY FiniteCount
<1>2. CountTo(src, l) \in Nat
  BY <1>1, FS_CardinalityType DEF CountTo
<1>3. CountTo(src, 0) = 0
  <2>1. InstructionsTo(src, 0) = {}
    BY DEF InstructionsTo
  <2>. QED
    BY <2>1, FS_EmptySet DEF CountTo
<1>4. CASE src[l + 1].kind = "instruction"
  <2>1. InstructionsTo(src, l + 1) = InstructionsTo(src, l) \union {l + 1}
    BY <1>4 DEF InstructionsTo
  <2>2. l + 1 \notin InstructionsTo(src, l)
    BY DEF InstructionsTo
  <2>3. Cardinality(InstructionsTo(src, l) \union {l + 1}) = Cardinality(InstructionsTo(src, l)) + 1
    BY <1>1, <2>2, FS_AddElement
  <2>. QED
    BY <1>2, <1>3, <1>4, <2>1, <2>3 DEF CountTo
<1>5. CASE src[l + 1].kind # "instruction"
  <2>1. InstructionsTo(src, l + 1) = InstructionsTo(src, l)
    BY <1>5 DEF InstructionsTo
  <2>. QED
    BY <1>2, <1>3, <1>5, <2>1 DEF CountTo
<1>. QED
  BY <1>4, <1>5

\* More lines, no fewer instructions.
LEMMA CountOrder ==
    ASSUME NEW src, NEW l \in Nat, NEW k \in 1 .. l, src[k].kind = "instruction"
    PROVE  CountTo(src, k - 1) < CountTo(src, l)
<1>1. k - 1 \in Nat /\ (k - 1) + 1 = k /\ k \in Nat
  OBVIOUS
<1>2. CountTo(src, k) = CountTo(src, k - 1) + 1 /\ CountTo(src, k - 1) \in Nat
  BY <1>1, Counting
<1>3. CountTo(src, k) <= CountTo(src, l)
  <2>1. InstructionsTo(src, k) \subseteq InstructionsTo(src, l)
    BY DEF InstructionsTo
  <2>. QED
    BY <2>1, FiniteCount, FS_Subset DEF CountTo
<1>. QED
  BY <1>2, <1>3, Counting

\* The parser came to line l without stopping.
Passed(src, l) == l \in 0 .. Len(src) /\ \A k \in 1 .. l : src[k].kind # "other"

\* The lines it passed are lines it reaches.
LEMMA PassedLines ==
    ASSUME NEW src, IsSource(src), NEW l, Passed(src, l)
    PROVE  /\ \A k \in 1 .. l : k \in Reached(src)
           /\ InstructionsTo(src, l) = {k \in InstructionLines(src) : k <= l}
           /\ \A k \in 1 .. l : Before(src, k) = CountTo(src, k - 1)
           /\ l < Len(src) => Before(src, l + 1) = CountTo(src, l)
<1>1. Len(src) \in Nat /\ l \in 0 .. Len(src)
  BY DEF IsSource, Passed
<1>2. ASSUME NEW k \in 1 .. l PROVE k \in Reached(src)
  BY <1>1 DEF Reached, Passed
<1>3. ASSUME NEW m \in 0 .. l
      PROVE  InstructionsTo(src, m) = {k \in InstructionLines(src) : k <= m}
  <2>1. \A k \in 1 .. m : k \in 1 .. l /\ k <= m
    BY <1>1
  <2>2. InstructionsTo(src, m) \subseteq {k \in InstructionLines(src) : k <= m}
    BY <1>2, <2>1 DEF InstructionsTo, InstructionLines
  <2>3. {k \in InstructionLines(src) : k <= m} \subseteq InstructionsTo(src, m)
    BY <1>1 DEF InstructionsTo, InstructionLines, Reached
  <2>. QED
    BY <2>2, <2>3
<1>4. ASSUME NEW m \in 0 .. l PROVE Before(src, m + 1) = CountTo(src, m)
  <2>1. {k \in InstructionLines(src) : k < m + 1} = {k \in InstructionLines(src) : k <= m}
    <3>1. \A k \in InstructionLines(src) : k \in Nat
      BY DEF InstructionLines, Reached
    <3>2. \A k \in InstructionLines(src) : k < m + 1 <=> k <= m
      BY <1>1, <3>1
    <3>. QED
      BY <3>2
  <2>. QED
    BY <1>3, <2>1 DEF Before, CountTo
<1>5. \A k \in 1 .. l : k - 1 \in 0 .. l /\ (k - 1) + 1 = k
  BY <1>1
<1>. QED
  BY <1>1, <1>2, <1>3, <1>4, <1>5

\* What happens to a line the parser comes to.
LEMMA PassedNext ==
    ASSUME NEW src, IsSource(src), NEW l, Passed(src, l), l < Len(src), src[l + 1].kind # "other"
    PROVE  Passed(src, l + 1) /\ l + 1 \in Reached(src)
<1>1. Passed(src, l + 1)
  BY DEF Passed, IsSource
<1>2. l + 1 \in 1 .. l + 1
  BY DEF Passed, IsSource
<1>. QED
  BY <1>1, <1>2, PassedLines

\* The end of a pass: no line is left to reach.
LEMMA PassedAll ==
    ASSUME NEW src, IsSource(src), NEW l, Passed(src, l),
           l = Len(src) \/ (l < Len(src) /\ src[l + 1].kind = "other")
    PROVE  Reached(src) = 1 .. l
<1>1. Len(src) \in Nat /\ l \in 0 .. Len(src)
  BY DEF IsSource, Passed
<1>2. \A k \in Reached(src) : k \in 1 .. l
  <2>1. CASE l = Len(src)
    BY <1>1, <2>1 DEF Reached
  <2>2. CASE l < Len(src) /\ src[l + 1].kind = "other"
    <3>1. l + 1 \in 1 .. Len(src)
      BY <1>1, <2>2
    <3>2. \A k \in Reached(src) : k \in 1 .. Len(src) /\ k < l + 1
      BY <2>2, <3>1 DEF Reached
    <3>. QED
      BY <1>1, <3>2
  <2>. QED
    BY <2>1, <2>2
<1>. QED
  BY <1>2, PassedLines

\* The first of some lines.
LEMMA FirstLine ==
    ASSUME NEW lines \in SUBSET Nat, NEW l \in lines, \A j \in lines : l <= j
    PROVE  FirstOf(lines) = l
<1>1. \A k \in lines : (\A j \in lines : k <= j) => k = l
  OBVIOUS
<1>. QED
  BY <1>1 DEF FirstOf

----------------------------------------------------------------------------
(* What the symbol table says of the source. *)

\* MOV of a string literal, and the name of its symbol.
IsLiteral(i) == i.op = Op.MOV /\ LastArg(i).type = "STRING"
LiteralName(i) == StringName[LastArg(i).string]

\* The operand that allocates a string, and what it allocates.
LEMMA LiteralOperand ==
    ASSUME NEW i, IsInstruction(i)
    PROVE  /\ IsLiteral(i) => /\ Symbolic(i) = {LastArg(i)}
                              /\ LastArg(i).string \in Seq(Byte) /\ LiteralName(i) \in Names
           /\ ~IsLiteral(i) => \A o \in Symbolic(i) : o.type = "LABEL"
<1>1. i.op \in Opcodes /\ Len(i.args) = Len(Format(i.op))
  BY DEF IsInstruction
<1>2. i.op = Op.MOV => Len(i.args) = 2
  <2>1. i.op = Op.MOV => i.op \in ImmediateOps
    BY DEF ImmediateOps
  <2>. QED
    BY <1>1, <2>1, FormatTypes, Classes
<1>3. ~IsLiteral(i) => \A o \in Symbolic(i) : o.type = "LABEL"
  BY <1>2 DEF Symbolic, IsLiteral, LastArg
<1>4. ASSUME IsLiteral(i)
      PROVE  /\ Symbolic(i) = {LastArg(i)}
             /\ LastArg(i).string \in Seq(Byte) /\ LiteralName(i) \in Names
  <2>1. i.op = Op.MOV /\ Len(i.args) = 2 /\ i.args[2].type = "STRING" /\ LastArg(i) = i.args[2]
    BY <1>2, <1>4 DEF IsLiteral, LastArg
  <2>2. IsOperand(i.args[2]) /\ 2 \in 1 .. Len(i.args)
    BY <2>1 DEF IsInstruction
  <2>3. Op.MOV \notin JumpOps
    BY DEF Op, JumpOps
  <2>4. Symbolic(i) = {i.args[2]}
    BY <2>1, <2>2, <2>3 DEF Symbolic
  <2>. QED
    BY <2>1, <2>2, <2>4 DEF IsOperand, LiteralName
<1>. QED
  BY <1>3, <1>4

\* What encoding an instruction does to the symbols.
LEMMA EncodedSymbols ==
    ASSUME NamesFit, NEW t, TableInv(t), NEW i, IsInstruction(i)
    PROVE  LET u == AfterEncode(t, i)
               s == [name |-> LiteralName(i), type |-> "STRING",
                     address |-> t.next_string_addr, text |-> LastArg(i).string]
           IN  /\ TableInv(u)
               /\ u.next_string_addr >= t.next_string_addr
               /\ \/ /\ u.symbols = t.symbols
                     /\ IsLiteral(i) => Full(t) \/ Matches(t, LiteralName(i)) # {}
                  \/ /\ IsLiteral(i) /\ ~Full(t) /\ Matches(t, LiteralName(i)) = {}
                     /\ s \in Entry(Seq(Byte))
                     /\ u.symbols = Append(t.symbols, s)
                     /\ u.next_string_addr = t.next_string_addr + Len(s.text) + 1
<1>. DEFINE u == AfterEncode(t, i)
            n == LiteralName(i)
            text == LastArg(i).string
            s == [name |-> n, type |-> "STRING", address |-> t.next_string_addr, text |-> text]
<1>1. TableInv(u) /\ Shape(Seq(Byte), t) /\ t.next_string_addr \in Nat
  BY EncodedTable DEF TableInv, Shape
<1>2. CASE ~IsLiteral(i)
  <2>1. u = t \/ \E m : u = AfterFind(t, m)
    <3>1. \A o \in Symbolic(i) : o.type # "STRING"
      BY <1>2, LiteralOperand
    <3>2. CASE Symbolic(i) = {}
      BY <3>2 DEF AfterEncode
    <3>3. CASE Symbolic(i) # {}
      <4>1. (CHOOSE o \in Symbolic(i) : TRUE) \in Symbolic(i)
        BY <3>3
      <4>. QED
        BY <3>1, <3>3, <4>1 DEF AfterEncode
    <3>. QED
      BY <3>2, <3>3
  <2>2. u.symbols = t.symbols /\ u.next_string_addr = t.next_string_addr
    BY <1>1, <2>1, FindKeeps
  <2>. QED
    BY <1>1, <1>2, <2>2
<1>3. CASE IsLiteral(i)
  <2>. DEFINE a == Allocated(t, text)
              d == AfterAdd(a, n, "STRING", t.next_string_addr, text)
  <2>1. text \in Seq(Byte) /\ n \in Names /\ Symbolic(i) = {LastArg(i)}
    BY <1>3, LiteralOperand
  <2>2. u = AfterFind(d, n)
    <3>1. (CHOOSE o \in Symbolic(i) : TRUE) = LastArg(i) /\ Symbolic(i) # {}
      BY <2>1
    <3>2. SymbolName(LastArg(i)) = n /\ LastArg(i).type = "STRING"
      BY <1>3 DEF SymbolName, IsLiteral, LiteralName
    <3>. QED
      BY <3>1, <3>2 DEF AfterEncode, AfterDefineString
  <2>3. /\ a.symbols = t.symbols /\ Shape(Seq(Byte), a)
        /\ a.next_string_addr = t.next_string_addr + Len(text) + 1 /\ Len(text) \in Nat
    BY <1>1, <2>1, AllocatedShape, LiteralsHaveLengths
  <2>4. Matches(a, n) = Matches(t, n) /\ (Full(a) <=> Full(t))
    BY <2>3 DEF Matches, Full
  <2>. HIDE DEF a
  <2>5. /\ Shape(Seq(Byte), d) /\ d.next_string_addr = a.next_string_addr /\ s \in Entry(Seq(Byte))
        /\ Added(a, n) => d.symbols = Append(a.symbols, s)
        /\ ~Added(a, n) => d.symbols = a.symbols
    <3>1. Stored[n] = n
      BY <2>1 DEF NamesFit
    <3>. HIDE DEF n, text
    <3>2. "STRING" \in SymbolType /\ text \in Seq(Byte) \union {<<>>}
      BY <2>1 DEF SymbolType
    <3>. DEFINE z == [name |-> Stored[n], type |-> "STRING",
                      address |-> t.next_string_addr, text |-> text]
    <3>3. /\ Shape(Seq(Byte), d) /\ d.next_string_addr = a.next_string_addr
          /\ z \in Entry(Seq(Byte))
          /\ Added(a, n) => d.symbols = Append(a.symbols, z)
          /\ ~Added(a, n) => d.symbols = a.symbols
      <4>. DEFINE b == t.next_string_addr
      <4>1. b \in Nat
        BY <1>1
      <4>. HIDE DEF b
      <4>2. LET v == AfterAdd(a, n, "STRING", b, text)
                y == [name |-> Stored[n], type |-> "STRING", address |-> b, text |-> text]
            IN  /\ Shape(Seq(Byte), v) /\ v.next_string_addr = a.next_string_addr
                /\ y \in Entry(Seq(Byte))
                /\ Added(a, n) => v.symbols = Append(a.symbols, y)
                /\ ~Added(a, n) => v.symbols = a.symbols
        BY <2>1, <2>3, <3>2, <4>1, AddCases
      <4>. QED
        BY <4>2 DEF b
    <3>4. z = s
      BY <3>1
    <3>. QED
      BY <3>3, <3>4
  <2>6. Added(a, n) <=> ~Full(t) /\ Matches(t, n) = {}
    BY <2>3, <2>4, AddedIff DEF Shape
  <2>. HIDE DEF d
  <2>7. u.symbols = d.symbols /\ u.next_string_addr = d.next_string_addr
    BY <2>2, <2>5, FindKeeps
  <2>. HIDE DEF u, n, text
  <2>8. u.next_string_addr = t.next_string_addr + Len(text) + 1 /\ u.next_string_addr >= t.next_string_addr
    BY <1>1, <2>3, <2>5, <2>7
  <2>9. s.text = text
    OBVIOUS
  <2>10. CASE Added(a, n)
    <3>1. ~Full(t) /\ Matches(t, n) = {} /\ u.symbols = Append(t.symbols, s)
      BY <2>3, <2>5, <2>6, <2>7, <2>10
    <3>. HIDE DEF s
    <3>. QED
      BY <1>1, <1>3, <2>5, <2>8, <2>9, <3>1 DEF u, n, text, s
  <2>11. CASE ~Added(a, n)
    <3>1. u.symbols = t.symbols /\ (Full(t) \/ Matches(t, n) # {})
      BY <2>3, <2>5, <2>6, <2>7, <2>11
    <3>. QED
      BY <1>1, <2>8, <3>1 DEF u, n
  <2>. QED
    BY <2>10, <2>11
<1>. QED
  BY <1>2, <1>3

\* After l lines of the first pass the table binds the names they define to
\* what they denote.
FirstPassTable(t, src, l) ==
    /\ Unique(t)
    /\ \A j \in 1 .. Len(t.symbols) :
          /\ t.symbols[j].type # "STRING"
          /\ t.symbols[j].address = Denoted(src, t.symbols[j].name)
          /\ DefiningLines(src, t.symbols[j].name) # {}
    /\ \A n \in Names : (\E k \in DefiningLines(src, n) : k <= l) => Matches(t, n) # {}

\* After l lines of the second pass it also has the first literal of every
\* name that is not a label or a constant.
SecondPassTable(t, src, l) ==
    /\ Unique(t)
    /\ Ordered(t)
    /\ \A j \in 1 .. Len(t.symbols) :
          LET s == t.symbols[j]
          IN  IF DefiningLines(src, s.name) # {}
                THEN s.type # "STRING" /\ s.address = Denoted(src, s.name)
                ELSE s.type = "STRING" /\ s.text = FirstLiteral(src, s.name)
    /\ \A n \in Names :
          \/ DefiningLines(src, n) # {}
          \/ \E k \in LiteralLines(src, n) : k <= l
          => Matches(t, n) # {}

\* A line that defines nothing changes nothing of the first pass.
LEMMA FirstPassQuiet ==
    ASSUME NEW t, NEW src, NEW l \in Nat, FirstPassTable(t, src, l),
           src[l + 1].kind \notin {"label", "constant"}
    PROVE  FirstPassTable(t, src, l + 1)
<1>1. \A n \in Names : \A k \in DefiningLines(src, n) : k \in Nat /\ k # l + 1
  BY DEF DefiningLines, Reached
<1>2. \A k \in Nat : k <= l + 1 /\ k # l + 1 => k <= l
  OBVIOUS
<1>. QED
  BY <1>1, <1>2 DEF FirstPassTable

\* What adding a symbol does to the lookups by name.
LEMMA AddedSymbol ==
    ASSUME NEW t, t.symbols \in Seq(Entry(Seq(Byte))), Unique(t), NEW s \in Entry(Seq(Byte)),
           Matches(t, s.name) = {}, NEW u, u.symbols = Append(t.symbols, s)
    PROVE  /\ Unique(u) /\ Len(u.symbols) = Len(t.symbols) + 1
           /\ u.symbols[Len(t.symbols) + 1] = s
           /\ \A j \in 1 .. Len(t.symbols) : u.symbols[j] = t.symbols[j]
<1>1. /\ Len(u.symbols) = Len(t.symbols) + 1 /\ Len(t.symbols) \in Nat
      /\ u.symbols[Len(t.symbols) + 1] = s
      /\ \A j \in 1 .. Len(t.symbols) : u.symbols[j] = t.symbols[j]
  OBVIOUS
<1>2. \A j \in 1 .. Len(t.symbols) : t.symbols[j].name # s.name
  BY DEF Matches
<1>3. \A j \in 1 .. Len(u.symbols) : j \in 1 .. Len(t.symbols) \/ j = Len(t.symbols) + 1
  BY <1>1
<1>4. Unique(u)
  BY <1>1, <1>2, <1>3 DEF Unique
<1>. QED
  BY <1>1, <1>4

\* A line defines a name; if it is the first to do so, it adds the name.
LEMMA FirstPassDefines ==
    ASSUME NamesFit, NEW src, IsSource(src), NEW l, Passed(src, l), l < Len(src),
           src[l + 1].kind \in {"label", "constant"},
           NEW t, TableInv(t), FirstPassTable(t, src, l), ~Full(t),
           NEW type \in {"LABEL", "CONSTANT"}, NEW a \in Nat,
           a = IF src[l + 1].kind = "constant" THEN src[l + 1].value ELSE CountTo(src, l),
           NEW u, u = AfterAdd(t, src[l + 1].name, type, a, <<>>)
    PROVE  FirstPassTable(u, src, l + 1)
<1>. DEFINE n0 == src[l + 1].name
            s  == [name |-> n0, type |-> type, address |-> a, text |-> <<>>]
<1>1. /\ l \in Nat /\ l + 1 \in 1 .. Len(src) /\ n0 \in Names /\ Stored[n0] = n0
      /\ l + 1 \in Reached(src)
  <2>1. l \in Nat /\ l + 1 \in 1 .. Len(src)
    BY DEF Passed, IsSource
  <2>2. l + 1 \in Reached(src)
    BY PassedNext
  <2>. QED
    BY <2>1, <2>2 DEF IsSource, NamesFit
<1>2. /\ l + 1 \in DefiningLines(src, n0)
      /\ \A n \in Names : \A k \in DefiningLines(src, n) :
            k \in Nat /\ (k <= l + 1 => k <= l \/ n = n0)
  <2>1. l + 1 \in DefiningLines(src, n0)
    BY <1>1 DEF DefiningLines
  <2>2. ASSUME NEW n \in Names, NEW k \in DefiningLines(src, n)
        PROVE  k \in Nat /\ (k <= l + 1 => k <= l \/ n = n0)
    <3>1. k \in Nat /\ Stored[src[k].name] = n
      BY DEF DefiningLines, Reached
    <3>2. k = l + 1 => n = n0
      BY <1>1, <3>1
    <3>. QED
      BY <1>1, <3>1, <3>2
  <2>. QED
    BY <2>1, <2>2
<1>3. /\ t.symbols \in Seq(Entry(Seq(Byte))) /\ Shape(Seq(Byte), t) /\ Unique(t)
      /\ Len(t.symbols) \in Nat
  BY DEF TableInv, Shape, FirstPassTable
<1>. HIDE DEF n0
<1>4. /\ s \in Entry(Seq(Byte))
      /\ Added(t, n0) => u.symbols = Append(t.symbols, s)
      /\ ~Added(t, n0) => u.symbols = t.symbols
  <2>1. type \in SymbolType /\ <<>> \in Seq(Byte) \union {<<>>}
    BY DEF SymbolType
  <2>2. u = AfterAdd(t, n0, type, a, <<>>)
    BY DEF n0
  <2>. QED
    BY <1>1, <1>3, <2>1, <2>2, AddCases
<1>5. Added(t, n0) <=> Matches(t, n0) = {}
  BY <1>3, AddedIff
<1>6. CASE Matches(t, n0) = {}
  <2>1. DefiningLines(src, n0) \in SUBSET Nat
    BY <1>1, <1>2
  <2>2. \A k \in DefiningLines(src, n0) : ~(k <= l)
    BY <1>1, <1>6 DEF FirstPassTable
  <2>3. FirstOf(DefiningLines(src, n0)) = l + 1
    <3>1. \A k \in DefiningLines(src, n0) : l + 1 <= k
      BY <1>1, <2>1, <2>2
    <3>. QED
      BY <1>2, <2>1, <3>1, FirstLine
  <2>4. a = Denoted(src, n0)
    <3>1. Before(src, l + 1) = CountTo(src, l)
      BY PassedLines
    <3>. QED
      BY <2>3, <3>1 DEF Denoted
  <2>5. /\ Unique(u) /\ Len(u.symbols) = Len(t.symbols) + 1
        /\ u.symbols[Len(t.symbols) + 1] = s
        /\ \A j \in 1 .. Len(t.symbols) : u.symbols[j] = t.symbols[j]
    <3>1. /\ s \in Entry(Seq(Byte)) /\ Matches(t, s.name) = {}
          /\ u.symbols = Append(t.symbols, s)
      BY <1>4, <1>5, <1>6
    <3>. HIDE DEF s
    <3>. QED
      BY ONLY <1>3, <3>1, AddedSymbol
  <2>6. /\ s.type # "STRING" /\ s.name = n0 /\ s.address = Denoted(src, n0)
        /\ DefiningLines(src, n0) # {}
    BY <1>2, <2>4
  <2>. HIDE DEF s
  <2>7. \A j \in 1 .. Len(u.symbols) :
          /\ u.symbols[j].type # "STRING"
          /\ u.symbols[j].address = Denoted(src, u.symbols[j].name)
          /\ DefiningLines(src, u.symbols[j].name) # {}
    <3>1. \A j \in 1 .. Len(u.symbols) : j \in 1 .. Len(t.symbols) \/ j = Len(t.symbols) + 1
      BY <1>3, <2>5
    <3>. QED
      BY ONLY <2>5, <2>6, <3>1, FirstPassTable(t, src, l) DEF FirstPassTable
  <2>8. ASSUME NEW n \in Names, NEW k \in DefiningLines(src, n), k <= l + 1
        PROVE  Matches(u, n) # {}
    <3>1. CASE n = n0
      <4>1. Len(t.symbols) + 1 \in Matches(u, n)
        BY <1>3, <2>5, <2>6, <3>1 DEF Matches
      <4>. QED
        BY <4>1
    <3>2. CASE n # n0
      <4>1. PICK j \in 1 .. Len(t.symbols) : t.symbols[j].name = n
        BY <1>2, <2>8, <3>2 DEF FirstPassTable, Matches
      <4>2. j \in Matches(u, n)
        BY <1>3, <2>5, <4>1 DEF Matches
      <4>. QED
        BY <4>2
    <3>. QED
      BY <3>1, <3>2
  <2>. QED
    BY <2>5, <2>7, <2>8 DEF FirstPassTable
<1>7. CASE Matches(t, n0) # {}
  <2>1. u.symbols = t.symbols
    BY <1>4, <1>5, <1>7
  <2>2. \A n : Matches(u, n) = Matches(t, n)
    BY <2>1 DEF Matches
  <2>3. \A n \in Names : (\E k \in DefiningLines(src, n) : k <= l + 1) => Matches(u, n) # {}
    BY <1>2, <1>7, <2>2 DEF FirstPassTable
  <2>4. Unique(u)
    BY <1>3, <2>1 DEF Unique
  <2>5. \A j \in 1 .. Len(u.symbols) :
          /\ u.symbols[j].type # "STRING"
          /\ u.symbols[j].address = Denoted(src, u.symbols[j].name)
          /\ DefiningLines(src, u.symbols[j].name) # {}
    BY <2>1 DEF FirstPassTable
  <2>. QED
    BY <2>3, <2>4, <2>5 DEF FirstPassTable
<1>. QED
  BY <1>6, <1>7

\* The table the second pass starts with.
LEMMA SecondPassStarts ==
    ASSUME NEW src, NEW l, Reached(src) = 1 .. l, NEW t, FirstPassTable(t, src, l)
    PROVE  SecondPassTable(t, src, 0)
<1>1. \A n : \A k \in DefiningLines(src, n) : k <= l
  BY DEF DefiningLines
<1>2. \A n : \A k \in LiteralLines(src, n) : ~(k <= 0)
  BY DEF LiteralLines, InstructionLines, Reached
<1>3. Ordered(t)
  BY DEF FirstPassTable, Ordered
<1>. QED
  BY <1>1, <1>2, <1>3 DEF FirstPassTable, SecondPassTable

\* A line that is not an instruction has no literal.
LEMMA SecondPassQuiet ==
    ASSUME NEW t, NEW src, NEW l \in Nat, SecondPassTable(t, src, l),
           src[l + 1].kind # "instruction"
    PROVE  SecondPassTable(t, src, l + 1)
<1>1. \A n \in Names : \A k \in LiteralLines(src, n) : k \in Nat /\ k # l + 1
  BY DEF LiteralLines, InstructionLines, Reached
<1>2. \A k \in Nat : k <= l + 1 /\ k # l + 1 => k <= l
  OBVIOUS
<1>. QED
  BY <1>1, <1>2 DEF SecondPassTable

\* The symbols of t are the first of u.
Kept(t, u) ==
    /\ Len(t.symbols) <= Len(u.symbols)
    /\ \A j \in 1 .. Len(t.symbols) : u.symbols[j] = t.symbols[j]

\* Encoding an instruction keeps the symbols there are.
LEMMA EncodedKeeps ==
    ASSUME NamesFit, NEW t, TableInv(t), NEW i, IsInstruction(i)
    PROVE  Kept(t, AfterEncode(t, i)) /\ (Full(t) => Full(AfterEncode(t, i)))
<1>. DEFINE u == AfterEncode(t, i)
<1>1. t.symbols \in Seq(Entry(Seq(Byte))) /\ Len(t.symbols) \in Nat
  BY DEF TableInv, Shape
<1>2. \/ u.symbols = t.symbols
      \/ \E s \in Entry(Seq(Byte)) : u.symbols = Append(t.symbols, s)
  BY EncodedSymbols
<1>. HIDE DEF u
<1>3. CASE u.symbols = t.symbols
  BY <1>1, <1>3 DEF Kept, Full, u
<1>4. CASE \E s \in Entry(Seq(Byte)) : u.symbols = Append(t.symbols, s)
  <2>1. PICK s \in Entry(Seq(Byte)) : u.symbols = Append(t.symbols, s)
    BY <1>4
  <2>2. /\ Len(u.symbols) = Len(t.symbols) + 1
        /\ \A j \in 1 .. Len(t.symbols) : u.symbols[j] = t.symbols[j]
    BY <1>1, <2>1
  <2>3. Len(t.symbols) <= Len(u.symbols)
    BY <1>1, <2>2
  <2>4. Full(t) => Full(u)
    BY <1>1, <2>2, SymbolTableAssumption DEF Full
  <2>. QED
    BY <2>2, <2>3, <2>4 DEF Kept, u
<1>. QED
  BY <1>2, <1>3, <1>4

\* Encoding an instruction adds its literal to the table, if the name is new.
LEMMA SecondPassEncodes ==
    ASSUME NamesFit, NEW src, IsSource(src), NEW l, Passed(src, l), l < Len(src),
           src[l + 1].kind = "instruction",
           NEW t, TableInv(t), SecondPassTable(t, src, l), ~Full(t),
           NEW u, u = AfterEncode(t, src[l + 1].instruction)
    PROVE  SecondPassTable(u, src, l + 1)
<1>. DEFINE i == src[l + 1].instruction
            n0 == LiteralName(i)
            s == [name |-> n0, type |-> "STRING",
                  address |-> t.next_string_addr, text |-> LastArg(i).string]
<1>1. l \in Nat /\ l + 1 \in 1 .. Len(src) /\ IsInstruction(i) /\ l + 1 \in InstructionLines(src)
  <2>1. l \in Nat /\ l + 1 \in 1 .. Len(src)
    BY DEF Passed, IsSource
  <2>2. l + 1 \in Reached(src)
    BY PassedNext
  <2>. QED
    BY <2>1, <2>2 DEF IsSource, InstructionLines
<1>2. \A n : \A k \in LiteralLines(src, n) :
          /\ k \in Nat
          /\ k <= l + 1 => k <= l \/ (k = l + 1 /\ IsLiteral(i) /\ n = n0)
  <2>1. ASSUME NEW n, NEW k \in LiteralLines(src, n)
        PROVE  k \in Nat /\ (k = l + 1 => IsLiteral(i) /\ n = n0)
    BY DEF LiteralLines, InstructionLines, Reached, IsLiteral, LiteralName
  <2>2. \A k \in Nat : k <= l + 1 => k <= l \/ k = l + 1
    BY <1>1
  <2>. QED
    BY <2>1, <2>2
<1>3. /\ t.symbols \in Seq(Entry(Seq(Byte))) /\ Len(t.symbols) \in Nat /\ t.next_string_addr \in Nat
      /\ Unique(t) /\ Ordered(t) /\ Shape(Seq(Byte), t)
  BY DEF TableInv, Shape, SecondPassTable
<1>4. /\ TableInv(u) /\ u.next_string_addr >= t.next_string_addr /\ u.next_string_addr \in Nat
      /\ \/ u.symbols = t.symbols /\ (IsLiteral(i) => Matches(t, n0) # {})
         \/ /\ IsLiteral(i) /\ Matches(t, n0) = {}
            /\ s \in Entry(Seq(Byte)) /\ u.symbols = Append(t.symbols, s)
            /\ u.next_string_addr = t.next_string_addr + Len(s.text) + 1
  <2>. HIDE DEF i
  <2>1. LET v == AfterEncode(t, i)
            z == [name |-> LiteralName(i), type |-> "STRING",
                  address |-> t.next_string_addr, text |-> LastArg(i).string]
        IN  /\ TableInv(v)
            /\ v.next_string_addr >= t.next_string_addr
            /\ \/ /\ v.symbols = t.symbols
                  /\ IsLiteral(i) => Full(t) \/ Matches(t, LiteralName(i)) # {}
               \/ /\ IsLiteral(i) /\ ~Full(t) /\ Matches(t, LiteralName(i)) = {}
                  /\ z \in Entry(Seq(Byte))
                  /\ v.symbols = Append(t.symbols, z)
                  /\ v.next_string_addr = t.next_string_addr + Len(z.text) + 1
    BY <1>1, EncodedSymbols
  <2>2. u = AfterEncode(t, i)
    BY DEF i
  <2>3. TableInv(u) => u.next_string_addr \in Nat
    BY DEF TableInv, Shape
  <2>. QED
    BY <2>1, <2>2, <2>3
<1>. HIDE DEF i, n0
<1>5. CASE u.symbols = t.symbols /\ (IsLiteral(i) => Matches(t, n0) # {})
  <2>1. \A n : Matches(u, n) = Matches(t, n)
    BY <1>5 DEF Matches
  <2>2. Unique(u)
    BY <1>3, <1>5 DEF Unique
  <2>3. Ordered(u)
    <3>1. \A j \in 1 .. Len(t.symbols) : t.symbols[j].address \in Nat /\ Len(t.symbols[j].text) \in Nat
      BY <1>3, EntryFields, LiteralsHaveLengths
    <3>. QED
      BY <1>3, <1>4, <1>5, <3>1 DEF Ordered
  <2>4. ASSUME NEW n \in Names, DefiningLines(src, n) # {} \/ \E k \in LiteralLines(src, n) : k <= l + 1
        PROVE  Matches(u, n) # {}
    BY <1>2, <1>5, <2>1, <2>4 DEF SecondPassTable
  <2>5. \A j \in 1 .. Len(u.symbols) :
          LET z == u.symbols[j]
          IN  IF DefiningLines(src, z.name) # {}
                THEN z.type # "STRING" /\ z.address = Denoted(src, z.name)
                ELSE z.type = "STRING" /\ z.text = FirstLiteral(src, z.name)
    BY <1>5 DEF SecondPassTable
  <2>. QED
    BY <2>2, <2>3, <2>4, <2>5 DEF SecondPassTable
<1>6. CASE /\ IsLiteral(i) /\ Matches(t, n0) = {}
           /\ s \in Entry(Seq(Byte)) /\ u.symbols = Append(t.symbols, s)
           /\ u.next_string_addr = t.next_string_addr + Len(s.text) + 1
  <2>1. /\ s.name = n0 /\ s.type = "STRING" /\ s.address = t.next_string_addr
        /\ s.text = LastArg(i).string /\ n0 \in Names /\ Len(s.text) \in Nat
    <3>1. n0 \in Names /\ LastArg(i).string \in Seq(Byte)
      BY <1>1, <1>6, LiteralOperand DEF n0, i
    <3>. QED
      BY <3>1
  <2>2. l + 1 \in LiteralLines(src, n0)
    BY <1>1, <1>6 DEF LiteralLines, IsLiteral, LiteralName, i, n0
  <2>3. DefiningLines(src, n0) = {} /\ \A k \in LiteralLines(src, n0) : ~(k <= l)
    BY <1>6, <2>1 DEF SecondPassTable
  <2>4. FirstOf(LiteralLines(src, n0)) = l + 1
    <3>1. LiteralLines(src, n0) \in SUBSET Nat
      BY <1>2
    <3>2. \A k \in LiteralLines(src, n0) : l + 1 <= k
      BY <1>1, <2>3, <3>1
    <3>. QED
      BY <2>2, <3>1, <3>2, FirstLine
  <2>5. s.text = FirstLiteral(src, n0)
    BY <2>1, <2>4 DEF FirstLiteral, i
  <2>. HIDE DEF s
  <2>6. /\ Unique(u) /\ Len(u.symbols) = Len(t.symbols) + 1
        /\ u.symbols[Len(t.symbols) + 1] = s
        /\ \A j \in 1 .. Len(t.symbols) : u.symbols[j] = t.symbols[j]
    <3>1. s \in Entry(Seq(Byte)) /\ Matches(t, s.name) = {} /\ u.symbols = Append(t.symbols, s)
      BY <1>6, <2>1
    <3>. QED
      BY ONLY <1>3, <3>1, AddedSymbol
  <2>7. Ordered(u)
    <3>1. s.address >= t.next_string_addr /\ s.address + Len(s.text) < u.next_string_addr
      BY <1>3, <1>6, <2>1
    <3>2. TextsHaveLengths(Seq(Byte))
      BY LiteralsHaveLengths
    <3>. QED
      BY <1>3, <1>4, <1>6, <3>1, <3>2, AppendOrdered
  <2>8. \A j \in 1 .. Len(u.symbols) : j \in 1 .. Len(t.symbols) \/ j = Len(t.symbols) + 1
    BY <1>3, <2>6
  <2>9. \A j \in 1 .. Len(u.symbols) :
          LET z == u.symbols[j]
          IN  IF DefiningLines(src, z.name) # {}
                THEN z.type # "STRING" /\ z.address = Denoted(src, z.name)
                ELSE z.type = "STRING" /\ z.text = FirstLiteral(src, z.name)
    BY ONLY <1>3, <2>1, <2>3, <2>5, <2>6, <2>8, SecondPassTable(t, src, l) DEF SecondPassTable
  <2>10. ASSUME NEW n \in Names,
                DefiningLines(src, n) # {} \/ \E k \in LiteralLines(src, n) : k <= l + 1
         PROVE  Matches(u, n) # {}
    <3>1. CASE n = n0
      <4>1. Len(t.symbols) + 1 \in Matches(u, n)
        BY <1>3, <2>1, <2>6, <3>1 DEF Matches
      <4>. QED
        BY <4>1
    <3>2. CASE n # n0
      <4>1. PICK j \in 1 .. Len(t.symbols) : t.symbols[j].name = n
        BY <1>2, <2>10, <3>2 DEF SecondPassTable, Matches
      <4>2. j \in Matches(u, n)
        BY <1>3, <2>6, <4>1 DEF Matches
      <4>. QED
        BY <4>2
    <3>. QED
      BY <3>1, <3>2
  <2>. QED
    BY <2>6, <2>7, <2>9, <2>10 DEF SecondPassTable
<1>. QED
  BY <1>4, <1>5, <1>6

----------------------------------------------------------------------------
(* The words of the output. *)

\* The word w says what the instruction i of src says; the addresses of
\* literals are those of the table t.
WordMeans(src, t, w, i) ==
    /\ DecodesLiterally(w, i)
    /\ \A k \in 1 .. Len(i.args) :
          LET o == i.args[k]
          IN  /\ o.type = "LABEL" /\ DefiningLines(src, o.label) # {} =>
                    Imm(w) = Denoted(src, o.label) % ImmSpan
              /\ o.type = "STRING" /\ DefiningLines(src, StringName[o.string]) = {} =>
                    \E j \in 1 .. Len(t.symbols) :
                        /\ t.symbols[j].name = StringName[o.string]
                        /\ Imm(w) = t.symbols[j].address % ImmSpan

\* The address found for a name is that of its symbol.
LEMMA AddressFound ==
    ASSUME NEW t, t.symbols \in Seq(Entry(Seq(Byte))), Unique(t), NEW n, Matches(t, n) # {}
    PROVE  \E j \in 1 .. Len(t.symbols) :
              t.symbols[j].name = n /\ SymbolAddress(t, n) = t.symbols[j].address
<1>1. PICK j \in 1 .. Len(t.symbols) : t.symbols[j].name = n
  BY DEF Matches
<1>2. Find(t, n) = j
  <2>1. Find(t, n) \in Matches(t, n)
    BY FindMatches
  <2>. QED
    BY <1>1, <2>1 DEF Matches, Unique
<1>3. j # None
  BY DEF None
<1>. QED
  BY <1>1, <1>2, <1>3 DEF SymbolAddress

\* A word encoded with the table of the second pass means its instruction.
LEMMA WordEncoded ==
    ASSUME NEW src, IsSource(src), NEW l \in Nat, l + 1 \in InstructionLines(src),
           NEW t, TableInv(t), SecondPassTable(t, src, l + 1),
           WellTyped(src[l + 1].instruction), NEW junk \in Junk
    PROVE  LET i == src[l + 1].instruction
           IN  Encode(t, i, junk) \in Word /\ WordMeans(src, t, Encode(t, i, junk), i)
<1>. DEFINE i == src[l + 1].instruction
            w == Encode(t, i, junk)
<1>1. IsInstruction(i)
  BY DEF IsSource, InstructionLines, Reached
<1>2. EncodedAs(t, w, i)
  BY <1>1, EncodeFaithful
<1>3. t.symbols \in Seq(Entry(Seq(Byte))) /\ Unique(t)
  BY DEF TableInv, Shape, SecondPassTable
<1>4. ASSUME NEW k \in 1 .. Len(i.args), i.args[k].type = "LABEL",
             DefiningLines(src, i.args[k].label) # {}
      PROVE  Imm(w) = Denoted(src, i.args[k].label) % ImmSpan
  <2>. DEFINE n == i.args[k].label
  <2>1. n \in Names
    BY <1>1, <1>4 DEF IsInstruction, IsOperand
  <2>2. Imm(w) = SymbolAddress(t, n) % ImmSpan
    BY <1>2, <1>4 DEF EncodedAs
  <2>. HIDE DEF w, n
  <2>3. Matches(t, n) # {}
    BY <1>4, <2>1 DEF SecondPassTable, n
  <2>4. PICK j \in 1 .. Len(t.symbols) :
            t.symbols[j].name = n /\ SymbolAddress(t, n) = t.symbols[j].address
    BY <1>3, <2>3, AddressFound
  <2>5. t.symbols[j].address = Denoted(src, n)
    BY <1>4, <2>4 DEF SecondPassTable, n
  <2>. QED
    BY <2>2, <2>4, <2>5 DEF n
<1>5. ASSUME NEW k \in 1 .. Len(i.args), i.args[k].type = "STRING"
      PROVE  \E j \in 1 .. Len(t.symbols) :
                /\ t.symbols[j].name = StringName[i.args[k].string]
                /\ Imm(w) = t.symbols[j].address % ImmSpan
  <2>. DEFINE n == StringName[i.args[k].string]
  <2>1. Imm(w) = SymbolAddress(t, n) % ImmSpan /\ n \in Names
    BY <1>1, <1>2, <1>5 DEF EncodedAs, IsInstruction, IsOperand
  <2>2. i.op = Op.MOV /\ k = Len(i.args)
    <3>1. i.op \in Opcodes /\ Len(i.args) = Len(Format(i.op)) /\ "STRING" \in Format(i.op)[k]
      BY <1>1, <1>5 DEF IsInstruction, WellTyped
    <3>2. /\ i.op \in ImmediateOps /\ Len(Format(i.op)) = 2 /\ Format(i.op)[1] = {"REGISTER"}
          /\ "STRING" \in Format(i.op)[2] => i.op = Op.MOV
      <4>1. \/ /\ i.op \in ImmediateOps /\ Len(Format(i.op)) = 2
               /\ Format(i.op)[1] = {"REGISTER"}
               /\ "STRING" \in Format(i.op)[2] => i.op = Op.MOV
            \/ Format(i.op) = <<{"LABEL", "IMMEDIATE", "REGISTER"}>>
            \/ Format(i.op) = <<{"REGISTER"}, {"REGISTER"}, {"IMMEDIATE", "REGISTER"}>>
            \/ Format(i.op) = <<{"REGISTER"}, {"IMMEDIATE", "REGISTER"}>>
            \/ Format(i.op) = <<{"REGISTER"}, {"REGISTER"}, {"REGISTER"}>>
            \/ Format(i.op) = <<{"REGISTER"}, {"REGISTER"}>>
            \/ Format(i.op) = <<{"REGISTER"}>>
            \/ Format(i.op) = <<>>
        BY <3>1, FormatTypes
      <4>. QED
        BY <3>1, <4>1
    <3>3. k = 1 \/ k = 2
      BY <3>1, <3>2
    <3>. QED
      BY <3>1, <3>2, <3>3
  <2>3. l + 1 \in LiteralLines(src, n)
    BY <1>5, <2>2 DEF LiteralLines, LastArg
  <2>. HIDE DEF w, n
  <2>4. Matches(t, n) # {}
    BY <2>1, <2>3 DEF SecondPassTable
  <2>5. PICK j \in 1 .. Len(t.symbols) :
            t.symbols[j].name = n /\ SymbolAddress(t, n) = t.symbols[j].address
    BY <1>3, <2>4, AddressFound
  <2>. QED
    BY <2>1, <2>5 DEF n
<1>. HIDE DEF w, i
<1>. QED
  BY <1>2, <1>4, <1>5 DEF EncodedAs, WordMeans, w, i

\* More symbols do not change what a word says.
LEMMA WordStays ==
    ASSUME NEW src, NEW t, NEW u, Kept(t, u), Len(t.symbols) \in Nat, Len(u.symbols) \in Nat,
           NEW w, NEW i, WordMeans(src, t, w, i)
    PROVE  WordMeans(src, u, w, i)
<1>1. \A j \in 1 .. Len(t.symbols) : j \in 1 .. Len(u.symbols) /\ u.symbols[j] = t.symbols[j]
  BY DEF Kept
<1>2. ASSUME NEW k \in 1 .. Len(i.args), i.args[k].type = "STRING",
             DefiningLines(src, StringName[i.args[k].string]) = {}
      PROVE  \E j \in 1 .. Len(u.symbols) :
                /\ u.symbols[j].name = StringName[i.args[k].string]
                /\ Imm(w) = u.symbols[j].address % ImmSpan
  <2>1. PICK j \in 1 .. Len(t.symbols) :
            /\ t.symbols[j].name = StringName[i.args[k].string]
            /\ Imm(w) = t.symbols[j].address % ImmSpan
    BY <1>2 DEF WordMeans
  <2>. QED
    BY <1>1, <2>1
<1>. QED
  BY <1>2 DEF WordMeans

\* The words of the instructions on the first l lines.
EmittedWords(src, l, t, buffer) ==
    \A k \in InstructionsTo(src, l) :
        WellTyped(src[k].instruction) =>
            WordMeans(src, t, WordIn(buffer, CountTo(src, k - 1)), src[k].instruction)

\* With the table of the second pass, they are the program.
LEMMA WordDecodes ==
    ASSUME NEW src, NEW l, TableInv(symbol_table), SecondPassTable(symbol_table, src, l),
           NEW w, NEW i, WordMeans(src, symbol_table, w, i)
    PROVE  Decodes(src, w, i)
<1>. DEFINE t == symbol_table
<1>1. ASSUME NEW k \in 1 .. Len(i.args), i.args[k].type = "STRING",
             DefiningLines(src, StringName[i.args[k].string]) = {}
      PROVE  PointsTo(src, w, StringName[i.args[k].string])
  <2>. DEFINE n == StringName[i.args[k].string]
  <2>1. PICK j \in 1 .. Len(t.symbols) :
            t.symbols[j].name = n /\ Imm(w) = t.symbols[j].address % ImmSpan
    BY <1>1 DEF WordMeans
  <2>. HIDE DEF n
  <2>2. t.symbols[j].type = "STRING" /\ t.symbols[j].text = FirstLiteral(src, n)
    BY <1>1, <2>1 DEF SecondPassTable, n
  <2>3. StringAt(t, t.symbols[j].address) = j
    BY <2>2, StringFound, LiteralsHaveLengths DEF TableInv, SecondPassTable
  <2>. QED
    BY <2>1, <2>2, <2>3 DEF PointsTo, n
<1>. QED
  BY <1>1 DEF WordMeans, Decodes

----------------------------------------------------------------------------
(* The output is the program. *)

\* The second pass, and its end.
Emitting == stage = "pass2" \/ (stage = "strings" /\ symbol = 1)

\* The first pass counts the instructions and binds the names, the second
\* appends the words, as long as no symbol found the table full.
ProgramInv ==
    /\ stage \in Passes \/ Emitting => Passed(source, line)
    /\ stage = "pass1" =>
          /\ current_address = CountTo(source, line)
          /\ ~Full(symbol_table) => FirstPassTable(symbol_table, source, line)
    /\ Emitting =>
          /\ output_size = CountTo(source, line)
          /\ ~Full(symbol_table) =>
                /\ SecondPassTable(symbol_table, source, line)
                /\ EmittedWords(source, line, symbol_table, output_buffer)
    /\ stage = "strings" /\ symbol = 1 => Reached(source) = 1 .. line

\* Before the first line nothing was defined.
LEMMA InitProgramInv == ASSUME AssemblerInit PROVE ProgramInv
<1>1. /\ stage = "pass1" /\ line = 0 /\ current_address = 0 /\ symbol_table = EmptySymbolTable
      /\ IsSource(source)
  BY AssemblerAssumption DEF AssemblerInit
<1>2. ~Emitting
  BY <1>1 DEF Emitting
<1>3. Passed(source, 0) /\ CountTo(source, 0) = 0
  BY <1>1, Counting DEF Passed, IsSource
<1>4. FirstPassTable(EmptySymbolTable, source, 0)
  <2>1. \A n : \A k \in DefiningLines(source, n) : ~(k <= 0)
    BY DEF DefiningLines, Reached
  <2>. QED
    BY <2>1 DEF FirstPassTable, Unique, EmptySymbolTable
<1>. QED
  BY <1>1, <1>2, <1>3, <1>4 DEF ProgramInv

\* A line without an instruction, in the second pass.
LEMMA QuietLine ==
    ASSUME AssemblerInv, ProgramInv, stage = "pass2", NEW kind, kind \notin {"instruction", "other"},
           AtLine(kind), line' = line + 1,
           UNCHANGED <<source, stage, symbol_table, output_buffer, output_size, symbol>>
    PROVE  ProgramInv'
<1>1. /\ IsSource(source) /\ line \in Nat /\ line < Len(source) /\ source[line + 1].kind = kind
  BY AtLineFacts DEF AtLine
<1>2. Passed(source, line) /\ Passed(source, line + 1)
  BY <1>1, PassedNext DEF ProgramInv, Passes
<1>3. CountTo(source, line + 1) = CountTo(source, line)
  BY <1>1, Counting
<1>4. ASSUME ~Full(symbol_table)
      PROVE  /\ SecondPassTable(symbol_table, source, line + 1)
             /\ EmittedWords(source, line + 1, symbol_table, output_buffer)
  <2>1. /\ SecondPassTable(symbol_table, source, line)
        /\ EmittedWords(source, line, symbol_table, output_buffer)
    BY <1>4 DEF ProgramInv, Emitting
  <2>2. InstructionsTo(source, line + 1) = InstructionsTo(source, line)
    BY <1>1 DEF InstructionsTo
  <2>. QED
    BY <1>1, <2>1, <2>2, SecondPassQuiet DEF EmittedWords
<1>5. output_size = CountTo(source, line)
  BY DEF ProgramInv, Emitting
<1>. QED
  BY <1>2, <1>3, <1>4, <1>5 DEF ProgramInv, Emitting, Passes

\* A line without a word is passed.
LEMMA BlankProgram == ASSUME AssemblerInv, ProgramInv, Blank PROVE ProgramInv'
<1>1. /\ AtLine("blank") /\ line' = line + 1 /\ UNCHANGED <<source, parserVars>>
  BY DEF Blank, NextLine
<1>2. UNCHANGED <<source, stage, current_address, symbol_table, output_buffer, output_size, symbol>>
  BY <1>1 DEF parserVars
<1>3. CASE stage = "pass2"
  BY <1>1, <1>2, <1>3, QuietLine
<1>4. CASE stage = "pass1"
  <2>1. /\ IsSource(source) /\ line \in Nat /\ line < Len(source) /\ source[line + 1].kind = "blank"
    BY <1>1, AtLineFacts DEF AtLine
  <2>2. Passed(source, line) /\ Passed(source, line + 1)
    BY <1>4, <2>1, PassedNext DEF ProgramInv, Passes
  <2>3. CountTo(source, line + 1) = CountTo(source, line) /\ current_address = CountTo(source, line)
    BY <1>4, <2>1, Counting DEF ProgramInv
  <2>4. ~Full(symbol_table) => FirstPassTable(symbol_table, source, line + 1)
    BY <1>4, <2>1, FirstPassQuiet DEF ProgramInv
  <2>. QED
    BY <1>1, <1>2, <1>4, <2>2, <2>3, <2>4 DEF ProgramInv, Emitting
<1>. QED
  BY <1>1, <1>3, <1>4 DEF AtLine, Passes

\* A definition enters the table in the first pass.
LEMMA DefinitionProgram ==
    ASSUME NamesFit, AssemblerInv, ProgramInv, Label \/ Constant PROVE ProgramInv'
<1>1. PICK kind \in {"label", "constant"} :
          AtLine(kind) /\ Defines(source[line + 1]) /\ line' = line + 1 /\ source' = source
  BY DEF Label, Constant, NextLine
<1>2. UNCHANGED <<source, stage, current_address, output_buffer, output_size, symbol>>
  BY <1>1 DEF Defines
<1>. DEFINE l == source[line + 1]
<1>3. CASE stage = "pass2"
  <2>1. symbol_table' = symbol_table
    BY <1>1, <1>3 DEF Defines
  <2>. QED
    BY <1>1, <1>2, <1>3, <2>1, QuietLine
<1>4. CASE stage = "pass1"
  <2>1. /\ IsSource(source) /\ line \in Nat /\ line < Len(source) /\ l.kind = kind
        /\ l.name \in Names /\ (kind = "constant" => l.value \in Nat)
    BY <1>1, AtLineFacts DEF AtLine, IsSource
  <2>2. Passed(source, line) /\ Passed(source, line + 1)
    BY <1>4, <2>1, PassedNext DEF ProgramInv, Passes
  <2>3. CountTo(source, line + 1) = CountTo(source, line) /\ current_address = CountTo(source, line)
    BY <1>4, <2>1, Counting DEF ProgramInv
  <2>. DEFINE type == IF kind = "constant" THEN "CONSTANT" ELSE "LABEL"
              a == IF kind = "constant" THEN l.value ELSE CountTo(source, line)
  <2>4. symbol_table' = AfterAdd(symbol_table, l.name, type, a, <<>>)
    BY <1>1, <1>4, <2>1, <2>3
       DEF Defines, LabelAddress, AfterDefineLabel, AfterDefineConstant
  <2>5. ASSUME ~Full(symbol_table') PROVE FirstPassTable(symbol_table', source, line + 1)
    <3>1. ~Full(symbol_table)
      BY <2>4, <2>5 DEF AfterAdd
    <3>2. FirstPassTable(symbol_table, source, line) /\ TableInv(symbol_table)
      BY <1>4, <3>1 DEF ProgramInv, AssemblerInv
    <3>3. type \in {"LABEL", "CONSTANT"} /\ a \in Nat
      BY <2>1, Counting
    <3>4. a = IF l.kind = "constant" THEN l.value ELSE CountTo(source, line)
      BY <2>1
    <3>. HIDE DEF type, a
    <3>. QED
      BY <2>1, <2>2, <2>4, <3>1, <3>2, <3>3, <3>4, FirstPassDefines
  <2>. QED
    BY <1>1, <1>2, <1>4, <2>2, <2>3, <2>5 DEF ProgramInv, Emitting
<1>. QED
  BY <1>1, <1>3, <1>4 DEF AtLine, Passes

\* An instruction moves the address of the labels after it.
LEMMA CountProgram == ASSUME AssemblerInv, ProgramInv, CountInstruction PROVE ProgramInv'
<1>1. /\ AtLine("instruction") /\ line' = line + 1 /\ source' = source /\ stage = "pass1"
      /\ current_address' = current_address + 1
      /\ UNCHANGED <<stage, symbol_table, output_buffer, output_size, symbol>>
  BY DEF CountInstruction, Counts, NextLine
<1>2. /\ IsSource(source) /\ line \in Nat /\ line < Len(source)
      /\ source[line + 1].kind = "instruction"
  BY <1>1, AtLineFacts DEF AtLine
<1>3. Passed(source, line) /\ Passed(source, line + 1)
  BY <1>1, <1>2, PassedNext DEF ProgramInv, Passes
<1>4. CountTo(source, line + 1) = CountTo(source, line) + 1 /\ current_address = CountTo(source, line)
  BY <1>1, <1>2, Counting DEF ProgramInv
<1>5. ~Full(symbol_table) => FirstPassTable(symbol_table, source, line + 1)
  BY <1>1, <1>2, FirstPassQuiet DEF ProgramInv
<1>. QED
  BY <1>1, <1>3, <1>4, <1>5 DEF ProgramInv, Emitting

\* An instruction is emitted behind those before it.
LEMMA EmitProgram ==
    ASSUME NamesFit, AssemblerInv, ProgramInv, EmitInstruction PROVE ProgramInv'
<1>. DEFINE i == source[line + 1].instruction
            n == CountTo(source, line)
<1>1. /\ AtLine("instruction") /\ Emits(i) /\ line' = line + 1 /\ source' = source
      /\ stage = "pass2" /\ Room /\ symbol_table' = AfterEncode(symbol_table, i)
      /\ output_size' = output_size + 1 /\ stage' = stage /\ symbol' = symbol
  BY DEF EmitInstruction, NextLine, Emits
<1>2. /\ IsSource(source) /\ line \in Nat /\ line < Len(source)
      /\ source[line + 1].kind = "instruction"
  BY <1>1, AtLineFacts DEF AtLine
<1>3. /\ Passed(source, line) /\ Passed(source, line + 1)
      /\ line + 1 \in InstructionLines(source) /\ IsInstruction(i)
  <2>1. Passed(source, line)
    BY <1>1 DEF ProgramInv, Passes
  <2>2. Passed(source, line + 1) /\ line + 1 \in Reached(source)
    BY <1>2, <2>1, PassedNext
  <2>. QED
    BY <1>2, <2>1, <2>2 DEF InstructionLines, Reached, IsSource
<1>4. CountTo(source, line + 1) = n + 1 /\ output_size = n /\ n \in Nat
  BY <1>1, <1>2, Counting DEF ProgramInv, Emitting
<1>5. TableInv(symbol_table) /\ TableInv(symbol_table')
  BY <1>1, <1>3, EncodedTable DEF AssemblerInv
<1>6. ASSUME ~Full(symbol_table')
      PROVE  /\ SecondPassTable(symbol_table', source, line + 1)
             /\ EmittedWords(source, line + 1, symbol_table', output_buffer')
  <2>1. ~Full(symbol_table) /\ Kept(symbol_table, symbol_table')
    BY <1>1, <1>3, <1>5, <1>6, EncodedKeeps
  <2>2. /\ SecondPassTable(symbol_table, source, line)
        /\ EmittedWords(source, line, symbol_table, output_buffer)
    BY <1>1, <2>1 DEF ProgramInv, Emitting
  <2>3. SecondPassTable(symbol_table', source, line + 1)
    BY <1>1, <1>2, <1>3, <1>5, <2>1, <2>2, SecondPassEncodes
  <2>4. PICK junk \in Junk :
            output_buffer' = [b \in DOMAIN output_buffer |->
                                IF b \div 4 = output_size
                                  THEN InstructionByte(Encode(symbol_table', i, junk), b % 4)
                                  ELSE output_buffer[b]]
    BY <1>1 DEF Emits
  <2>. DEFINE w == Encode(symbol_table', i, junk)
  <2>5. WellTyped(i) => w \in Word /\ WordMeans(source, symbol_table', w, i)
    BY <1>2, <1>3, <1>5, <2>3, WordEncoded
  <2>6. n \in 0 .. Capacity - 1 /\ output_buffer \in [BufferByte -> Byte]
    BY <1>1, <1>4, AssemblerAssumption DEF Room, AssemblerInv, AssemblerTypeOK
  <2>7. /\ w \in Word => WordIn(output_buffer', n) = w
        /\ \A m \in 0 .. n - 1 : WordIn(output_buffer', m) = WordIn(output_buffer, m)
    <3>. HIDE DEF w, n
    <3>1. output_buffer' = [b \in BufferByte |->
                              IF b \div 4 = n THEN InstructionByte(w, b % 4) ELSE output_buffer[b]]
      BY <1>4, <2>4, <2>6 DEF w
    <3>. QED
      BY <2>6, <3>1, AppendedWord
  <2>. HIDE DEF w, i
  <2>8. ASSUME NEW k \in InstructionsTo(source, line + 1), WellTyped(source[k].instruction)
        PROVE  WordMeans(source, symbol_table', WordIn(output_buffer', CountTo(source, k - 1)),
                         source[k].instruction)
    <3>1. k \in 1 .. line + 1 /\ source[k].kind = "instruction"
      BY DEF InstructionsTo
    <3>2. CASE k = line + 1
      <4>1. k - 1 = line /\ source[k].instruction = i
        BY <1>2, <3>2 DEF i
      <4>. QED
        BY <2>5, <2>7, <2>8, <4>1
    <3>3. CASE k \in 1 .. line
      <4>. DEFINE m == CountTo(source, k - 1)
      <4>1. m \in 0 .. n - 1
        <5>1. k - 1 \in Nat
          BY <3>3
        <5>2. m \in Nat /\ m < n
          BY <1>2, <3>1, <3>3, <5>1, Counting, CountOrder
        <5>. HIDE DEF m, n
        <5>. QED
          BY <1>4, <5>2
      <4>2. WordIn(output_buffer', m) = WordIn(output_buffer, m)
        BY <2>7, <4>1
      <4>3. k \in InstructionsTo(source, line)
        BY <3>1, <3>3 DEF InstructionsTo
      <4>4. WordMeans(source, symbol_table, WordIn(output_buffer, m), source[k].instruction)
        BY <2>2, <2>8, <4>3 DEF EmittedWords
      <4>5. Len(symbol_table.symbols) \in Nat /\ Len(symbol_table'.symbols) \in Nat
        BY <1>5, TableLength
      <4>. HIDE DEF m
      <4>6. WordMeans(source, symbol_table', WordIn(output_buffer, m), source[k].instruction)
        BY <2>1, <4>4, <4>5, WordStays
      <4>. QED
        BY <4>2, <4>6 DEF m
    <3>. QED
      BY <1>2, <3>1, <3>2, <3>3
  <2>. QED
    BY <2>3, <2>8 DEF EmittedWords
<1>. QED
  BY <1>1, <1>3, <1>4, <1>6 DEF ProgramInv, Emitting, Passes

\* A pass ends: all lines the parser reaches were passed.
LEMMA PassEndsProgram == ASSUME AssemblerInv, ProgramInv, SecondPass \/ Parsed PROVE ProgramInv'
<1>1. PassEnds /\ source' = source /\ stage \in Passes /\ Passed(source, line)
  BY DEF SecondPass, Parsed, PassEnds, ProgramInv
<1>2. /\ IsSource(source) /\ Len(source) \in Nat /\ symbol = 1
      /\ line = Len(source) \/ (line < Len(source) /\ source[line + 1].kind = "other")
  BY <1>1 DEF PassEnds, AtLine, AssemblerInv, AssemblerTypeOK, IsSource
<1>3. Reached(source) = 1 .. line
  BY <1>1, <1>2, PassedAll
<1>4. CASE SecondPass
  <2>1. /\ stage = "pass1" /\ stage' = "pass2" /\ line' = 0 /\ output_size' = 0
        /\ symbol_table' = symbol_table
    BY <1>4 DEF SecondPass, StartsSecondPass
  <2>2. Passed(source, 0) /\ CountTo(source, 0) = 0
    BY <1>2, Counting DEF Passed
  <2>3. ~Full(symbol_table) => SecondPassTable(symbol_table, source, 0)
    BY <1>3, <2>1, SecondPassStarts DEF ProgramInv
  <2>4. EmittedWords(source, 0, symbol_table', output_buffer')
    BY DEF EmittedWords, InstructionsTo
  <2>. QED
    BY <1>1, <2>1, <2>2, <2>3, <2>4 DEF ProgramInv, Emitting
<1>5. CASE Parsed
  <2>1. /\ stage = "pass2" /\ stage' = "strings" /\ line' = line
        /\ UNCHANGED <<symbol_table, output_buffer, output_size, symbol>>
    BY <1>5 DEF Parsed, EndsSecondPass
  <2>. QED
    BY <1>1, <1>2, <1>3, <2>1 DEF ProgramInv, Emitting, Passes
<1>. QED
  BY <1>4, <1>5

\* After the passes the output is only looked at before the first symbol.
LEMMA StringsProgram ==
    ASSUME AssemblerInv,
           \/ OutputOverflow \/ ParserError \/ CopyString \/ CopyAborts \/ StringsTooLong
           \/ OtherSymbol \/ StringsDone \/ WriteFile
    PROVE  ProgramInv'
<1>1. CASE CopyString \/ OtherSymbol
  <2>1. stage = "strings" /\ stage' = stage /\ symbol' = symbol + 1
    BY <1>1 DEF CopyString, OtherSymbol, AtString
  <2>2. symbol \in Nat /\ symbol # 0
    BY TableLength DEF AssemblerInv, AssemblerTypeOK
  <2>3. symbol' # 1
    BY <2>1, <2>2
  <2>. QED
    BY <2>1, <2>3 DEF ProgramInv, Emitting, Passes
<1>2. CASE ~(CopyString \/ OtherSymbol)
  <2>1. stage' \in {"failed", "write", "written", "unwritten"}
    BY <1>2
       DEF OutputOverflow, Overflows, ParserError, Fails, CopyAborts, StringsTooLong,
           StringsDone, WriteFile
  <2>. QED
    BY <2>1 DEF ProgramInv, Emitting, Passes
<1>. QED
  BY <1>1, <1>2

\* Every step of the assembler keeps the output the program.
LEMMA NextProgramInv ==
    ASSUME NamesFit, AssemblerInv, ProgramInv, [AssemblerNext]_asmVars PROVE ProgramInv'
<1>1. CASE UNCHANGED asmVars
  BY <1>1 DEF asmVars, ProgramInv, Emitting
<1>2. CASE AssemblerExited
  BY <1>2 DEF AssemblerExited, asmVars, ProgramInv, Emitting
<1>. QED
  BY <1>1, <1>2, BlankProgram, DefinitionProgram, CountProgram, EmitProgram, PassEndsProgram,
     StringsProgram DEF AssemblerNext, Assemble, AssembleString

\* After the passes that is the whole program.
LEMMA ProgramInvIsProgram == ASSUME AssemblerInv, ProgramInv PROVE OutputIsProgram
<1>. SUFFICES ASSUME stage = "strings", symbol = 1, ~Full(symbol_table)
              PROVE  /\ output_size = Cardinality(InstructionLines(source))
                     /\ \A k \in InstructionLines(source) :
                           WellTyped(source[k].instruction) =>
                               Decodes(source, WordAt(Before(source, k)), source[k].instruction)
  BY DEF OutputIsProgram
<1>1. /\ IsSource(source) /\ Passed(source, line) /\ Reached(source) = 1 .. line
      /\ output_size = CountTo(source, line) /\ TableInv(symbol_table)
      /\ SecondPassTable(symbol_table, source, line)
      /\ EmittedWords(source, line, symbol_table, output_buffer)
  BY DEF ProgramInv, Emitting, AssemblerInv, AssemblerTypeOK
<1>2. InstructionLines(source) = InstructionsTo(source, line)
  BY <1>1 DEF InstructionLines, InstructionsTo
<1>3. ASSUME NEW k \in InstructionLines(source), WellTyped(source[k].instruction)
      PROVE  Decodes(source, WordAt(Before(source, k)), source[k].instruction)
  <2>1. k \in 1 .. line
    BY <1>2 DEF InstructionsTo
  <2>2. Before(source, k) = CountTo(source, k - 1)
    BY <1>1, <2>1, PassedLines
  <2>. DEFINE m == CountTo(source, k - 1)
  <2>3. WordMeans(source, symbol_table, WordIn(output_buffer, m), source[k].instruction)
    BY <1>1, <1>2, <1>3 DEF EmittedWords
  <2>. HIDE DEF m
  <2>4. WordAt(m) = WordIn(output_buffer, m)
    BY DEF WordAt, WordIn
  <2>5. Decodes(source, WordAt(m), source[k].instruction)
    BY <1>1, <2>3, <2>4, WordDecodes
  <2>. QED
    BY <2>2, <2>5 DEF m
<1>. QED
  BY <1>1, <1>2, <1>3 DEF CountTo

\* The binary program is the source program, for every source whose names fit
\* the table and every width of the fields: each instruction whose operands
\* have the types its opcode expects decodes to itself, and each name to its
\* first definition, wherever in the source it stands.
THEOREM OutputDecodes ==
    ASSUME NamesFit
    PROVE  AssemblerSpec => []OutputIsProgram
<1>. DEFINE Inv == AssemblerInv /\ ProgramInv
<1>1. AssemblerInit => Inv
  BY InitAssemblerInv, InitProgramInv
<1>2. Inv /\ [AssemblerNext]_asmVars => Inv'
  BY NextProgramInv, AssembleStringOK, WriteFileOK, AssemblerKept
     DEF AssemblerNext, Assemble, AssemblerExited
<1>3. Inv => OutputIsProgram
  BY ProgramInvIsProgram
<1>. QED
  BY <1>1, <1>2, <1>3, PTL DEF AssemblerSpec

----------------------------------------------------------------------------
(* What is written to the file.                                           *)

\* The strings of the table as the file has them, symbol by symbol.
StringParts(t) ==
    [k \in 1 .. Len(t.symbols) |->
        IF IsString(t.symbols[k]) THEN Padded(t.symbols[k].text) ELSE <<>>]

\* The text of a symbol, and its place in the file.
LEMMA PaddedTyped ==
    ASSUME NEW text \in Seq(Byte)
    PROVE  /\ Padded(text) \in Seq(Byte)
           /\ Len(Padded(text)) = 4 * WordsOf(Len(text) + 1) /\ WordsOf(Len(text) + 1) \in Nat
           /\ Len(Terminated(text)) = Len(text) + 1 /\ Len(text) \in Nat
           /\ Len(text) + 1 <= Len(Padded(text))
           /\ (Len(text) + 1) % 4 = 0 => Len(Padded(text)) = Len(text) + 1
           /\ \A b \in 1 .. Len(text) + 1 : Padded(text)[b] = Terminated(text)[b]
<1>. DEFINE n == Len(text)
            m == WordsOf(n + 1)
<1>1. n \in Nat /\ 0 \in Byte
  BY ByteAssumption DEF Byte
<1>2. m \in Nat /\ n + 1 <= 4 * m /\ ((n + 1) % 4 = 0 => 4 * m = n + 1)
  <2>1. \A x \in Nat : /\ (x + 3) \div 4 \in Nat /\ x <= 4 * ((x + 3) \div 4)
                       /\ x % 4 = 0 => 4 * ((x + 3) \div 4) = x
    OBVIOUS
  <2>2. n + 1 \in Nat
    BY <1>1
  <2>. HIDE DEF n
  <2>. QED
    BY <2>1, <2>2 DEF WordsOf
<1>. HIDE DEF m
<1>3. Padded(text) = [b \in 1 .. 4 * m |-> IF b <= n THEN text[b] ELSE 0]
  BY DEF Padded, m
<1>4. Padded(text) \in Seq(Byte) /\ Len(Padded(text)) = 4 * m
  <2>1. 4 * m \in Nat /\ Padded(text) \in [1 .. 4 * m -> Byte]
    BY <1>1, <1>2, <1>3
  <2>. QED
    BY <2>1
<1>5. Len(Terminated(text)) = n + 1
  BY <1>1 DEF Terminated
<1>6. ASSUME NEW b \in 1 .. n + 1 PROVE Padded(text)[b] = Terminated(text)[b]
  <2>1. b \in 1 .. 4 * m
    BY <1>1, <1>2
  <2>2. Padded(text)[b] = IF b <= n THEN text[b] ELSE 0
    BY <1>3, <2>1
  <2>3. Terminated(text)[b] = IF b <= n THEN text[b] ELSE 0
    BY <1>1 DEF Terminated
  <2>. QED
    BY <2>2, <2>3
<1>. QED
  BY <1>1, <1>2, <1>4, <1>5, <1>6 DEF m

\* The strings of the table as the file has them are bytes.
LEMMA PartsTyped ==
    ASSUME NEW t, TableInv(t)
    PROVE  /\ StringParts(t) \in Seq(Seq(Byte)) /\ Len(StringParts(t)) = Len(t.symbols)
           /\ \A k \in 1 .. Len(t.symbols) : t.symbols[k].text \in Seq(Byte)
<1>1. t.symbols \in Seq(Entry(Seq(Byte))) /\ Len(t.symbols) \in Nat
  BY DEF TableInv, Shape
<1>2. ASSUME NEW k \in 1 .. Len(t.symbols) PROVE t.symbols[k].text \in Seq(Byte)
  <2>1. t.symbols[k] \in Entry(Seq(Byte)) /\ <<>> \in Seq(Byte)
    BY <1>1
  <2>. QED
    BY <2>1 DEF Entry
<1>3. ASSUME NEW k \in 1 .. Len(t.symbols)
      PROVE  (IF IsString(t.symbols[k]) THEN Padded(t.symbols[k].text) ELSE <<>>) \in Seq(Byte)
  <2>1. <<>> \in Seq(Byte)
    OBVIOUS
  <2>. QED
    BY <1>2, <2>1, PaddedTyped
<1>4. StringParts(t) \in [1 .. Len(t.symbols) -> Seq(Byte)]
  BY <1>3 DEF StringParts
<1>. QED
  BY <1>1, <1>2, <1>4

\* The file has the bytes of the buffer, and then those of the strings.
Body == [b \in 1 .. 4 * output_size |-> output_buffer[b - 1]] \o StringData

\* What the file has where.
LEMMA BodyBytes ==
    ASSUME AssemblerInv
    PROVE  /\ Body \in Seq(Byte) /\ StringData \in Seq(Byte) /\ output_size \in Nat
           /\ StringData = Sequence!FlattenSeq(StringParts(symbol_table))
           /\ Len(StringData) \in Nat /\ Len(Body) = 4 * output_size + Len(StringData)
           /\ \A b \in 1 .. 4 * output_size : Body[b] = output_buffer[b - 1]
           /\ \A b \in 1 .. Len(StringData) : Body[4 * output_size + b] = StringData[b]
<1>. DEFINE code == [b \in 1 .. 4 * output_size |-> output_buffer[b - 1]]
<1>1. output_size \in Nat /\ Capacity \in Nat /\ output_size <= Capacity
  BY AssemblerAssumption DEF AssemblerInv, AssemblerTypeOK
<1>2. code \in Seq(Byte) /\ Len(code) = 4 * output_size
  <2>1. \A b \in 1 .. 4 * output_size : b - 1 \in BufferByte
    BY <1>1 DEF BufferByte
  <2>2. code \in [1 .. 4 * output_size -> Byte] /\ 4 * output_size \in Nat
    BY <1>1, <2>1 DEF AssemblerInv, AssemblerTypeOK
  <2>. HIDE DEF code
  <2>. QED
    BY <2>2
<1>3. StringData = Sequence!FlattenSeq(StringParts(symbol_table))
  BY DEF StringData, StringParts
<1>4. StringData \in Seq(Byte)
  <2>1. StringParts(symbol_table) \in Seq(Seq(Byte))
    BY PartsTyped DEF AssemblerInv
  <2>. QED
    BY <1>3, <2>1, FlattenTyped
<1>5. \A b \in 1 .. 4 * output_size : code[b] = output_buffer[b - 1]
  OBVIOUS
<1>6. Body = code \o StringData
  BY DEF Body
<1>. HIDE DEF code
<1>7. /\ Len(code \o StringData) = Len(code) + Len(StringData) /\ Len(StringData) \in Nat
      /\ \A x \in 1 .. Len(code) : (code \o StringData)[x] = code[x]
      /\ \A x \in 1 .. Len(StringData) : (code \o StringData)[Len(code) + x] = StringData[x]
      /\ code \o StringData \in Seq(Byte)
  BY <1>2, <1>4
<1>. QED
  BY <1>1, <1>2, <1>3, <1>4, <1>5, <1>6, <1>7
=============================================================================
