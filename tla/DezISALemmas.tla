--------------------------- MODULE DezISALemmas ----------------------------
(***************************************************************************)
(* Facts about instruction words that the proofs about the machine and     *)
(* about the tools share, for every width of the fields: powers of two,    *)
(* the bits of a word, its fields, and the ranges of word arithmetic.      *)
(***************************************************************************)
EXTENDS DezISA, DezArithmetic

LEMMA WordFacts ==
    /\ WordSpan \in Nat \ {0}
    /\ 0 \in Word /\ Word \subseteq Nat
  BY ISAAssumption, WordAssumption, ProductPositive DEF Word

LEMMA WrapWord == ASSUME NEW a \in Int PROVE Wrap(a) \in Word
  BY ModRange, WordFacts DEF Wrap, Word

LEMMA DivWord ==
    ASSUME NEW a \in Word, NEW n \in Nat \ {0}
    PROVE  a \div n \in Word
  BY DivNat, WordFacts DEF Word

----------------------------------------------------------------------------
(* Powers of two and bits. *)

LEMMA Powers ==
    /\ Power[0] = 1
    /\ \A k \in 0 .. WordBits : Power[k] \in Nat \ {0}
    /\ \A k \in 1 .. WordBits : Power[k] = 2 * Power[k - 1]
<1>. DEFINE Doubles(f) == f = [k \in 0 .. WordBits |-> IF k = 0 THEN 1 ELSE 2 * f[k - 1]]
<1>1. \E f : Doubles(f)
  <2>. DEFINE h == [k \in 1 .. WordBits |-> [n \in Nat |-> 2 * n]]
  <2>1. h \in [1 .. WordBits -> [Nat -> Nat]] /\ WordBits \in Nat
    BY ISAAssumption
  <2>2. \A k \in 1 .. WordBits : \A n \in Nat : h[k][n] = 2 * n
    OBVIOUS
  <2>. HIDE DEF h
  <2>3. PICK f \in [0 .. WordBits -> Nat] : f[0] = 1 /\ \A k \in 1 .. WordBits : f[k] = h[k][f[k - 1]]
    <3>1. \E f \in [0 .. WordBits -> Nat] : Recursion(f, 1, h, WordBits)
      BY <2>1, RecursionExists
    <3>. QED
      BY <3>1 DEF Recursion
  <2>4. \A k \in 0 .. WordBits : f[k] = IF k = 0 THEN 1 ELSE 2 * f[k - 1]
    <3>1. \A k \in 0 .. WordBits : k = 0 \/ k \in 1 .. WordBits
      OBVIOUS
    <3>2. \A k \in 1 .. WordBits : k - 1 \in 0 .. WordBits /\ k # 0
      BY <2>1
    <3>3. \A k \in 1 .. WordBits : f[k] = 2 * f[k - 1]
      <4>1. \A k \in 1 .. WordBits : f[k - 1] \in Nat
        BY <2>3, <3>2
      <4>. QED
        BY <2>2, <2>3, <4>1
    <3>. QED
      BY <2>3, <3>1, <3>2, <3>3
  <2>5. Doubles(f)
    BY <2>3, <2>4
  <2>. QED
    BY <2>5
<1>2. Power = CHOOSE f : Doubles(f)
  BY DEF Power
<1>3. Doubles(Power)
  BY <1>1, <1>2
<1>4. \A k \in 0 .. WordBits : Power[k] = IF k = 0 THEN 1 ELSE 2 * Power[k - 1]
  BY <1>3
<1>. HIDE DEF Doubles
<1>5. WordBits \in Nat /\ 0 \in 0 .. WordBits
  BY ISAAssumption
<1>6. Power[0] = 1 /\ \A k \in 1 .. WordBits : Power[k] = 2 * Power[k - 1]
  <2>1. \A k \in 1 .. WordBits : k \in 0 .. WordBits /\ k # 0
    OBVIOUS
  <2>. QED
    BY <1>4, <1>5, <2>1
<1>7. \A k \in 0 .. WordBits : Power[k] \in Nat \ {0}
  <2>. DEFINE Positive == {k \in Nat : k <= WordBits => Power[k] \in Nat \ {0}}
  <2>1. 0 \in Positive
    BY <1>6
  <2>2. ASSUME NEW k \in Nat, k \in Positive PROVE k + 1 \in Positive
    <3>1. CASE k + 1 <= WordBits
      <4>1. k + 1 \in 1 .. WordBits /\ k <= WordBits /\ (k + 1) - 1 = k
        BY <1>5, <3>1
      <4>2. Power[k + 1] = 2 * Power[k]
        BY <1>6, <4>1
      <4>. QED
        BY <2>2, <4>1, <4>2
    <3>. QED
      BY <3>1
  <2>3. Nat \subseteq Positive
    <3>. HIDE DEF Positive
    <3>. QED
      BY <2>1, <2>2, SetInduction
  <2>. QED
    BY <1>5, <2>3
<1>. QED
  BY <1>6, <1>7

LEMMA PowerSum ==
    ASSUME NEW a \in Nat, NEW b \in Nat, a + b <= WordBits
    PROVE  Power[a + b] = Power[a] * Power[b]
<1>. DEFINE Sums == {n \in Nat : a + n <= WordBits => Power[a + n] = Power[a] * Power[n]}
<1>1. WordBits \in Nat
  BY ISAAssumption
<1>2. 0 \in Sums
  <2>1. a <= WordBits => Power[a] \in Nat
    BY <1>1, Powers
  <2>. QED
    BY <2>1, Powers
<1>3. ASSUME NEW n \in Nat, n \in Sums PROVE n + 1 \in Sums
  <2>. SUFFICES ASSUME a + (n + 1) <= WordBits
                PROVE  Power[a + (n + 1)] = Power[a] * Power[n + 1]
    OBVIOUS
  <2>1. /\ a + (n + 1) \in 1 .. WordBits /\ n + 1 \in 1 .. WordBits
        /\ (a + (n + 1)) - 1 = a + n /\ (n + 1) - 1 = n
        /\ a \in 0 .. WordBits /\ n \in 0 .. WordBits
    BY <1>1
  <2>2. Power[a + (n + 1)] = 2 * Power[a + n] /\ Power[n + 1] = 2 * Power[n]
    BY <2>1, Powers
  <2>3. Power[a] \in Nat /\ Power[n] \in Nat
    BY <2>1, Powers
  <2>4. Power[a + n] = Power[a] * Power[n]
    BY <1>1, <1>3
  <2>5. \A x, y \in Nat : 2 * (x * y) = x * (2 * y)
    OBVIOUS
  <2>. QED
    BY <2>2, <2>3, <2>4, <2>5
<1>4. Nat \subseteq Sums
  <2>. HIDE DEF Sums
  <2>. QED
    BY <1>2, <1>3, SetInduction
<1>. QED
  BY <1>4

LEMMA BitValue ==
    ASSUME NEW x \in Nat, NEW k \in 0 .. WordBits - 1
    PROVE  Bit(x, k) \in {0, 1} /\ x \div Power[k] \in Nat
<1>1. k \in 0 .. WordBits
  BY ISAAssumption
<1>2. Power[k] \in Nat \ {0}
  BY <1>1, Powers
<1>3. x \div Power[k] \in Nat
  BY <1>2, DivNat
<1>4. \A q \in Nat : q % 2 \in {0, 1}
  OBVIOUS
<1>. QED
  BY <1>3, <1>4 DEF Bit

LEMMA BitOfZero == ASSUME NEW k \in 0 .. WordBits - 1 PROVE Bit(0, k) = 0
<1>1. k \in 0 .. WordBits
  BY ISAAssumption
<1>2. Power[k] \in Nat \ {0}
  BY <1>1, Powers
<1>3. \A n \in Nat \ {0} : 0 \div n = 0
  OBVIOUS
<1>. QED
  BY <1>2, <1>3 DEF Bit

\* The bits of a number in front of one of t bits: the low ones are those of
\* the one, the high ones those of the other.
LEMMA LowBits ==
    ASSUME NEW t \in 0 .. WordBits, NEW n \in 0 .. Power[t] - 1, NEW u \in Nat,
           NEW k \in 0 .. WordBits - 1, k < t
    PROVE  Bit(n + Power[t] * u, k) = Bit(n, k)
<1>1. k \in 0 .. WordBits /\ k + 1 \in 1 .. WordBits /\ t - (k + 1) \in 0 .. WordBits
  BY ISAAssumption
<1>2. Power[k] \in Nat \ {0} /\ Power[t - (k + 1)] \in Nat \ {0} /\ Power[t] \in Nat \ {0}
  BY <1>1, Powers
<1>3. Power[t] = Power[k] * (2 * Power[t - (k + 1)])
  <2>1. Power[k + 1] = 2 * Power[k]
    BY <1>1, Powers
  <2>2. (k + 1) + (t - (k + 1)) = t /\ t <= WordBits /\ k + 1 \in Nat /\ t - (k + 1) \in Nat
    BY <1>1, ISAAssumption
  <2>3. Power[t] = Power[k + 1] * Power[t - (k + 1)]
    BY <2>2, PowerSum
  <2>4. \A x, y \in Nat : (2 * x) * y = x * (2 * y)
    OBVIOUS
  <2>. QED
    BY <1>2, <2>1, <2>3, <2>4
<1>. DEFINE P == Power[k]  v == Power[t - (k + 1)] * u
<1>4. P \in Nat \ {0} /\ v \in Nat /\ n \in Nat
  BY <1>2
<1>5. n + Power[t] * u = n + P * (2 * v)
  <2>1. \A x, y, z \in Nat : (x * (2 * y)) * z = x * (2 * (y * z))
    OBVIOUS
  <2>. QED
    BY <1>2, <1>3, <2>1
<1>. HIDE DEF P, v
<1>6. PICK q \in Nat, r \in 0 .. P - 1 : n = P * q + r /\ n \div P = q
  BY <1>4, DivMod
<1>7. n + P * (2 * v) = P * (q + 2 * v) + r
  BY <1>4, <1>6
<1>8. (n + P * (2 * v)) \div P = q + 2 * v
  <2>1. q + 2 * v \in Int
    BY <1>4
  <2>. QED
    BY <1>4, <1>7, <2>1, QuotRem
<1>9. (q + 2 * v) % 2 = q % 2
  BY <1>4
<1>. QED
  BY <1>5, <1>6, <1>8, <1>9 DEF Bit, P

LEMMA HighBits ==
    ASSUME NEW t \in 0 .. WordBits, NEW n \in 0 .. Power[t] - 1, NEW u \in Nat,
           NEW k \in 0 .. WordBits - 1, t <= k
    PROVE  Bit(n + Power[t] * u, k) = Bit(u, k - t)
<1>1. k \in 0 .. WordBits /\ k - t \in 0 .. WordBits /\ t + (k - t) = k /\ k <= WordBits
      /\ t \in Nat /\ k - t \in Nat
  BY ISAAssumption
<1>2. Power[t] \in Nat \ {0} /\ Power[k - t] \in Nat \ {0}
  BY <1>1, Powers
<1>3. Power[k] = Power[t] * Power[k - t]
  <2>1. Power[t + (k - t)] = Power[t] * Power[k - t]
    BY <1>1, PowerSum
  <2>. QED
    BY <1>1, <2>1
<1>. DEFINE x == n + Power[t] * u
<1>4. x \in Nat /\ x = Power[t] * u + n
  BY <1>2
<1>5. x \div Power[t] = u
  BY <1>2, <1>4, QuotRem
<1>. HIDE DEF x
<1>6. x \div (Power[t] * Power[k - t]) = (x \div Power[t]) \div Power[k - t]
  BY <1>2, <1>4, DivDiv
<1>. QED
  BY <1>3, <1>5, <1>6 DEF Bit, x

\* The recursion that adds the bits up has a solution.
LEMMA AddedBits ==
    ASSUME NEW bits \in [0 .. WordBits - 1 -> {0, 1}]
    PROVE  \E low \in [0 .. WordBits -> Nat] :
              /\ low[0] = 0
              /\ \A k \in 1 .. WordBits : low[k] = low[k - 1] + bits[k - 1] * Power[k - 1]
              /\ FromBits(bits) = low[WordBits]
<1>. DEFINE Adds(f) == f = [n \in 0 .. WordBits |->
                              IF n = 0 THEN 0 ELSE f[n - 1] + bits[n - 1] * Power[n - 1]]
            h == [k \in 1 .. WordBits |-> [x \in Nat |-> x + bits[k - 1] * Power[k - 1]]]
<1>1. WordBits \in Nat /\ \A k \in 1 .. WordBits : k - 1 \in 0 .. WordBits - 1 /\ k - 1 \in 0 .. WordBits
  BY ISAAssumption
<1>2. \A k \in 1 .. WordBits : bits[k - 1] * Power[k - 1] \in Nat
  <2>1. \A k \in 1 .. WordBits : bits[k - 1] \in {0, 1} /\ Power[k - 1] \in Nat
    BY <1>1, Powers
  <2>. QED
    BY <2>1
<1>3. h \in [1 .. WordBits -> [Nat -> Nat]]
  BY <1>2
<1>4. \A k \in 1 .. WordBits : \A x \in Nat : h[k][x] = x + bits[k - 1] * Power[k - 1]
  OBVIOUS
<1>. HIDE DEF h
<1>5. \E f : Adds(f)
  <2>1. PICK f \in [0 .. WordBits -> Nat] : f[0] = 0 /\ \A k \in 1 .. WordBits : f[k] = h[k][f[k - 1]]
    <3>1. \E f \in [0 .. WordBits -> Nat] : Recursion(f, 0, h, WordBits)
      BY <1>1, <1>3, RecursionExists
    <3>. QED
      BY <3>1 DEF Recursion
  <2>2. \A k \in 1 .. WordBits : f[k] = f[k - 1] + bits[k - 1] * Power[k - 1]
    BY <1>1, <1>4, <2>1
  <2>3. \A k \in 0 .. WordBits : f[k] = IF k = 0 THEN 0 ELSE f[k - 1] + bits[k - 1] * Power[k - 1]
    BY <1>1, <2>1, <2>2
  <2>4. Adds(f)
    BY <2>1, <2>3
  <2>. QED
    BY <2>4
<1>. DEFINE low == CHOOSE f : Adds(f)
<1>6. Adds(low)
  BY <1>5
<1>7. FromBits(bits) = low[WordBits]
  BY DEF FromBits
<1>. HIDE DEF low
<1>8. \A k \in 0 .. WordBits : low[k] = IF k = 0 THEN 0 ELSE low[k - 1] + bits[k - 1] * Power[k - 1]
  BY <1>6
<1>9. DOMAIN low = 0 .. WordBits /\ low = [k \in 0 .. WordBits |-> low[k]]
  BY <1>6
<1>. HIDE DEF Adds
<1>10. low[0] = 0 /\ \A k \in 1 .. WordBits : low[k] = low[k - 1] + bits[k - 1] * Power[k - 1]
  <2>1. 0 \in 0 .. WordBits /\ \A k \in 1 .. WordBits : k \in 0 .. WordBits /\ k # 0
    BY <1>1
  <2>. QED
    BY <1>8, <2>1
<1>11. \A k \in 0 .. WordBits : low[k] \in Nat
  <2>. DEFINE Typed == {k \in Nat : k <= WordBits => low[k] \in Nat}
  <2>1. 0 \in Typed
    BY <1>10
  <2>2. ASSUME NEW k \in Nat, k \in Typed PROVE k + 1 \in Typed
    <3>. SUFFICES ASSUME k + 1 <= WordBits PROVE low[k + 1] \in Nat
      OBVIOUS
    <3>1. k + 1 \in 1 .. WordBits /\ (k + 1) - 1 = k
      BY <1>1
    <3>2. low[k + 1] = low[k] + bits[k] * Power[k]
      BY <1>10, <3>1
    <3>3. bits[k] * Power[k] \in Nat
      BY <1>2, <3>1
    <3>4. low[k] \in Nat
      BY <1>1, <2>2
    <3>. QED
      BY <3>2, <3>3, <3>4
  <2>3. Nat \subseteq Typed
    <3>. HIDE DEF Typed
    <3>. QED
      BY <2>1, <2>2, SetInduction
  <2>. QED
    BY <1>1, <2>3
<1>12. low \in [0 .. WordBits -> Nat]
  BY <1>9, <1>11
<1>. QED
  BY <1>7, <1>10, <1>12

\* Bits make a word.
LEMMA FromBitsWord ==
    ASSUME NEW bits \in [0 .. WordBits - 1 -> {0, 1}]
    PROVE  FromBits(bits) \in Word
<1>1. PICK low \in [0 .. WordBits -> Nat] :
         /\ low[0] = 0
         /\ \A k \in 1 .. WordBits : low[k] = low[k - 1] + bits[k - 1] * Power[k - 1]
         /\ FromBits(bits) = low[WordBits]
  BY AddedBits
<1>2. WordBits \in Nat
  BY ISAAssumption
<1>. DEFINE Below == {k \in Nat : k <= WordBits => low[k] < Power[k]}
<1>3. 0 \in Below
  BY <1>1, Powers
<1>4. ASSUME NEW k \in Nat, k \in Below PROVE k + 1 \in Below
  <2>. SUFFICES ASSUME k + 1 <= WordBits PROVE low[k + 1] < Power[k + 1]
    OBVIOUS
  <2>1. /\ k + 1 \in 1 .. WordBits /\ (k + 1) - 1 = k
        /\ k \in 0 .. WordBits /\ k \in 0 .. WordBits - 1
    BY <1>2
  <2>2. /\ low[k + 1] = low[k] + bits[k] * Power[k] /\ Power[k + 1] = 2 * Power[k]
        /\ low[k] \in Nat /\ Power[k] \in Nat /\ bits[k] \in {0, 1}
    BY <1>1, <2>1, Powers
  <2>3. low[k] < Power[k]
    BY <1>4, <2>1
  <2>. QED
    BY <2>2, <2>3
<1>5. Nat \subseteq Below
  <2>. HIDE DEF Below
  <2>. QED
    BY <1>3, <1>4, SetInduction
<1>6. low[WordBits] \in Nat /\ low[WordBits] < WordSpan
  BY <1>1, <1>2, <1>5, ISAAssumption
<1>. QED
  BY <1>1, <1>6, WordAssumption DEF Word

\* A word is made of its bits.
LEMMA BitsOfWord ==
    ASSUME NEW w \in Word
    PROVE  FromBits([k \in 0 .. WordBits - 1 |-> Bit(w, k)]) = w
<1>. DEFINE bits == [k \in 0 .. WordBits - 1 |-> Bit(w, k)]
<1>1. WordBits \in Nat /\ w \in Nat /\ w < WordSpan
  BY ISAAssumption, WordAssumption DEF Word
<1>2. bits \in [0 .. WordBits - 1 -> {0, 1}] /\ \A k \in 0 .. WordBits - 1 : bits[k] = Bit(w, k)
  BY <1>1, BitValue
<1>. HIDE DEF bits
<1>3. PICK low \in [0 .. WordBits -> Nat] :
         /\ low[0] = 0
         /\ \A k \in 1 .. WordBits : low[k] = low[k - 1] + bits[k - 1] * Power[k - 1]
         /\ FromBits(bits) = low[WordBits]
  BY <1>2, AddedBits
<1>. DEFINE Agree == {k \in Nat : k <= WordBits => low[k] = w % Power[k]}
<1>4. 0 \in Agree
  BY <1>1, <1>3, Powers
<1>5. ASSUME NEW k \in Nat, k \in Agree PROVE k + 1 \in Agree
  <2>. SUFFICES ASSUME k + 1 <= WordBits PROVE low[k + 1] = w % Power[k + 1]
    OBVIOUS
  <2>1. /\ k + 1 \in 1 .. WordBits /\ (k + 1) - 1 = k
        /\ k \in 0 .. WordBits /\ k \in 0 .. WordBits - 1
    BY <1>1
  <2>. DEFINE P == Power[k]
  <2>2. /\ low[k + 1] = low[k] + Bit(w, k) * P /\ Power[k + 1] = 2 * P /\ P \in Nat \ {0}
    BY <1>2, <1>3, <2>1, Powers
  <2>3. low[k] = w % P
    BY <1>5, <2>1
  <2>4. Bit(w, k) = (w \div P) % 2
    BY DEF Bit
  <2>. HIDE DEF P
  <2>5. PICK q \in Nat, r \in 0 .. P - 1 : w = P * q + r /\ w \div P = q /\ w % P = r
    BY <1>1, <2>2, DivMod
  <2>6. PICK p \in Nat, s \in 0 .. 1 : q = 2 * p + s /\ q % 2 = s
    <3>1. \E p \in Nat, s \in 0 .. 2 - 1 : q = 2 * p + s /\ q \div 2 = p /\ q % 2 = s
      BY DivMod
    <3>. QED
      BY <3>1
  <2>7. P * s + r \in 0 .. (2 * P) - 1 /\ P * s + r = r + s * P
    BY <2>2
  <2>8. w = (2 * P) * p + (P * s + r)
    BY <2>2, <2>5, <2>6
  <2>9. ((2 * P) * p + (P * s + r)) % (2 * P) = P * s + r
    <3>1. 2 * P \in Nat \ {0} /\ p \in Int
      BY <2>2
    <3>. QED
      BY <2>7, <3>1, QuotRem
  <2>. QED
    BY <2>2, <2>3, <2>4, <2>5, <2>6, <2>7, <2>8, <2>9
<1>6. Nat \subseteq Agree
  <2>. HIDE DEF Agree
  <2>. QED
    BY <1>4, <1>5, SetInduction
<1>7. low[WordBits] = w % WordSpan
  BY <1>1, <1>6, ISAAssumption
<1>8. w % WordSpan = w
  BY <1>1, WordAssumption
<1>. QED
  BY <1>3, <1>7, <1>8 DEF bits

----------------------------------------------------------------------------
(* The fields of a packed word. *)

LEMMA Widths ==
    /\ NReg \in Nat \ {0} /\ ImmSpan \in Nat \ {0}
    /\ NReg * ImmSpan \in Nat \ {0} /\ NReg * (NReg * ImmSpan) \in Nat \ {0}
    /\ NReg * (NReg * (NReg * ImmSpan)) \in Nat \ {0}
  BY ISAAssumption, ProductPositive

LEMMA ImmediateRange == ASSUME NEW q \in Nat PROVE q % ImmSpan \in 0 .. ImmSpan - 1
<1>1. ImmSpan \in Nat \ {0}
  BY Widths
<1>. QED
  BY <1>1, ModRange

\* What is packed can be unpacked.
LEMMA PackFields ==
    ASSUME NEW op \in Nat, NEW a \in Register, NEW b \in Register, NEW c \in Register,
           NEW n \in 0 .. ImmSpan - 1
    PROVE  LET w == Pack(op, a, b, c, n)
           IN  /\ w \in Nat /\ Opcode(w) = op
               /\ Reg1(w) = a /\ Reg2(w) = b /\ Reg3(w) = c /\ Imm(w) = n
<1>. DEFINE x1 == NReg * op + a
            x2 == NReg * x1 + b
            x3 == NReg * x2 + c
            w  == ImmSpan * x3 + n
<1>1. a \in 0 .. NReg - 1 /\ b \in 0 .. NReg - 1 /\ c \in 0 .. NReg - 1
  BY DEF Register
<1>2. x1 \in Nat /\ x1 \div NReg = op /\ x1 % NReg = a
  BY <1>1, Widths, Composed
<1>3. x2 \in Nat /\ x2 \div NReg = x1 /\ x2 % NReg = b
  <2>. HIDE DEF x1
  <2>. QED
    BY <1>1, <1>2, Widths, Composed
<1>4. x3 \in Nat /\ x3 \div NReg = x2 /\ x3 % NReg = c
  <2>. HIDE DEF x2
  <2>. QED
    BY <1>1, <1>3, Widths, Composed
<1>5. w \in Nat /\ w \div ImmSpan = x3 /\ w % ImmSpan = n
  <2>. HIDE DEF x3
  <2>. QED
    BY <1>4, Widths, Composed
<1>6. Pack(op, a, b, c, n) = w
  <2>1. Pack(op, a, b, c, n) = n + ImmSpan * (c + NReg * (b + NReg * (a + NReg * op)))
    BY DEF Pack
  <2>2. a + NReg * op = x1
    BY <1>1, Widths
  <2>3. b + NReg * x1 = x2
    BY <1>1, <1>2, Widths
  <2>4. c + NReg * x2 = x3
    BY <1>1, <1>3, Widths
  <2>5. n + ImmSpan * x3 = w
    BY <1>4, Widths
  <2>. HIDE DEF x1, x2, x3, w
  <2>. QED
    BY <2>1, <2>2, <2>3, <2>4, <2>5
<1>. HIDE DEF x1, x2, x3, w
<1>7. w \div (NReg * ImmSpan) = x2
  BY <1>4, <1>5, Widths, DivDivSwapped
<1>8. w \div (NReg * (NReg * ImmSpan)) = x1
  <2>1. w \div (NReg * (NReg * ImmSpan)) = (w \div (NReg * ImmSpan)) \div NReg
    BY <1>5, Widths, DivDivSwapped
  <2>. QED
    BY <1>3, <1>7, <2>1
<1>9. w \div (NReg * (NReg * (NReg * ImmSpan))) = op
  <2>1. w \div (NReg * (NReg * (NReg * ImmSpan))) = (w \div (NReg * (NReg * ImmSpan))) \div NReg
    BY <1>5, Widths, DivDivSwapped
  <2>. QED
    BY <1>2, <1>8, <2>1
<1>. QED
  BY <1>2, <1>3, <1>4, <1>5, <1>6, <1>7, <1>8, <1>9 DEF Opcode, Reg1, Reg2, Reg3, Imm

\* The word that is packed fits a word.
LEMMA PackWord ==
    ASSUME NEW op \in 0 .. OpSpan - 1, NEW a \in Register, NEW b \in Register,
           NEW c \in Register, NEW n \in 0 .. ImmSpan - 1
    PROVE  Pack(op, a, b, c, n) \in Word
<1>. DEFINE x1 == NReg * op + a
            x2 == NReg * x1 + b
            x3 == NReg * x2 + c
            w  == ImmSpan * x3 + n
<1>1. a \in 0 .. NReg - 1 /\ b \in 0 .. NReg - 1 /\ c \in 0 .. NReg - 1
  BY DEF Register
<1>2. /\ OpSpan \in Nat \ {0} /\ NReg \in Nat \ {0} /\ ImmSpan \in Nat \ {0}
      /\ NReg * OpSpan \in Nat \ {0} /\ NReg * (NReg * OpSpan) \in Nat \ {0}
      /\ NReg * (NReg * (NReg * OpSpan)) \in Nat \ {0}
  BY ISAAssumption, ProductPositive
<1>3. x1 \in 0 .. NReg * OpSpan - 1
  BY <1>1, <1>2, ComposeRange
<1>4. x2 \in 0 .. NReg * (NReg * OpSpan) - 1
  <2>. HIDE DEF x1
  <2>. QED
    BY <1>1, <1>2, <1>3, ComposeRange
<1>5. x3 \in 0 .. NReg * (NReg * (NReg * OpSpan)) - 1
  <2>. HIDE DEF x2
  <2>. QED
    BY <1>1, <1>2, <1>4, ComposeRange
<1>6. w \in 0 .. ImmSpan * (NReg * (NReg * (NReg * OpSpan))) - 1
  <2>. HIDE DEF x3
  <2>. QED
    BY <1>2, <1>5, ComposeRange
<1>7. ImmSpan * (NReg * (NReg * (NReg * OpSpan))) = WordSpan
  <2>1. \A o, r, i \in Nat : i * (r * (r * (r * o))) = o * (r * (r * (r * i)))
    OBVIOUS
  <2>. QED
    BY <2>1, ISAAssumption
<1>8. Pack(op, a, b, c, n) = w
  <2>1. Pack(op, a, b, c, n) = n + ImmSpan * (c + NReg * (b + NReg * (a + NReg * op)))
    BY DEF Pack
  <2>2. a + NReg * op = x1
    BY <1>1, <1>2
  <2>. HIDE DEF x1
  <2>3. b + NReg * x1 = x2
    BY <1>1, <1>2, <1>3
  <2>. HIDE DEF x2
  <2>4. c + NReg * x2 = x3
    BY <1>1, <1>2, <1>4
  <2>. HIDE DEF x3
  <2>5. n + ImmSpan * x3 = w
    BY <1>2, <1>5
  <2>. QED
    BY <2>1, <2>2, <2>3, <2>4, <2>5
<1>. HIDE DEF w
<1>. QED
  BY <1>6, <1>7, <1>8 DEF Word

\* The bits of a word are those of its fields, one field after the other.
LEMMA PackBits ==
    ASSUME NEW i \in Nat, NEW r \in Nat, i + 3 * r <= WordBits, ImmSpan = Power[i], NReg = Power[r],
           NEW op \in Nat, NEW a \in Register, NEW b \in Register, NEW c \in Register,
           NEW n \in 0 .. ImmSpan - 1, NEW k \in 0 .. WordBits - 1
    PROVE  Bit(Pack(op, a, b, c, n), k) =
              IF k < i THEN Bit(n, k)
              ELSE IF k - i < r THEN Bit(c, k - i)
              ELSE IF (k - i) - r < r THEN Bit(b, (k - i) - r)
              ELSE IF ((k - i) - r) - r < r THEN Bit(a, ((k - i) - r) - r)
              ELSE Bit(op, (((k - i) - r) - r) - r)
<1>. DEFINE x1 == a + Power[r] * op
            x2 == b + Power[r] * x1
            x3 == c + Power[r] * x2
            w  == n + Power[i] * x3
<1>1. /\ a \in 0 .. Power[r] - 1 /\ b \in 0 .. Power[r] - 1 /\ c \in 0 .. Power[r] - 1
      /\ n \in 0 .. Power[i] - 1
  BY DEF Register
<1>2. WordBits \in Nat /\ i \in 0 .. WordBits /\ r \in 0 .. WordBits
  BY ISAAssumption
<1>3. Power[i] \in Nat /\ Power[r] \in Nat
  BY <1>2, Powers
<1>4. x1 \in Nat
  BY <1>1, <1>3
<1>5. x2 \in Nat
  <2>. HIDE DEF x1
  <2>. QED
    BY <1>1, <1>3, <1>4
<1>6. x3 \in Nat
  <2>. HIDE DEF x2
  <2>. QED
    BY <1>1, <1>3, <1>5
<1>7. Pack(op, a, b, c, n) = w
  BY DEF Pack
<1>8. k < i => Bit(w, k) = Bit(n, k)
  <2>. HIDE DEF x3
  <2>. QED
    BY <1>1, <1>2, <1>6, LowBits
<1>9. ~(k < i) => Bit(w, k) = Bit(x3, k - i)
  <2>. HIDE DEF x3
  <2>. QED
    BY <1>1, <1>2, <1>6, HighBits
<1>. HIDE DEF w
<1>10. ASSUME NEW j \in 0 .. WordBits - 1
       PROVE  /\ j < r    => Bit(x3, j) = Bit(c, j)
              /\ ~(j < r) => Bit(x3, j) = Bit(x2, j - r)
  <2>. HIDE DEF x2
  <2>. QED
    BY <1>1, <1>2, <1>5, LowBits, HighBits
<1>11. ASSUME NEW j \in 0 .. WordBits - 1
       PROVE  /\ j < r    => Bit(x2, j) = Bit(b, j)
              /\ ~(j < r) => Bit(x2, j) = Bit(x1, j - r)
  <2>. HIDE DEF x1
  <2>. QED
    BY <1>1, <1>2, <1>4, LowBits, HighBits
<1>12. ASSUME NEW j \in 0 .. WordBits - 1
       PROVE  /\ j < r    => Bit(x1, j) = Bit(a, j)
              /\ ~(j < r) => Bit(x1, j) = Bit(op, j - r)
  BY <1>1, <1>2, LowBits, HighBits
<1>. HIDE DEF x1, x2, x3
<1>13. /\ ~(k < i) => k - i \in 0 .. WordBits - 1
       /\ ~(k < i) /\ ~(k - i < r) => (k - i) - r \in 0 .. WordBits - 1
       /\ ~(k < i) /\ ~(k - i < r) /\ ~((k - i) - r < r) =>
             ((k - i) - r) - r \in 0 .. WordBits - 1
  BY <1>2
<1>14. CASE k < i
  BY <1>7, <1>8, <1>14
<1>15. CASE ~(k < i) /\ k - i < r
  BY <1>7, <1>9, <1>10, <1>13, <1>15
<1>16. CASE ~(k < i) /\ ~(k - i < r) /\ (k - i) - r < r
  BY <1>7, <1>9, <1>10, <1>11, <1>13, <1>16
<1>17. CASE ~(k < i) /\ ~(k - i < r) /\ ~((k - i) - r < r)
  BY <1>7, <1>9, <1>10, <1>11, <1>12, <1>13, <1>17
<1>. QED
  BY <1>14, <1>15, <1>16, <1>17

----------------------------------------------------------------------------
(* Arithmetic on words. *)

LEMMA BitwiseWord ==
    ASSUME NEW a \in Word, NEW b \in Word
    PROVE  /\ BitAnd(a, b) \in Word /\ BitOr(a, b) \in Word
           /\ BitXor(a, b) \in Word /\ BitNot(a) \in Word
<1>1. \A k \in 0 .. WordBits - 1 : Bit(a, k) \in {0, 1} /\ Bit(b, k) \in {0, 1}
  <2>1. a \in Nat /\ b \in Nat
    BY WordFacts DEF Word
  <2>. QED
    BY <2>1, BitValue
<1>2. \A x, y \in {0, 1} : x * y \in {0, 1} /\ x + y - x * y \in {0, 1} /\ (x + y) % 2 \in {0, 1}
  OBVIOUS
<1>3. BitAnd(a, b) \in Word
  <2>1. [k \in 0 .. WordBits - 1 |-> Bit(a, k) * Bit(b, k)] \in [0 .. WordBits - 1 -> {0, 1}]
    BY <1>1, <1>2
  <2>. QED
    BY <2>1, FromBitsWord DEF BitAnd, Bitwise2
<1>4. BitOr(a, b) \in Word
  <2>1. [k \in 0 .. WordBits - 1 |-> Bit(a, k) + Bit(b, k) - Bit(a, k) * Bit(b, k)]
           \in [0 .. WordBits - 1 -> {0, 1}]
    BY <1>1, <1>2
  <2>. QED
    BY <2>1, FromBitsWord DEF BitOr, Bitwise2
<1>5. BitXor(a, b) \in Word
  <2>1. [k \in 0 .. WordBits - 1 |-> (Bit(a, k) + Bit(b, k)) % 2] \in [0 .. WordBits - 1 -> {0, 1}]
    BY <1>1, <1>2
  <2>. QED
    BY <2>1, FromBitsWord DEF BitXor, Bitwise2
<1>6. BitNot(a) \in Word
  BY WordFacts DEF BitNot, Word
<1>. QED
  BY <1>3, <1>4, <1>5, <1>6

LEMMA ShiftWord ==
    ASSUME NEW a \in Word, NEW s \in Nat
    PROVE  /\ \A n \in ShiftCounts(s) : n \in Nat
           /\ ShiftLeft(a, s) \in Word /\ ShiftRight(a, s) \in Word
<1>1. WordBits \in Nat \ {0}
  BY ISAAssumption
<1>2. \A n \in ShiftCounts(s) : n \in Nat
  BY <1>1, ModRange DEF ShiftCounts
<1>3. a \in Nat
  BY WordFacts DEF Word
<1>4. CASE s < WordBits
  <2>1. s \in 0 .. WordBits
    BY <1>1, <1>4
  <2>2. Power[s] \in Nat \ {0}
    BY <2>1, Powers
  <2>3. a * Power[s] \in Int
    BY <1>3, <2>2
  <2>. QED
    BY <1>2, <1>4, <2>2, <2>3, WrapWord, DivWord DEF ShiftLeft, ShiftRight
<1>5. CASE ~(s < WordBits)
  BY <1>2, <1>5, WordFacts DEF ShiftLeft, ShiftRight
<1>. QED
  BY <1>4, <1>5
=============================================================================
