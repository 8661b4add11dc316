--------------------------- MODULE DezArithmetic ----------------------------
(***************************************************************************)
(* Facts about numbers that the proofs about words, fields and bytes       *)
(* share: quotients and remainders, the digits of a number, induction on   *)
(* the natural numbers, and that a function defined by recursion exists.   *)
(***************************************************************************)
EXTENDS Integers, WellFoundedInduction, TLAPS

\* A remainder is a digit.
LEMMA ModRange ==
    ASSUME NEW a \in Int, NEW n \in Nat \ {0}
    PROVE  a % n \in 0 .. n - 1
  OBVIOUS

\* A quotient of a natural number is a natural number, and not a larger one.
LEMMA DivNat ==
    ASSUME NEW a \in Nat, NEW n \in Nat \ {0}
    PROVE  a \div n \in Nat /\ a \div n <= a
  OBVIOUS

\* Field widths multiply to field widths.
LEMMA ProductPositive ==
    ASSUME NEW a \in Nat \ {0}, NEW b \in Nat \ {0}
    PROVE  a * b \in Nat \ {0}
  OBVIOUS

\* A number is its quotient and its remainder.
LEMMA DivMod ==
    ASSUME NEW a \in Nat, NEW n \in Nat \ {0}
    PROVE  \E q \in Nat, r \in 0 .. n - 1 : a = n * q + r /\ a \div n = q /\ a % n = r
<1>1. a \div n \in Nat /\ a % n \in 0 .. n - 1
  OBVIOUS
<1>2. a = n * (a \div n) + (a % n)
  OBVIOUS
<1>. QED
  BY <1>1, <1>2

\* Quotient and remainder of a number composed of them.
LEMMA QuotRem ==
    ASSUME NEW n \in Nat \ {0}, NEW q \in Int, NEW r \in 0 .. n - 1
    PROVE  (n * q + r) \div n = q /\ (n * q + r) % n = r
  OBVIOUS

LEMMA Composed ==
    ASSUME NEW n \in Nat \ {0}, NEW q \in Nat, NEW r \in 0 .. n - 1
    PROVE  n * q + r \in Nat /\ (n * q + r) \div n = q /\ (n * q + r) % n = r
  BY QuotRem

\* Multiplication keeps the order.
LEMMA ProductOrder ==
    ASSUME NEW n \in Nat, NEW a \in Int, NEW b \in Int, a <= b
    PROVE  n * a <= n * b
  OBVIOUS

\* A digit before a number below m gives a number below n * m.
LEMMA ComposeRange ==
    ASSUME NEW n \in Nat \ {0}, NEW m \in Nat, NEW q \in 0 .. m - 1, NEW r \in 0 .. n - 1
    PROVE  n * q + r \in 0 .. n * m - 1
<1>1. n * (q + 1) <= n * m
  BY ProductOrder
<1>2. n * (q + 1) = n * q + n
  OBVIOUS
<1>3. n * q \in Nat /\ n * m \in Nat
  OBVIOUS
<1>. QED
  BY <1>1, <1>2, <1>3

\* The quotient of a number below n * m is below m.
LEMMA DivRange ==
    ASSUME NEW n \in Nat \ {0}, NEW m \in Nat, NEW a \in 0 .. n * m - 1
    PROVE  a \div n \in 0 .. m - 1
<1>1. PICK q \in Nat, r \in 0 .. n - 1 : a = n * q + r /\ a \div n = q
  BY DivMod
<1>2. SUFFICES ASSUME m <= q PROVE FALSE
  BY <1>1
<1>3. n * m <= n * q
  BY <1>1, <1>2, ProductOrder
<1>. QED
  BY <1>1, <1>3

\* Dividing by a product is dividing twice.
LEMMA DivDiv ==
    ASSUME NEW a \in Nat, NEW m \in Nat \ {0}, NEW n \in Nat \ {0}
    PROVE  a \div (n * m) = (a \div n) \div m
<1>1. PICK q \in Nat, r \in 0 .. n - 1 : a = n * q + r /\ a \div n = q
  BY DivMod
<1>2. PICK p \in Nat, s \in 0 .. m - 1 : q = m * p + s /\ q \div m = p
  BY DivMod
<1>3. n * s + r \in 0 .. n * m - 1 /\ n * m \in Nat \ {0}
  BY ComposeRange, ProductPositive
<1>4. n * (m * p + s) = (n * m) * p + n * s
  OBVIOUS
<1>5. a = (n * m) * p + (n * s + r)
  BY <1>1, <1>2, <1>4
<1>6. ((n * m) * p + (n * s + r)) \div (n * m) = p
  BY <1>3, QuotRem
<1>. QED
  BY <1>1, <1>2, <1>5, <1>6

\* Dividing by the product the other way round.
LEMMA DivDivSwapped ==
    ASSUME NEW a \in Nat, NEW m \in Nat \ {0}, NEW n \in Nat \ {0}
    PROVE  a \div (m * n) = (a \div n) \div m
<1>1. n * m = m * n
  OBVIOUS
<1>2. a \div (n * m) = (a \div n) \div m
  BY DivDiv
<1>. QED
  BY <1>1, <1>2, Zenon

----------------------------------------------------------------------------
(* The least number principle, for sets, and what follows from it. *)

LEMMA LeastElement ==
    ASSUME NEW S \in SUBSET Nat, S # {}
    PROVE  \E x \in S : \A y \in S : x <= y
<1>. DEFINE R == OpToRel(<, Nat)
<1>1. IsWellFoundedOn(R, Nat)
  BY NatLessThanWellFounded
<1>2. \A a, b \in Nat : a < b => <<a, b>> \in R
  BY DEF OpToRel
<1>. HIDE DEF R
<1>3. PICK x \in S : \A y \in S : ~(<<y, x>> \in R)
  BY <1>1, WFMin
<1>4. \A y \in S : ~(y < x)
  BY <1>2, <1>3
<1>. QED
  BY <1>4

LEMMA GreatestElement ==
    ASSUME NEW n \in Nat, NEW S \in SUBSET (0 .. n), S # {}
    PROVE  \E x \in S : \A y \in S : y <= x
<1>. DEFINE U == {m \in Nat : n - m \in S}
<1>1. \A y \in S : n - y \in Nat /\ n - (n - y) = y
  OBVIOUS
<1>2. U \in SUBSET Nat /\ U # {}
  BY <1>1
<1>3. PICK u \in U : \A v \in U : u <= v
  BY <1>2, LeastElement
<1>4. n - u \in S /\ u \in Nat
  OBVIOUS
<1>5. \A y \in S : n - y \in U
  BY <1>1
<1>. HIDE DEF U
<1>6. \A y \in S : y <= n - u
  BY <1>3, <1>4, <1>5
<1>. QED
  BY <1>4, <1>6

\* Induction, for a set: the theorems of the library take a predicate.
LEMMA SetInduction ==
    ASSUME NEW S, 0 \in S, \A n \in Nat : n \in S => n + 1 \in S
    PROVE  Nat \subseteq S
<1>. SUFFICES ASSUME Nat \ S # {} PROVE FALSE
  OBVIOUS
<1>1. PICK x \in Nat \ S : \A y \in Nat \ S : x <= y
  BY LeastElement
<1>2. x - 1 \in Nat /\ x - 1 \in S
  BY <1>1
<1>. QED
  BY <1>1, <1>2

\* f starts with x, and h makes each of its n other values of the one before.
Recursion(f, x, h, n) == f[0] = x /\ \A k \in 1 .. n : f[k] = h[k][f[k - 1]]

\* A recursion over numbers has a solution.
LEMMA RecursionExists ==
    ASSUME NEW S, NEW m \in Nat, NEW x \in S, NEW h \in [1 .. m -> [S -> S]]
    PROVE  \E f \in [0 .. m -> S] : Recursion(f, x, h, m)
<1>. USE DEF Recursion
<1>. DEFINE Solves(f, n) == Recursion(f, x, h, n)
            Solved == {n \in Nat : n <= m => \E f \in [0 .. n -> S] : Solves(f, n)}
<1>1. 0 \in Solved
  <2>1. [k \in 0 .. 0 |-> x] \in [0 .. 0 -> S] /\ Solves([k \in 0 .. 0 |-> x], 0)
    OBVIOUS
  <2>. QED
    BY <2>1
<1>2. ASSUME NEW n \in Nat, n \in Solved PROVE n + 1 \in Solved
  <2>. SUFFICES ASSUME n + 1 <= m PROVE \E g \in [0 .. n + 1 -> S] : Solves(g, n + 1)
    OBVIOUS
  <2>1. PICK f \in [0 .. n -> S] : Solves(f, n)
    BY <1>2
  <2>2. n + 1 \in 1 .. m /\ n \in 0 .. n
    OBVIOUS
  <2>3. h[n + 1][f[n]] \in S
    BY <2>1, <2>2
  <2>. DEFINE g == [k \in 0 .. n + 1 |-> IF k = n + 1 THEN h[n + 1][f[n]] ELSE f[k]]
  <2>4. g \in [0 .. n + 1 -> S]
    BY <2>3
  <2>5. g[n + 1] = h[n + 1][f[n]] /\ \A k \in 0 .. n : g[k] = f[k]
    OBVIOUS
  <2>. HIDE DEF g
  <2>6. \A k \in 1 .. n : g[k] = h[k][g[k - 1]]
    <3>1. \A k \in 1 .. n : k \in 0 .. n /\ k - 1 \in 0 .. n
      OBVIOUS
    <3>. QED
      BY <2>1, <2>5, <3>1
  <2>7. g[n + 1] = h[n + 1][g[n + 1 - 1]]
    BY <2>2, <2>5
  <2>8. Solves(g, n + 1)
    <3>1. \A k \in 1 .. n + 1 : k \in 1 .. n \/ k = n + 1
      OBVIOUS
    <3>2. g[0] = x
      BY <2>1, <2>5
    <3>. QED
      BY <2>6, <2>7, <3>1, <3>2
  <2>. QED
    BY <2>4, <2>8
<1>3. Nat \subseteq Solved
  <2>. HIDE DEF Solved
  <2>. QED
    BY <1>1, <1>2, SetInduction
<1>. QED
  BY <1>3
\* A recursion that goes up, from every position to a later one, has a
\* solution: base where it stops, and else what step makes of the value at
\* the next position.
Ascends(f, n, stops, base, next, step) ==
    \A p \in 0 .. n : f[p] = IF p \in stops THEN base[p] ELSE step[p][f[next[p]]]

LEMMA AscentExists ==
    ASSUME NEW S, NEW n \in Nat, NEW stops, NEW base \in [0 .. n -> S],
           NEW next \in [0 .. n -> 0 .. n], NEW step \in [0 .. n -> [S -> S]],
           \A p \in 0 .. n : p \notin stops => next[p] > p
    PROVE  \E f \in [0 .. n -> S] : Ascends(f, n, stops, base, next, step)
<1>. DEFINE Value(f, p) == IF p \in stops THEN base[p] ELSE step[p][f[next[p]]]
            Solves(f, k) == \A p \in 0 .. n : p >= n - k => f[p] = Value(f, p)
            Solved == {k \in Nat : k <= n => \E f \in [0 .. n -> S] : Solves(f, k)}
<1>1. \A p \in 0 .. n : \A f \in [0 .. n -> S] : Value(f, p) \in S
  OBVIOUS
<1>2. 0 \in Solved
  <2>1. n \in 0 .. n /\ n \in stops
    <3>1. next[n] \in 0 .. n
      OBVIOUS
    <3>. QED
      BY <3>1
  <2>2. Solves(base, 0)
    <3>1. \A p \in 0 .. n : p >= n - 0 => p = n
      OBVIOUS
    <3>. QED
      BY <2>1, <3>1
  <2>. HIDE DEF Solves
  <2>. QED
    BY <2>2
<1>3. ASSUME NEW k \in Nat, k \in Solved PROVE k + 1 \in Solved
  <2>. SUFFICES ASSUME k + 1 <= n PROVE \E g \in [0 .. n -> S] : Solves(g, k + 1)
    <3>. HIDE DEF Solves
    <3>. QED
      OBVIOUS
  <2>1. PICK f \in [0 .. n -> S] : Solves(f, k)
    <3>. HIDE DEF Solves
    <3>. QED
      BY <1>3
  <2>. DEFINE m == n - (k + 1)
              v == Value(f, m)
              g == [f EXCEPT ![m] = v]
  <2>2. m \in 0 .. n /\ v \in S
    BY <1>1
  <2>. HIDE DEF v
  <2>3. g \in [0 .. n -> S] /\ g[m] = v /\ \A p \in 0 .. n : p # m => g[p] = f[p]
    BY <2>2
  <2>. HIDE DEF g
  <2>4. ASSUME NEW p \in 0 .. n, p >= m PROVE Value(g, p) = Value(f, p)
    <3>1. p \notin stops => next[p] \in 0 .. n /\ next[p] # m
      BY <2>2, <2>4
    <3>. QED
      BY <2>3, <3>1
  <2>5. ASSUME NEW p \in 0 .. n, p >= m PROVE g[p] = Value(g, p)
    <3>1. CASE p = m
      BY <2>2, <2>3, <2>4, <3>1 DEF v
    <3>2. CASE p # m
      <4>1. p >= n - k
        BY <2>2, <2>5, <3>2
      <4>2. f[p] = Value(f, p)
        BY <2>1, <4>1
      <4>. HIDE DEF Value
      <4>. QED
        BY <2>3, <2>4, <2>5, <3>2, <4>2
    <3>. QED
      BY <3>1, <3>2
  <2>. HIDE DEF Value
  <2>6. Solves(g, k + 1)
    BY <2>5
  <2>. QED
    BY <2>3, <2>6
<1>4. n \in Solved
  <2>. HIDE DEF Solved
  <2>. QED
    BY <1>2, <1>3, SetInduction
<1>5. PICK f \in [0 .. n -> S] : Solves(f, n)
  <2>. HIDE DEF Solves
  <2>. QED
    BY <1>4
<1>6. \A p \in 0 .. n : f[p] = Value(f, p)
  <2>1. \A p \in 0 .. n : p >= n - n
    OBVIOUS
  <2>. HIDE DEF Value
  <2>. QED
    BY <1>5, <2>1
<1>7. Ascends(f, n, stops, base, next, step)
  BY <1>6 DEF Ascends
<1>. HIDE DEF Solves
<1>. QED
  BY <1>7
\* Induction along such a recursion.
LEMMA Ascent ==
    ASSUME NEW n \in Nat, NEW S,
           \A p \in 0 .. n : (\A q \in 0 .. n : q > p => q \in S) => p \in S
    PROVE  0 .. n \subseteq S
<1>. DEFINE B == {p \in 0 .. n : p \notin S}
<1>. SUFFICES ASSUME B # {} PROVE FALSE
  OBVIOUS
<1>1. PICK p \in B : \A q \in B : q <= p
  <2>1. B \in SUBSET (0 .. n)
    OBVIOUS
  <2>. HIDE DEF B
  <2>. QED
    BY <2>1, GreatestElement
<1>2. p \in 0 .. n /\ p \notin S
  BY <1>1
<1>3. \A q \in 0 .. n : q > p => q \in S
  BY <1>1, <1>2
<1>. QED
  BY <1>2, <1>3
=============================================================================
