-------------------------- MODULE DezMemoryProofs ---------------------------
(***************************************************************************)
(* Proofs about memory for every memory layout and every width of a byte:  *)
(* a word is four bytes, and a byte write exchanges one of them; and what  *)
(* that means for a host that writes words and bytes (DezMemoryAPI).       *)
(***************************************************************************)
EXTENDS DezMemoryAPI, DezArithmetic


\* The four bytes of a word, by their offset in it.
Bytes == [0 .. 3 -> Byte]

\* The word made of them, the first the most significant.
Compose(a, b, c, d) == ByteSpan * (ByteSpan * (ByteSpan * a + b) + c) + d

WordOf(d) == Compose(d[0], d[1], d[2], d[3])

\* The offset of a byte in its word.
LEMMA ByteOffset ==
    ASSUME NEW b \in Nat
    PROVE  b % 4 \in {0, 1, 2, 3}
  OBVIOUS

\* One, two, three and four bytes hold something, four of them a word.
LEMMA ByteWidths ==
    /\ ByteSpan \in Nat \ {0}
    /\ ByteSpan * ByteSpan \in Nat \ {0}
    /\ ByteSpan * (ByteSpan * ByteSpan) \in Nat \ {0}
    /\ ByteSpan * (ByteSpan * (ByteSpan * ByteSpan)) \in Nat \ {0}
    /\ Word = 0 .. ByteSpan * (ByteSpan * (ByteSpan * ByteSpan)) - 1
  BY ByteAssumption, ProductPositive DEF Word

\* The weight of a byte, by its offset.
LEMMA Weights ==
    ASSUME NEW b \in Nat
    PROVE  /\ b % 4 = 0 => Weight(b) = ByteSpan * (ByteSpan * ByteSpan)
           /\ b % 4 = 1 => Weight(b) = ByteSpan * ByteSpan
           /\ b % 4 = 2 => Weight(b) = ByteSpan
           /\ b % 4 = 3 => Weight(b) = 1
  BY DEF Weight

\* Composing the bytes and taking one out again.
LEMMA ByteOfWord ==
    ASSUME NEW d \in Bytes, NEW b \in Nat
    PROVE  WordOf(d) \in Word /\ ByteOf(WordOf(d), b) = d[b % 4]
<1>. DEFINE B == ByteSpan
            x == B * d[0] + d[1]
            y == B * x + d[2]
            w == B * y + d[3]
<1>1. B \in Nat \ {0} /\ B * B \in Nat \ {0} /\ B * (B * B) \in Nat \ {0}
  BY ByteWidths
<1>2. d[0] \in 0 .. B - 1 /\ d[1] \in 0 .. B - 1 /\ d[2] \in 0 .. B - 1 /\ d[3] \in 0 .. B - 1
  BY DEF Bytes, Byte
<1>. HIDE DEF B
<1>3. x \in 0 .. B * B - 1
  BY <1>1, <1>2, ComposeRange
<1>. HIDE DEF x
<1>4. y \in 0 .. B * (B * B) - 1
  BY <1>1, <1>2, <1>3, ComposeRange
<1>. HIDE DEF y
<1>5. w \in 0 .. B * (B * (B * B)) - 1
  BY <1>1, <1>2, <1>4, ComposeRange
<1>. HIDE DEF w
<1>6. WordOf(d) = w
  BY DEF WordOf, Compose, w, y, x, B
<1>7. WordOf(d) \in Word
  BY <1>5, <1>6, ByteWidths DEF B
<1>8. x \in Nat /\ y \in Nat /\ w \in Nat /\ x \in Int /\ y \in Int /\ d[0] \in Int
  BY <1>1, <1>2, <1>3, <1>4, <1>5
<1>9. w \div B = y /\ w % B = d[3]
  <2>1. (B * y + d[3]) \div B = y /\ (B * y + d[3]) % B = d[3]
    BY <1>1, <1>2, <1>8, QuotRem
  <2>. QED
    BY <2>1 DEF w
<1>10. y \div B = x /\ y % B = d[2]
  <2>1. (B * x + d[2]) \div B = x /\ (B * x + d[2]) % B = d[2]
    BY <1>1, <1>2, <1>8, QuotRem
  <2>. QED
    BY <2>1 DEF y
<1>11. x \div B = d[0] /\ x % B = d[1]
  <2>1. (B * d[0] + d[1]) \div B = d[0] /\ (B * d[0] + d[1]) % B = d[1]
    BY <1>1, <1>2, <1>8, QuotRem
  <2>. QED
    BY <2>1 DEF x
<1>12. w \div (B * B) = x
  BY <1>1, <1>8, <1>9, <1>10, DivDiv
<1>13. w \div (B * (B * B)) = d[0]
  <2>1. w \div (B * (B * B)) = (w \div B) \div (B * B)
    BY <1>1, <1>8, DivDiv
  <2>2. y \div (B * B) = (y \div B) \div B
    BY <1>1, <1>8, DivDiv
  <2>. QED
    BY <2>1, <2>2, <1>9, <1>10, <1>11
<1>14. d[0] % B = d[0] /\ w \div 1 = w
  BY <1>1, <1>2, <1>8
<1>15. ByteOf(w, b) = d[b % 4]
  BY <1>9, <1>10, <1>11, <1>12, <1>13, <1>14, ByteOffset, Weights DEF ByteOf, B
<1>. QED
  BY <1>6, <1>7, <1>15

\* Every word is made of four bytes.
LEMMA WordHasBytes ==
    ASSUME NEW w \in Word
    PROVE  \E d \in Bytes : w = WordOf(d)
<1>. DEFINE B == ByteSpan
<1>1. B \in Nat \ {0} /\ B * B \in Nat \ {0} /\ B * (B * B) \in Nat \ {0}
  BY ByteWidths
<1>2. w \in 0 .. B * (B * (B * B)) - 1 /\ w \in Nat
  BY ByteWidths
<1>. HIDE DEF B
<1>3. PICK y \in Nat, d3 \in 0 .. B - 1 : w = B * y + d3 /\ w \div B = y
  BY <1>1, <1>2, DivMod
<1>4. y \in 0 .. B * (B * B) - 1
  BY <1>1, <1>2, <1>3, DivRange
<1>5. PICK x \in Nat, d2 \in 0 .. B - 1 : y = B * x + d2 /\ y \div B = x
  BY <1>1, DivMod
<1>6. x \in 0 .. B * B - 1
  BY <1>1, <1>4, <1>5, DivRange
<1>7. PICK d0 \in Nat, d1 \in 0 .. B - 1 : x = B * d0 + d1 /\ x \div B = d0
  BY <1>1, DivMod
<1>8. d0 \in 0 .. B - 1
  BY <1>1, <1>6, <1>7, DivRange
<1>. DEFINE d == [k \in 0 .. 3 |->
                    CASE k = 0 -> d0 [] k = 1 -> d1 [] k = 2 -> d2 [] k = 3 -> d3]
<1>9. d[0] = d0 /\ d[1] = d1 /\ d[2] = d2 /\ d[3] = d3
  OBVIOUS
<1>10. d \in Bytes
  BY <1>8 DEF Bytes, Byte, B
<1>11. w = WordOf(d)
  BY <1>3, <1>5, <1>7, <1>9 DEF WordOf, Compose, B
<1>. QED
  BY <1>10, <1>11

\* Taking a byte off a word and putting another one there.
LEMMA Exchange ==
    ASSUME NEW a \in Nat, NEW b \in Nat, NEW c \in Nat, NEW d \in Nat, NEW v \in Nat
    PROVE  /\ Compose(v, b, c, d)
                = Compose(a, b, c, d) - a * (ByteSpan * (ByteSpan * ByteSpan))
                                      + v * (ByteSpan * (ByteSpan * ByteSpan))
           /\ Compose(a, v, c, d)
                = Compose(a, b, c, d) - b * (ByteSpan * ByteSpan) + v * (ByteSpan * ByteSpan)
           /\ Compose(a, b, v, d) = Compose(a, b, c, d) - c * ByteSpan + v * ByteSpan
           /\ Compose(a, b, c, v) = Compose(a, b, c, d) - d * 1 + v * 1
  BY ByteWidths DEF Compose

\* The read, update and write of a word exchange one byte of it and carry
\* nothing into the others or out of the word.
LEMMA ReplacedByte ==
    ASSUME NEW w \in Word, NEW b \in Nat, NEW v \in Byte
    PROVE  /\ ReplaceByte(w, b, v) \in Word
           /\ \A c \in Nat :
                 ByteOf(ReplaceByte(w, b, v), c) = IF c % 4 = b % 4 THEN v ELSE ByteOf(w, c)
<1>1. PICK d \in Bytes : w = WordOf(d)
  BY WordHasBytes
<1>. DEFINE e == [d EXCEPT ![b % 4] = v]
<1>2. e \in Bytes /\ b % 4 \in 0 .. 3
  BY ByteOffset DEF Bytes
<1>3. ReplaceByte(w, b, v) = WordOf(e)
  <2>1. ByteOf(w, b) = d[b % 4]
    BY <1>1, ByteOfWord
  <2>2. /\ v \in Nat
        /\ d[0] \in Nat /\ d[1] \in Nat /\ d[2] \in Nat /\ d[3] \in Nat
    BY ByteWidths DEF Bytes, Byte
  <2>3. ReplaceByte(w, b, v) = WordOf(d) - d[b % 4] * Weight(b) + v * Weight(b)
    BY <1>1, <2>1 DEF ReplaceByte
  <2>4. /\ Compose(v, d[1], d[2], d[3])
             = WordOf(d) - d[0] * (ByteSpan * (ByteSpan * ByteSpan))
                         + v * (ByteSpan * (ByteSpan * ByteSpan))
        /\ Compose(d[0], v, d[2], d[3])
             = WordOf(d) - d[1] * (ByteSpan * ByteSpan) + v * (ByteSpan * ByteSpan)
        /\ Compose(d[0], d[1], v, d[3]) = WordOf(d) - d[2] * ByteSpan + v * ByteSpan
        /\ Compose(d[0], d[1], d[2], v) = WordOf(d) - d[3] * 1 + v * 1
    <3>. DEFINE x == d[0] y == d[1] z == d[2] t == d[3]
    <3>1. x \in Nat /\ y \in Nat /\ z \in Nat /\ t \in Nat /\ WordOf(d) = Compose(x, y, z, t)
      BY <2>2 DEF WordOf
    <3>. HIDE DEF x, y, z, t
    <3>2. /\ Compose(v, y, z, t)
               = Compose(x, y, z, t) - x * (ByteSpan * (ByteSpan * ByteSpan))
                                     + v * (ByteSpan * (ByteSpan * ByteSpan))
          /\ Compose(x, v, z, t)
               = Compose(x, y, z, t) - y * (ByteSpan * ByteSpan) + v * (ByteSpan * ByteSpan)
          /\ Compose(x, y, v, t) = Compose(x, y, z, t) - z * ByteSpan + v * ByteSpan
          /\ Compose(x, y, z, v) = Compose(x, y, z, t) - t * 1 + v * 1
      BY <2>2, <3>1, Exchange
    <3>. QED
      BY <3>1, <3>2 DEF x, y, z, t
  <2>5. CASE b % 4 = 0
    <3>1. e[0] = v /\ e[1] = d[1] /\ e[2] = d[2] /\ e[3] = d[3]
      BY <2>5 DEF Bytes
    <3>2. Weight(b) = ByteSpan * (ByteSpan * ByteSpan)
      BY <2>5, Weights
    <3>. QED
      BY <2>3, <2>4, <2>5, <3>1, <3>2 DEF WordOf
  <2>6. CASE b % 4 = 1
    <3>1. e[0] = d[0] /\ e[1] = v /\ e[2] = d[2] /\ e[3] = d[3]
      BY <2>6 DEF Bytes
    <3>2. Weight(b) = ByteSpan * ByteSpan
      BY <2>6, Weights
    <3>. QED
      BY <2>3, <2>4, <2>6, <3>1, <3>2 DEF WordOf
  <2>7. CASE b % 4 = 2
    <3>1. e[0] = d[0] /\ e[1] = d[1] /\ e[2] = v /\ e[3] = d[3]
      BY <2>7 DEF Bytes
    <3>2. Weight(b) = ByteSpan
      BY <2>7, Weights
    <3>. QED
      BY <2>3, <2>4, <2>7, <3>1, <3>2 DEF WordOf
  <2>8. CASE b % 4 = 3
    <3>1. e[0] = d[0] /\ e[1] = d[1] /\ e[2] = d[2] /\ e[3] = v
      BY <2>8 DEF Bytes
    <3>2. Weight(b) = 1
      BY <2>8, Weights
    <3>. QED
      BY <2>3, <2>4, <2>8, <3>1, <3>2 DEF WordOf
  <2>. QED
    BY <2>5, <2>6, <2>7, <2>8, ByteOffset
<1>4. ASSUME NEW c \in Nat
      PROVE  ByteOf(WordOf(e), c) = IF c % 4 = b % 4 THEN v ELSE ByteOf(w, c)
  <2>1. ByteOf(WordOf(e), c) = e[c % 4] /\ ByteOf(w, c) = d[c % 4]
    <3>. HIDE DEF e
    <3>. QED
      BY <1>1, <1>2, ByteOfWord
  <2>2. e[c % 4] = IF c % 4 = b % 4 THEN v ELSE d[c % 4]
    BY ByteOffset DEF Bytes
  <2>. QED
    BY <2>1, <2>2
<1>5. WordOf(e) \in Word
  <2>. HIDE DEF e
  <2>. QED
    BY <1>2, ByteOfWord
<1>. QED
  BY <1>3, <1>4, <1>5

----------------------------------------------------------------------------
(* Byte access to memory. *)

\* A byte is found by its word and its offset.
LEMMA ByteAddresses ==
    ASSUME NEW b \in Nat
    PROVE  /\ b \in ByteAddress <=> WordAddress(b) \in Address
           /\ \A c \in Nat : WordAddress(c) = WordAddress(b) /\ c % 4 = b % 4 => c = b
<1>1. b = 4 * (b \div 4) + (b % 4) /\ b \div 4 \in Nat /\ b % 4 \in 0 .. 3
  OBVIOUS
<1>2. MemWords \in Nat
  BY MemoryAssumption
<1>3. ASSUME NEW c \in Nat, c \div 4 = b \div 4, c % 4 = b % 4
      PROVE  c = b
  BY <1>3
<1>. QED
  BY <1>1, <1>2, <1>3 DEF ByteAddress, WordAddress, Address

\* memory_write_byte leaves a memory of words in which one byte at most, the
\* one named, has changed.
LEMMA WrittenByte ==
    ASSUME mem \in [Address -> Word], NEW b \in Nat, NEW v \in Byte, WriteByte(b, v)
    PROVE  /\ mem' \in [Address -> Word]
           /\ \A a \in Address : a # WordAddress(b) \/ ~ByteWriteAccepted(b) => mem'[a] = mem[a]
           /\ \A c \in ByteAddress :
                 ReadByte(c)' = IF c = b /\ ByteWriteAccepted(b) THEN v ELSE ReadByte(c)
<1>1. CASE ~ByteWriteAccepted(b)
  BY <1>1 DEF WriteByte, ReadByte
<1>2. CASE ByteWriteAccepted(b)
  <2>. DEFINE a == WordAddress(b)
  <2>1. a \in Address /\ mem[a] \in Word
    BY <1>2 DEF ByteWriteAccepted
  <2>2. mem' = [mem EXCEPT ![a] = ReplaceByte(mem[a], b, v)]
    BY <1>2 DEF WriteByte
  <2>3. ReplaceByte(mem[a], b, v) \in Word
    BY <2>1, ReplacedByte
  <2>4. ASSUME NEW c \in ByteAddress
        PROVE  ReadByte(c)' = IF c = b THEN v ELSE ReadByte(c)
    <3>1. c \in Nat /\ WordAddress(c) \in Address
      <4>1. c \in Nat
        BY MemoryAssumption DEF ByteAddress
      <4>. QED
        BY <4>1, ByteAddresses
    <3>2. ReadByte(c) = ByteOf(mem[WordAddress(c)], c)
      BY <3>1 DEF ReadByte
    <3>3. ReadByte(c)' = ByteOf(mem'[WordAddress(c)], c)
      BY <3>1 DEF ReadByte
    <3>4. CASE WordAddress(c) # a
      <4>1. mem'[WordAddress(c)] = mem[WordAddress(c)]
        BY <2>2, <3>1, <3>4
      <4>. QED
        BY <3>2, <3>3, <3>4, <4>1
    <3>5. CASE WordAddress(c) = a
      <4>1. mem'[WordAddress(c)] = ReplaceByte(mem[a], b, v)
        BY <2>1, <2>2, <3>5
      <4>2. ByteOf(ReplaceByte(mem[a], b, v), c)
              = IF c % 4 = b % 4 THEN v ELSE ByteOf(mem[a], c)
        BY <2>1, <3>1, ReplacedByte
      <4>3. c % 4 = b % 4 <=> c = b
        BY <3>1, <3>5, ByteAddresses
      <4>. QED
        BY <3>2, <3>3, <3>5, <4>1, <4>2, <4>3
    <3>. QED
      BY <3>4, <3>5
  <2>. HIDE DEF a
  <2>5. mem' \in [Address -> Word]
    BY <2>1, <2>2, <2>3
  <2>6. \A x \in Address : x # a => mem'[x] = mem[x]
    BY <2>1, <2>2
  <2>. QED
    BY <1>2, <2>4, <2>5, <2>6 DEF a
<1>. QED
  BY <1>1, <1>2

\* An accepted write of memory_write_word sets the four bytes of its word.
LEMMA WrittenWord ==
    ASSUME mem \in [Address -> Word], NEW a, NEW v, WriteAccepted(a), WriteWord(a, v),
           NEW c \in ByteAddress
    PROVE  ReadByte(c)' = IF WordAddress(c) = a THEN ByteOf(v, c) ELSE ReadByte(c)
<1>1. c \in Nat
  BY MemoryAssumption DEF ByteAddress
<1>2. a \in Address /\ WordAddress(c) \in Address
  BY <1>1, ByteAddresses DEF WriteAccepted
<1>3. ReadByte(c) = ByteOf(mem[WordAddress(c)], c) /\ ReadByte(c)' = ByteOf(mem'[WordAddress(c)], c)
  BY <1>2 DEF ReadByte
<1>4. mem' = [mem EXCEPT ![a] = v]
  BY DEF WriteWord
<1>. QED
  BY <1>2, <1>3, <1>4

\* Cleared memory reads as zero bytes.
LEMMA ZeroByte ==
    ASSUME NEW b \in Nat
    PROVE  ByteOf(0, b) = 0
<1>1. Weight(b) \in Nat \ {0}
  BY ByteOffset, ByteWidths, Weights
<1>2. ByteSpan \in Nat \ {0}
  BY ByteWidths
<1>3. 0 \div Weight(b) = 0
  BY <1>1
<1>4. 0 % ByteSpan = 0
  BY <1>2
<1>. QED
  BY <1>3, <1>4 DEF ByteOf
----------------------------------------------------------------------------
(* A host of the memory module. *)


\* memory_set_protection leaves three flags.
LEMMA ProtectionsKept ==
    ASSUME protection \in Protections, NEW segment \in Segments, NEW readonly \in BOOLEAN,
           SetProtection(segment, readonly)
    PROVE  protection' \in Protections
  BY DEF Protections, SetProtection, Segments

LEMMA NextMemoryTypeOK == MemoryTypeOK /\ [MemoryNext]_memoryVars => MemoryTypeOK'
<1>. SUFFICES ASSUME MemoryTypeOK, [MemoryNext]_memoryVars PROVE MemoryTypeOK'
  OBVIOUS
<1>1. ASSUME NEW segment \in Segments, NEW readonly \in BOOLEAN,
             HostSetsProtection(segment, readonly)
      PROVE  MemoryTypeOK'
  BY <1>1, ProtectionsKept DEF HostSetsProtection, MemoryTypeOK
<1>2. ASSUME NEW a \in 0 .. MemWords, NEW v \in HostWords, HostWritesWord(a, v)
      PROVE  MemoryTypeOK'
  <2>1. v \in Word
    BY HostWordsAssumption
  <2>2. mem' \in [Address -> Word]
    BY <1>2, <2>1 DEF HostWritesWord, WriteWord, WriteAccepted, MemoryTypeOK
  <2>. QED
    BY <1>2, <2>2 DEF HostWritesWord, MemoryTypeOK
<1>3. ASSUME NEW b \in 0 .. 4 * MemWords, NEW v \in Byte, HostWritesByte(b, v)
      PROVE  MemoryTypeOK'
  <2>1. b \in Nat
    BY MemoryAssumption
  <2>2. mem' \in [Address -> Word]
    BY <1>3, <2>1, WrittenByte DEF HostWritesByte, MemoryTypeOK
  <2>. QED
    BY <1>3, <2>2 DEF HostWritesByte, MemoryTypeOK
<1>4. CASE UNCHANGED memoryVars
  BY <1>4 DEF memoryVars, MemoryTypeOK
<1>. QED
  BY <1>1, <1>2, <1>3, <1>4 DEF MemoryNext

\* A byte write of memory_write_byte never makes a word out of range: no
\* carry leaves the byte, whatever the old word and the new byte.
THEOREM MemoryTypeCorrect == MemorySpec => []MemoryTypeOK
<1>1. MemoryInit => MemoryTypeOK
  BY MemoryAssumption, WordAssumption
     DEF MemoryInit, MemoryTypeOK, ClearedMemory, PowerOnProtection, Protections, Word
<1>. QED
  BY <1>1, NextMemoryTypeOK, PTL DEF MemorySpec

\* While the code segment is read-only, no call of the word or byte
\* interface changes a word of it.
THEOREM CodeFrozen == MemorySpec => ReadOnlyCodeFrozen
<1>1. ASSUME MemoryTypeOK, [MemoryNext]_memoryVars, protection.code_readonly, NEW a \in CodeSegment
      PROVE  mem'[a] = mem[a]
  <2>1. ASSUME NEW x \in 0 .. MemWords, NEW v \in HostWords, HostWritesWord(x, v)
        PROVE  mem'[a] = mem[a]
    BY <1>1, <2>1 DEF HostWritesWord, WriteWord, WriteAccepted, MemoryTypeOK
  <2>2. ASSUME NEW b \in 0 .. 4 * MemWords, NEW v \in Byte, HostWritesByte(b, v)
        PROVE  mem'[a] = mem[a]
    BY <1>1, <2>2 DEF HostWritesByte, WriteByte, ByteWriteAccepted, MemoryTypeOK
  <2>3. CASE UNCHANGED mem
    BY <2>3
  <2>. QED
    BY <1>1, <2>1, <2>2, <2>3 DEF MemoryNext, HostSetsProtection, memoryVars
<1>2. MemoryTypeOK /\ [MemoryNext]_memoryVars =>
        [protection.code_readonly => \A a \in CodeSegment : mem'[a] = mem[a]]_memoryVars
  BY <1>1
<1>. QED
  BY <1>2, MemoryTypeCorrect, PTL DEF MemorySpec, ReadOnlyCodeFrozen

\* A byte write rewrites a whole word and still changes one byte only, and
\* that byte reads back as written.
THEOREM ByteWritesAreLocal == MemorySpec => ByteWriteIsLocal
<1>1. ASSUME MemoryTypeOK, NEW b \in ByteAddress, NEW v \in Byte, HostWritesByte(b, v)
      PROVE  /\ \A c \in ByteAddress \ {b} : ReadByte(c)' = ReadByte(c)
             /\ ByteWriteAccepted(b) => ReadByte(b)' = v
  <2>1. b \in Nat
    BY MemoryAssumption DEF ByteAddress
  <2>2. \A c \in ByteAddress :
            ReadByte(c)' = IF c = b /\ ByteWriteAccepted(b) THEN v ELSE ReadByte(c)
    BY <1>1, <2>1, WrittenByte DEF HostWritesByte, MemoryTypeOK
  <2>. QED
    BY <2>2
<1>2. MemoryTypeOK /\ [MemoryNext]_memoryVars =>
        [\A b \in ByteAddress, v \in Byte :
           HostWritesByte(b, v) =>
             /\ \A c \in ByteAddress \ {b} : ReadByte(c)' = ReadByte(c)
             /\ ByteWriteAccepted(b) => ReadByte(b)' = v]_memoryVars
  BY <1>1
<1>. QED
  BY <1>2, MemoryTypeCorrect, PTL DEF MemorySpec, ByteWriteIsLocal
=============================================================================
