------------------------------ MODULE DezBytes ------------------------------
(***************************************************************************)
(* Byte access to the word memory (memory_read_byte and memory_write_byte  *)
(* of src/core/dez_memory.c): four bytes to a word, the first the most     *)
(* significant.  A byte write is a read, an update and a write of a word.  *)
(***************************************************************************)
EXTENDS DezMemory, DezByte

ByteAddress == 0 .. 4 * MemWords - 1

WordAddress(b) == b \div 4

\* Weight of byte b in its word: 1 << (24 - 8 * byte_offset).
Weight(b) ==
    << ByteSpan * (ByteSpan * ByteSpan), ByteSpan * ByteSpan, ByteSpan, 1 >>[(b % 4) + 1]

ByteOf(w, b) == (w \div Weight(b)) % ByteSpan

ReadByte(b) == IF WordAddress(b) \in Address THEN ByteOf(mem[WordAddress(b)], b) ELSE 0

\* Mutant: the old byte is not masked out of the word first (kept in range).
ReplaceByteUnmasked(w, b, v) == (w + v * Weight(b)) % WordSpan

\* Mutant: the same, with the carry out of the top byte kept.
ReplaceByteCarry(w, b, v) == w + v * Weight(b)

ReplaceByte(w, b, v) == w - ByteOf(w, b) * Weight(b) + v * Weight(b)

\* Mutant: the segment test is made on the byte address.
ByteWriteAcceptedByByte(b) ==
    /\ WordAddress(b) \in Address
    /\ ~(b \in CodeSegment /\ protection.code_readonly)

\* The tests of memory_write_byte, which are those of a word write.
ByteWriteAccepted(b) ==
    /\ WordAddress(b) \in Address
    /\ ~(WordAddress(b) \in CodeSegment /\ protection.code_readonly)

WriteByte(b, v) ==
    mem' = IF ByteWriteAccepted(b)
             THEN [mem EXCEPT ![WordAddress(b)] = ReplaceByte(@, b, v)]
             ELSE mem
=============================================================================
