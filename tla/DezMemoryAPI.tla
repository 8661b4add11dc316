---------------------------- MODULE DezMemoryAPI ----------------------------
(***************************************************************************)
(* The memory module on its own: a host that calls memory_set_protection,  *)
(* memory_write_word and memory_write_byte in any order, with addresses on *)
(* both sides of the bound (src/core/dez_memory.c).                        *)
(***************************************************************************)
EXTENDS DezBytes

CONSTANT HostWords  \* the words a host writes

ASSUME HostWordsAssumption == HostWords \subseteq Word

memoryVars == <<mem, protection>>

\* A byte write never carries into the bytes above it or out of the word.
MemoryTypeOK == mem \in [Address -> Word] /\ protection \in Protections

MemoryInit == mem = ClearedMemory /\ protection = PowerOnProtection

HostSetsProtection(segment, readonly) ==
    SetProtection(segment, readonly) /\ UNCHANGED mem

HostWritesWord(a, v) == WriteWord(a, v) /\ UNCHANGED protection

HostWritesByte(b, v) == WriteByte(b, v) /\ UNCHANGED protection

MemoryNext ==
    \/ \E segment \in Segments, readonly \in BOOLEAN : HostSetsProtection(segment, readonly)
    \/ \E a \in 0 .. MemWords, v \in HostWords : HostWritesWord(a, v)
    \/ \E b \in 0 .. 4 * MemWords, v \in Byte : HostWritesByte(b, v)

MemorySpec == MemoryInit /\ [][MemoryNext]_memoryVars

----------------------------------------------------------------------------

\* While code_readonly is set no call changes a word of the code segment,
\* through the word interface or through any of the word's four bytes.
ReadOnlyCodeFrozen ==
    [][protection.code_readonly => \A a \in CodeSegment : mem'[a] = mem[a]]_memoryVars

\* A byte write is local although it rewrites a whole word: the other bytes
\* of memory keep their value and, if the write is accepted, the byte reads
\* back as written.
ByteWriteIsLocal ==
    [][\A b \in ByteAddress, v \in Byte :
          HostWritesByte(b, v) =>
            /\ \A c \in ByteAddress \ {b} : ReadByte(c)' = ReadByte(c)
            /\ ByteWriteAccepted(b) => ReadByte(b)' = v]_memoryVars
=============================================================================
