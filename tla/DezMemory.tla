----------------------------- MODULE DezMemory -----------------------------
(***************************************************************************)
(* The word memory of the Dez VM (src/core/dez_memory.c): an array of      *)
(* words cut into a code, a data and a stack segment, and one protection   *)
(* flag per segment.  Addresses are word indexes.  The module declares the *)
(* state and gives the operations as operators on it; DezMemoryAPI and     *)
(* DezVM are the specifications that use them.                             *)
(*                                                                         *)
(* The NULL tests and the DEBUG_MEMORY_STATS counters are left out, and so *)
(* is the slow path after the bounds test of memory_read_word and          *)
(* memory_write_word: past "address < DEZ_MEMORY_SIZE_WORDS" it can only   *)
(* report the address as out of bounds.  memory_can_write, which reads all *)
(* three flags, is called there only.                                      *)
(***************************************************************************)
EXTENDS DezWord

CONSTANTS
    MemWords,   \* DEZ_MEMORY_SIZE_WORDS (4096 in the source)
    CodeEnd,    \* DEZ_CODE_END, the last word of the code segment (0x3FF)
    DataEnd     \* DEZ_DATA_END, the last word of the data segment (0x7FF)

ASSUME MemoryAssumption ==
    /\ MemWords \in Nat /\ CodeEnd \in Nat /\ DataEnd \in Nat
    /\ CodeEnd < DataEnd
    /\ DataEnd < MemWords - 1
    /\ MemWords < WordSpan

VARIABLES
    mem,        \* mem->memory
    protection  \* code_readonly, data_writable and stack_writable

Address == 0 .. MemWords - 1

CodeSegment  == 0 .. CodeEnd
DataSegment  == CodeEnd + 1 .. DataEnd
StackStart   == DataEnd + 1
StackEnd     == MemWords - 1
StackSegment == StackStart .. StackEnd

Segments == {"code", "data", "stack"}

\* What memory_init leaves behind.
ClearedMemory     == [a \in Address |-> 0]
PowerOnProtection ==
    [code_readonly |-> TRUE, data_writable |-> TRUE, stack_writable |-> TRUE]

Protections ==
    [code_readonly : BOOLEAN, data_writable : BOOLEAN, stack_writable : BOOLEAN]

\* Mutant: the fast path forgets the code segment.
WriteAcceptedNoCheck(a) == a \in Address

\* The test memory_write_word makes: of the three flags only the first counts.
WriteAccepted(a) ==
    /\ a \in Address
    /\ ~(a \in CodeSegment /\ protection.code_readonly)

ReadWord(a) == IF a \in Address THEN mem[a] ELSE 0

\* memory_write_word; a refused write returns -1 and changes nothing.
WriteWord(a, v) ==
    mem' = IF WriteAccepted(a) THEN [mem EXCEPT ![a] = v] ELSE mem

\* memory_set_protection(mem, segment, readonly)
SetProtection(segment, readonly) ==
    protection' =
        CASE segment = "code"  -> [protection EXCEPT !.code_readonly  = readonly]
          [] segment = "data"  -> [protection EXCEPT !.data_writable  = ~readonly]
          [] segment = "stack" -> [protection EXCEPT !.stack_writable = ~readonly]
=============================================================================
