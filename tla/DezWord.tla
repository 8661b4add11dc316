------------------------------ MODULE DezWord -------------------------------
(***************************************************************************)
(* The machine word, uint32_t, that memory, registers, the binary file and *)
(* the assembler's output share.  Its width is a constant, so that TLC can *)
(* use narrow words.                                                       *)
(***************************************************************************)
EXTENDS Integers

CONSTANT WordSpan   \* number of values of a word (2^32)

ASSUME WordAssumption == WordSpan \in Nat

Word == 0 .. WordSpan - 1
=============================================================================
