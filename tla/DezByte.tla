------------------------------ MODULE DezByte -------------------------------
(***************************************************************************)
(* Bytes, four to a word.                                                  *)
(***************************************************************************)
EXTENDS DezWord

CONSTANT ByteSpan   \* number of values of a byte (256)

ASSUME ByteAssumption ==
    /\ ByteSpan \in Nat \ {0}
    /\ WordSpan = ByteSpan * (ByteSpan * (ByteSpan * ByteSpan))

Byte == 0 .. ByteSpan - 1
=============================================================================
