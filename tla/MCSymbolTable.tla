--------------------------- MODULE MCSymbolTable ----------------------------
(***************************************************************************)
(* DezSymbolTableAPI with four names in two slots, all of which fit.       *)
(***************************************************************************)
EXTENDS DezSymbolTableAPI

MCNames == {"loop", "done", "next", "end"}

MCStored == [n \in MCNames |-> n]

MCHash == [loop |-> 0, done |-> 1, next |-> 0, end |-> 1]

MCTexts == { <<1>>, <<2, 1>> }
=============================================================================
