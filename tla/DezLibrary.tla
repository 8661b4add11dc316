----------------------------- MODULE DezLibrary -----------------------------
(***************************************************************************)
(* The community modules that specifications of the tools use, under names *)
(* that do not clash with their own.                                       *)
(***************************************************************************)
EXTENDS Sequences

Sequence == INSTANCE SequencesExt
Set      == INSTANCE FiniteSetsExt
=============================================================================
