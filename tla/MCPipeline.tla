----------------------------- MODULE MCPipeline -----------------------------
(***************************************************************************)
(* DezPipeline on programs that load up to three strings, in every order   *)
(* and with repetitions, and end in a label, a jump, a MOV or a CMP; on    *)
(* programs with a label or a constant named like a literal; and on four   *)
(* short ones under every command line of up to three arguments.           *)
(***************************************************************************)
EXTENDS DezPipeline, MCAssembler

Literals == {Code(Op.MOV, <<R(2), S(text)>>) : text \in MCTexts}

Tails ==
    { <<>>,
      <<Def("end"), Code(Op.JMP, <<L("end")>>)>>,
      <<Code(Op.MOV, <<R(1), R(2)>>), Code(Op.HALT, <<>>)>>,
      <<Code(Op.INC, <<R(0)>>), Code(Op.INC, <<R(1)>>), Code(Op.CMP, <<R(1), R(0)>>)>> }

LongSources ==
    { strings \o tail : strings \in UNION {[1 .. n -> Literals] : n \in 1 .. 3}, tail \in Tails }

\* A label or a constant with the name of a literal.
SharedSources ==
    { <<d>> \o strings : d \in {Def("__str_a"), Equ("__str_b", 5)}, strings \in [1 .. 2 -> Literals] }

\* A program, one without instructions, one with an undefined label and one
\* that the parser rejects.
ShortSources ==
    { <<Code(Op.MOV, <<R(2), S(<<7>>)>>), Code(Op.HALT, <<>>)>>, <<Def("end")>>,
      <<Code(Op.JMP, <<L("end")>>)>>, <<Only("error")>> }

PipelineSources == LongSources \union SharedSources \union ShortSources

Missing == { [exists |-> FALSE, header |-> NoHeader, body |-> <<>>] }

----------------------------------------------------------------------------
(* Command lines. *)

Input  == FileName("program", ".asm")
Output == FileName("program", ".dez")

Arguments ==
    {Option(o) : o \in {"-h", "-v", "--hex", "-o", "-x"}}
    \union {Input, Output, FileName("my.hexes/out", ".dez"), FileName("missing", ".asm")}

MCReadable == {Input, Output}
MCHexBases == {"my.hexes/out"}

AnyCommand == UNION {[1 .. n -> Arguments] : n \in 0 .. 3}

MCCommands(src) == IF src \in ShortSources THEN AnyCommand ELSE {<<Input>>}
=============================================================================
