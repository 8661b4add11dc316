---------------------------- MODULE MCAssembler -----------------------------
(***************************************************************************)
(* DezAssembler on every program of up to three lines over a small         *)
(* alphabet, and on longer programs with several strings, labels that      *)
(* collide in the hash table, and every instruction format.                *)
(***************************************************************************)
EXTENDS DezAssembler

\* Words are 20 bits wide: 256 opcodes, 4 registers, 64 immediates; a byte is
\* 5 bits.
MCWordSpan == 1048576

R(n)      == [type |-> "REGISTER", reg |-> n]
I(n)      == [type |-> "IMMEDIATE", value |-> n]
M(n)      == [type |-> "MEMORY", value |-> n]
L(n)      == [type |-> "LABEL", label |-> n]
S(text)   == [type |-> "STRING", string |-> text]
Code(op, args) == [kind |-> "instruction", instruction |-> [op |-> op, args |-> args]]
Equ(n, v) == [kind |-> "constant", name |-> n, value |-> v]
Def(n)    == [kind |-> "label", name |-> n]
Only(kind) == [kind |-> kind]

MCTexts == { <<7>>, <<8, 9, 10>>, <<11, 12, 13, 14>>, <<6, 6, 5>>, <<6, 6, 3>> }

MCStringName ==
    [text \in MCTexts |-> CASE text = <<7>>              -> "__str_a"
                            [] text = <<8, 9, 10>>       -> "__str_b"
                            [] text = <<11, 12, 13, 14>> -> "__str_c"
                            [] OTHER                     -> "__str_d"]

MCNames == {"loop", "end", "far", "__str_a", "__str_b", "__str_c", "__str_d"}

\* The last two literals are alike up to where a name is cut.
MCSpelling ==
    [n \in MCNames |-> CASE n = "loop" -> <<12, 15, 15, 16>> [] n = "end" -> <<5, 14, 4>>
                          [] n = "far" -> <<6, 1, 18>> [] OTHER -> <<31, 31, 19, 20, 18>>]

MCStored == [n \in MCNames |-> n]

MCHash == [n \in MCNames |-> IF n \in {"loop", "end", "__str_a"} THEN 0 ELSE 1]

Alphabet ==
    { Def("loop"), Def("end"), Code(Op.JMP, <<L("loop")>>), Code(Op.CALL, <<L("end")>>),
      Code(Op.MOV, <<R(1), S(<<7>>)>>), Code(Op.MOV, <<R(2), S(<<8, 9, 10>>)>>),
      Code(Op.CMP, <<R(3), I(63)>>), Only("blank"), Only("error"), Only("other") }

ShortPrograms == UNION {[1 .. n -> Alphabet] : n \in 1 .. 3}

\* Every instruction format, with labels around the instructions.
Formats ==
    { Code(Op.MOV, <<R(1), M(9)>>), Code(Op.LOAD, <<R(2), L("far")>>), Code(Op.LOAD, <<R(2), M(63)>>),
      Code(Op.STORE, <<R(3), I(17)>>), Code(Op.SYS, <<R(0), I(6)>>), Code(Op.CMP, <<R(1), R(0)>>),
      Code(Op.ADD, <<R(1), R(2), I(31)>>), Code(Op.DIV, <<R(3), R(2), I(32)>>),
      Code(Op.MUL, <<R(3), R(2), R(1)>>), Code(Op.SHL, <<R(1), R(2), R(3)>>),
      Code(Op.NOT, <<R(1), R(2)>>), Code(Op.LOAD_INDEXED, <<R(3), R(2), R(1)>>),
      Code(Op.STORE_INDIRECT, <<R(2), R(3)>>), Code(Op.PUSH, <<R(3)>>), Code(Op.RET, <<>>),
      Code(Op.JZ, <<I(5)>>), Code(Op.JLE, <<L("far")>>), Code(Op.MOV, <<R(1), R(2)>>) }

FormatPrograms ==
    { <<f, Def("end"), g, Def("far"), Code(Op.MOV, <<R(1), L("end")>>)>> : f, g \in Formats }

\* Operands of types the encoder does not expect, next to ones it does.
IllTyped ==
    { Code(Op.MOV, <<I(44), I(5)>>), Code(Op.STORE, <<R(1), L("far")>>), Code(Op.SYS, <<L("end"), R(2)>>),
      Code(Op.ADD, <<R(1), S(<<7>>), L("far")>>), Code(Op.CMP, <<M(3), S(<<6, 6, 5>>)>>),
      Code(Op.JMP, <<S(<<8, 9, 10>>)>>), Code(Op.PUSH, <<I(7)>>), Code(Op.XOR, <<R(3), R(2), I(31)>>),
      Code(Op.MOV, <<S(<<7>>), S(<<6, 6, 3>>)>>), Code(Op.LOAD, <<R(2), S(<<7>>)>>) }

IllTypedPrograms ==
    { <<f, g, Def("far"), h>> : f \in IllTyped, g \in Formats \union IllTyped,
        h \in {Code(Op.MOV, <<R(1), S(<<6, 6, 5>>)>>), Code(Op.JMP, <<L("far")>>)} }

\* Names with several definitions of different kinds, before and after uses,
\* and literals that share a name, with each other or with a label.
Definitions == {Def("far"), Equ("far", 40), Def("__str_d"), Equ("__str_d", 70)}

Uses ==
    { Code(Op.MOV, <<R(1), L("far")>>), Code(Op.JZ, <<L("__str_d")>>),
      Code(Op.MOV, <<R(2), S(<<6, 6, 5>>)>>), Code(Op.MOV, <<R(3), S(<<6, 6, 3>>)>>) }

SharedNames ==
    { <<a, b, c, d>> : a, b, c, d \in Definitions \union Uses }

\* Longer than the buffer, and long strings, in copies of the same line.
LongPrograms ==
    { [k \in 1 .. n |-> c] : n \in {12, 13, 14},
        c \in {Code(Op.HALT, <<>>), Code(Op.MOV, <<R(1), S(<<11, 12, 13, 14>>)>>)} }
    \union
    { [k \in 1 .. n |-> Code(Op.MOV, <<R(1), S(<<11, 12, 13, 14>>)>>)]
        \o <<Code(Op.MOV, <<R(1), S(<<8, 9, 10>>)>>)>> : n \in {1, 4, 5, 6, 7, 8, 10, 12} }

\* One symbol more than the table holds.
FullTable ==
    { <<Def("loop"), Def("end"), Def("far"), Code(Op.MOV, <<R(1), S(<<7>>)>>),
        Code(Op.MOV, <<R(1), S(<<8, 9, 10>>)>>), Code(Op.JMP, <<L("far")>>)>> }

MCSources == FullTable \union IllTypedPrograms \union SharedNames \union ShortPrograms \union FormatPrograms \union LongPrograms
=============================================================================
