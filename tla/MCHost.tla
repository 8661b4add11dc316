------------------------------- MODULE MCHost -------------------------------
(***************************************************************************)
(* DezHost: main on files of every length, each prefix of two byte streams *)
(* under headers below, at and above what the file holds and what fits;    *)
(* and hosts that make three more calls on a few of these files.           *)
(***************************************************************************)
EXTENDS DezHost

\* Words are 16 bits wide: 4 registers, 16 addresses, 64 opcodes, bytes of 4 bits.
MCWordSpan == 65536

\* A file's bytes for a word, least significant first.
BytesOf(w) == <<w % 16, (w \div 16) % 16, (w \div 256) % 16, w \div 4096>>

Writers ==
    << Pack(Op.MOV, 1, 0, 0, 6), Pack(Op.STORE, 1, 0, 0, 7), Pack(Op.STORE_INDIRECT, 1, 1, 0, 0),
       Pack(Op.PUSH, 1, 0, 0, 0), Pack(Op.CMP, 1, 0, 0, 6), Pack(Op.JZ, 0, 0, 0, 1) >>

Callers ==
    << Pack(Op.CALL, 0, 0, 0, 2), Pack(Op.SYS, 1, 0, 0, SysExit), Pack(Op.LOAD, 2, 0, 0, 1),
       Pack(Op.INC, 2, 0, 0, 0), Pack(Op.RET, 0, 0, 0, 0), Pack(Op.HALT, 0, 0, 0, 0) >>

\* The first n bytes of a file that repeats these instructions.
Prefix(program, n) ==
    [k \in 1 .. n |-> BytesOf(program[(((k - 1) \div 4) % Len(program)) + 1])[((k - 1) % 4) + 1]]

Bytes(program, h, n) == [exists |-> TRUE, header |-> h, body |-> Prefix(program, n)]

NoFile == [exists |-> FALSE, header |-> NoHeader, body |-> <<>>]

MCFiles ==
    { NoFile, [exists |-> TRUE, header |-> NoHeader, body |-> <<>>] }
    \union
    { Bytes(program, h, n) :
        h \in {0, 1, 2, 3, 5, 8, 9}, n \in 0 .. 44, program \in {Writers, Callers} }

\* No file, a size of 9 words, a file cut off in its third instruction, a
\* program with three bytes of string, a longer one that fills the window,
\* and one that loops.
MCReloaded ==
    { NoFile, Bytes(Callers, 9, 36), Bytes(Callers, 5, 10),
      Bytes(Callers, 3, 15), Bytes(Callers, 8, 44), Bytes(Writers, 5, 20), Bytes(Writers, 5, 24) }
=============================================================================
