---------------------------- MODULE DezPipeline -----------------------------
(***************************************************************************)
(* From a command line to a running program: asm assembles a source and    *)
(* writes a file (DezAsm), then, if its exit status says so, dez_vm loads  *)
(* that file and runs it (DezLoader), as tests/test_assembly.c does within *)
(* one process.  The two programs share nothing but the file.              *)
(***************************************************************************)
EXTENDS DezAsm, DezLoader

\* Read as a header, "v2.0" is too large a program.  There is no binary file
\* before asm wrote one.  The assembler gives its first string the address
\* where the loader puts it.
ASSUME PipelineAssumption ==
    /\ HexHeader \in Word /\ HexHeader > MaxProgramSize
    /\ \A f \in Files : ~f.exists
    /\ StringStart = StringBase

pipelineVars == <<asmVars, commandVars, allVars>>

PipelineInit == AsmInit /\ LoaderInit

NotStarted == phase = "open" /\ ~file.exists

RunAssembler == NotStarted /\ Asm /\ UNCHANGED allVars

\* dez_vm is started on the file asm wrote.
StartVM ==
    /\ status = "success"
    /\ NotStarted
    /\ output_file.exists
    /\ file' = output_file
    /\ UNCHANGED <<asmVars, commandVars, vars, phase, program_size, position, current_addr>>

RunVM ==
    /\ file.exists
    /\ LoadProgram \/ StartOrGiveUp \/ Run \/ ReturnFromMain
    /\ UNCHANGED <<asmVars, commandVars>>

\* Nothing was written, or the program was run.
Finished ==
    /\ status = "failure" \/ (status = "success" /\ ~output_file.exists) \/ phase = "exit"
    /\ UNCHANGED pipelineVars

PipelineNext == RunAssembler \/ StartVM \/ RunVM \/ Finished
PipelineSpec ==
    PipelineInit /\ [][PipelineNext]_pipelineVars
    /\ WF_pipelineVars(RunAssembler \/ StartVM \/ RunVM)

----------------------------------------------------------------------------
(* Correctness. *)

HelpOptions == {Option("-h"), Option("--help")}

Loaded == phase = "run" /\ at = "while" /\ step_count = 0

Strings == {k \in 1 .. Len(symbol_table.symbols) : IsString(symbol_table.symbols[k])}

\* Every literal gets a symbol of its own: no other literal, no label and no
\* constant has its name.
LiteralsApart(src) ==
    \A n \in Names : \A k \in LiteralLines(src, n) :
        LiteralLines(src, n) = {k} /\ DefiningLines(src, n) = {}

\* Its bytes do not fill whole words.
Ragged(s) == Len(Terminated(s.text)) % 4 # 0

\* Where the assembler and the loader agree on the layout of the strings: the
\* instructions end below the window the loader fills, the strings end inside
\* it, every literal has its own symbol (the address of one that has none
\* stays unused, but only in the table), and every string but the last
\* fills whole words.
LayoutsAgree ==
    /\ Cardinality(InstructionLines(source)) <= WordAddress(StringBase)
    /\ symbol_table.next_string_addr <= StringLimit
    /\ LiteralsApart(source)
    /\ \A k \in Strings : Ragged(symbol_table.symbols[k]) => \A j \in Strings : j <= k

\* Memory spells a string and its terminator at the string's address.
Spelled(s) ==
    \A b \in 1 .. Len(Terminated(s.text)) : ReadByte(s.address + b - 1) = Terminated(s.text)[b]

\* Under these conditions the program in memory when the run starts is the
\* source program: each word decodes to its instruction, and each string can
\* be read where the instructions that use it point.  In between lie the
\* symbol table, the output buffer, which holds the strings in another
\* place, an instruction count that counts other words too, and the loader.
ProgramArrives ==
    Loaded /\ LayoutsAgree /\ ~Full(symbol_table) =>
        /\ \A k \in InstructionLines(source) :
              WellTyped(source[k].instruction) =>
                  Decodes(source, mem[Before(source, k)], source[k].instruction)
        /\ \A k \in Strings : Spelled(symbol_table.symbols[k])

\* What a caller of asm can rely on: status 0 means that the output file was
\* written (or that help was asked for), anything else that it was not.  A
\* binary file always starts, whatever is wrong with its strings, unless it
\* has no instructions or too many; a file of hex digits never does.
AsmTellsTheTruth ==
    /\ status = "success" => output_file.exists \/ \E k \in DOMAIN argv : argv[k] \in HelpOptions
    /\ status = "failure" => ~output_file.exists
    /\ phase = "run" => ~ToHex /\ output_size \in 1 .. MaxProgramSize
    /\ phase = "exit" /\ state = "ERROR" /\ step_count = 0 =>
          ToHex \/ output_size \notin 1 .. MaxProgramSize

----------------------------------------------------------------------------
(* Claims of comments and documentation that the code refutes. *)

\* The instructions and strings have room.
StringsFit ==
    /\ Cardinality(InstructionLines(source)) <= WordAddress(StringBase)
    /\ symbol_table.next_string_addr <= StringLimit

AllSpelled == \A k \in Strings : Spelled(symbol_table.symbols[k])

\* "Store string data at the allocated address" (dez_assembler.c:81), for
\* programs with room for them, of literals that each have their own symbol:
\* the file pads each string to whole words, the addresses do not.
StringsAtAllocatedAddress == Loaded /\ StringsFit /\ LiteralsApart(source) => AllSpelled

\* The same for programs where padding plays no part, as all strings but the
\* last fill whole words: a literal whose name is taken gets an address too.
RefusedLiteralsTakeNoSpace ==
    /\ Loaded /\ StringsFit
    /\ \A k \in Strings : Ragged(symbol_table.symbols[k]) => \A j \in Strings : j <= k
    => AllSpelled
=============================================================================
