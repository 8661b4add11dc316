------------------------------- MODULE DezAsm -------------------------------
(***************************************************************************)
(* The program asm (src/assembler/asm.c): the command line, argument by    *)
(* argument, then assembler_assemble_file, which writes a binary file or,  *)
(* if ".hex" occurs in the name of the output, a file of hex digits.       *)
(***************************************************************************)
EXTENDS DezAssembler

CONSTANTS
    Commands(_),    \* the command lines considered with a source
    Readable,       \* the files that hold the source
    HexBases,       \* base names in which ".hex" occurs
    HexHeader       \* "v2.0" read as the first word of a binary file (0x302E3276)

\* An argument is an option, or the name of a file: a base and an extension.
Option(o)         == [is |-> "option", option |-> o]
FileName(base, ext) == [is |-> "name", base |-> base, ext |-> ext]

NoName == [is |-> "none"]

IsArgument(a) ==
    IF a.is = "option" THEN a = Option(a.option) ELSE a = FileName(a.base, a.ext)

IsCommand(c) ==
    /\ Len(c) \in Nat
    /\ DOMAIN c = 1 .. Len(c)
    /\ \A k \in 1 .. Len(c) : IsArgument(c[k])

ASSUME CommandAssumption == \A src \in Sources : \A c \in Commands(src) : IsCommand(c)

VARIABLES
    argv,           \* the arguments
    arg,            \* arguments read so far
    input_name,     \* input_file
    output_name,    \* output_file
    hex_output,
    status          \* control point of main, then its exit status

commandVars == <<argv, arg, input_name, output_name, hex_output, status>>

Status == {"arguments", "reading", "assembling", "success", "failure"}

AsmInit ==
    /\ AssemblerInit
    /\ argv \in Commands(source)
    /\ arg = 0
    /\ input_name = NoName
    /\ output_name = NoName
    /\ hex_output = FALSE
    /\ status = "arguments"

----------------------------------------------------------------------------
(* The loop over the arguments. *)

Argument == argv[arg + 1]

AtOption(options) ==
    /\ status = "arguments"
    /\ arg < Len(argv)
    /\ Argument.is = "option"
    /\ Argument.option \in options

AtName == status = "arguments" /\ arg < Len(argv) /\ Argument.is = "name"

Exit(s) == status' = s /\ UNCHANGED <<asmVars, argv, arg, input_name, output_name, hex_output>>

Help == AtOption({"-h", "--help"}) /\ Exit("success")

Verbose ==
    /\ AtOption({"-v", "--verbose"})
    /\ arg' = arg + 1
    /\ UNCHANGED <<asmVars, argv, input_name, output_name, hex_output, status>>

Hex ==
    /\ AtOption({"--hex"})
    /\ arg' = arg + 1
    /\ hex_output' = TRUE
    /\ UNCHANGED <<asmVars, argv, input_name, output_name, status>>

\* -o takes the next argument as it is, an option too.
OutputOption ==
    /\ AtOption({"-o"})
    /\ arg + 1 < Len(argv)
    /\ arg' = arg + 2
    /\ output_name' = argv[arg + 2]
    /\ UNCHANGED <<asmVars, argv, input_name, hex_output, status>>

OutputMissing == AtOption({"-o"}) /\ arg + 1 >= Len(argv) /\ Exit("failure")

KnownOptions == {"-h", "--help", "-v", "--verbose", "--hex", "-o"}

UnknownOption ==
    /\ status = "arguments" /\ arg < Len(argv)
    /\ Argument.is = "option" /\ Argument.option \notin KnownOptions
    /\ Exit("failure")

\* The first name is the input, the second the output if -o gave none.
InputArgument ==
    /\ AtName
    /\ input_name = NoName
    /\ input_name' = Argument
    /\ arg' = arg + 1
    /\ UNCHANGED <<asmVars, argv, output_name, hex_output, status>>

OutputArgument ==
    /\ AtName
    /\ input_name # NoName /\ output_name = NoName
    /\ output_name' = Argument
    /\ arg' = arg + 1
    /\ UNCHANGED <<asmVars, argv, input_name, hex_output, status>>

TooManyNames == AtName /\ input_name # NoName /\ output_name # NoName /\ Exit("failure")

\* Without a name for the output it is made from the input's.
Derived(n) ==
    FileName(IF n.ext = ".asm" THEN n.base ELSE "output", IF hex_output THEN ".hex" ELSE ".dez")

NoInput == status = "arguments" /\ arg = Len(argv) /\ input_name = NoName /\ Exit("failure")

ArgumentsDone ==
    /\ status = "arguments"
    /\ arg = Len(argv)
    /\ input_name # NoName
    /\ output_name' = IF output_name = NoName THEN Derived(input_name) ELSE output_name
    /\ status' = "reading"
    /\ UNCHANGED <<asmVars, argv, arg, input_name, hex_output>>

----------------------------------------------------------------------------
(* assembler_assemble_file *)

ReadInput ==
    /\ status = "reading"
    /\ status' = IF input_name \in Readable THEN "assembling" ELSE "failure"
    /\ UNCHANGED <<asmVars, argv, arg, input_name, output_name, hex_output>>

\* strstr(output_file, ".hex"): the option does not count.
ToHex == output_name.is = "name" /\ (output_name.ext = ".hex" \/ output_name.base \in HexBases)

\* write_hex_file: a line "v2.0 raw" and the words in hex, without the header
\* and without string data, or fopen fails.  Of the text, only what a loader
\* makes of its first four bytes is kept.
WriteHexFile ==
    /\ stage = "write"
    /\ \/ /\ stage' = "written"
          /\ output_file' = [exists |-> TRUE, header |-> HexHeader, body |-> <<>>]
       \/ /\ stage' = "unwritten"
          /\ UNCHANGED output_file
    /\ UNCHANGED <<source, line, current_address, symbol_table, output_buffer, output_size, symbol>>

AssembleFile ==
    /\ status = "assembling"
    /\ AssembleString \/ (ToHex /\ WriteHexFile) \/ (~ToHex /\ WriteFile)
    /\ UNCHANGED commandVars

\* Mutant: main returns 0 once the source was assembled.
SucceededAssembling == stage \in {"written", "unwritten"}

Succeeded == stage = "written"

MainReturns ==
    /\ status = "assembling"
    /\ stage \in Ended
    /\ Exit(IF Succeeded THEN "success" ELSE "failure")

Asm ==
    \/ Help \/ Verbose \/ Hex \/ OutputOption \/ OutputMissing \/ UnknownOption
    \/ InputArgument \/ OutputArgument \/ TooManyNames \/ NoInput \/ ArgumentsDone
    \/ ReadInput \/ AssembleFile \/ MainReturns
=============================================================================
