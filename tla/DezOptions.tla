----------------------------- MODULE DezOptions -----------------------------
(***************************************************************************)
(* The command line of disasm_tool (src/tools/disasm_tool.c):              *)
(* parse_arguments, and main, which decides between a file and words and   *)
(* collects the words in a loop of its own.  An option stands for its long *)
(* form too.                                                               *)
(***************************************************************************)
EXTENDS DezWord, DezLibrary

CONSTANT MaxSearchDirs      \* directories --search-dir can name (16)

ASSUME OptionsAssumption == MaxSearchDirs \in Nat

Absent == [text |-> "none"]

\* The options with a value: the next argument, an option too.
Valued == {"-f", "-s", "-c", "--symbol-file", "--search-dir"}

\* An argument is a string that is used in several ways: dash and prefix tell
\* whether it starts with "-" or "0x", hex and decimal are what strtoul makes
\* of it, dir is the directory it names, or that of the file it names, and
\* binary tells whether that file is the binary.
IsArgument(a) ==
    /\ {a.dash, a.prefix, a.binary} \subseteq BOOLEAN
    /\ {a.hex, a.decimal} \subseteq Word
    /\ a.text \in Valued \union {"-h", "-S"} => a.dash
    /\ a # Absent

VARIABLES
    tool,       \* control point of disasm_tool
    argv,       \* its arguments
    taken,      \* arguments that parse_arguments is past
    options,    \* disasm_options_t
    names       \* history: the arguments it took for a file or a word

optionVars == <<tool, argv, taken, options, names>>

DefaultOptions ==
    [start |-> 0, count |-> 0, symbols |-> FALSE, custom |-> <<>>,
     filename |-> Absent, symbol_file |-> Absent]

OptionsInit ==
    /\ tool = "idle"
    /\ argv = <<>>
    /\ taken = 0
    /\ options = DefaultOptions
    /\ names = <<>>

----------------------------------------------------------------------------
(* parse_arguments *)

AtArgument  == tool = "arguments" /\ taken < Len(argv)
Argument    == argv[taken + 1]
AtOption(o) == AtArgument /\ Argument.text \in o
HasValue    == taken + 1 < Len(argv)
Value       == argv[taken + 2]

Take(n, o) == taken' = taken + n /\ options' = o /\ UNCHANGED <<tool, argv, names>>
Stop(t)    == tool' = t /\ UNCHANGED <<argv, taken, options, names>>

Formats == {"simple", "detailed", "assembly", "hex", "objdump", "hexdump"}

ShowHelp     == AtOption({"-h"}) /\ Stop("helped")
ValueMissing == AtOption(Valued) /\ ~HasValue /\ Stop("refused")

ReadFormat ==
    /\ AtOption({"-f"}) /\ HasValue
    /\ \/ Value.text \in Formats /\ Take(2, options)
       \/ Value.text \notin Formats /\ Stop("refused")

ReadStart ==
    AtOption({"-s"}) /\ HasValue /\ Take(2, [options EXCEPT !.start = Value.hex])

ReadCount ==
    AtOption({"-c"}) /\ HasValue /\ Take(2, [options EXCEPT !.count = Value.decimal])

ReadSymbolFile ==
    AtOption({"--symbol-file"}) /\ HasValue /\ Take(2, [options EXCEPT !.symbol_file = Value])

ReadSearchDir ==
    /\ AtOption({"--search-dir"}) /\ HasValue
    /\ \/ /\ Len(options.custom) < MaxSearchDirs
          /\ Take(2, [options EXCEPT !.custom = Append(@, Value.dir)])
       \/ Len(options.custom) >= MaxSearchDirs /\ Stop("refused")

ReadSymbols == AtOption({"-S"}) /\ Take(1, [options EXCEPT !.symbols = TRUE])

\* Options about columns, and options there are none of, change nothing here.
ReadOther ==
    /\ AtArgument
    /\ Argument.dash /\ Argument.text \notin Valued \union {"-h", "-S"}
    /\ Take(1, options)

ReadName ==
    /\ AtArgument
    /\ ~Argument.dash
    /\ taken' = taken + 1
    /\ options' = IF options.filename = Absent THEN [options EXCEPT !.filename = Argument] ELSE options
    /\ names' = Append(names, Argument)
    /\ UNCHANGED <<tool, argv>>

----------------------------------------------------------------------------
(* main *)

HasFilename == options.filename # Absent /\ ~options.filename.prefix

\* Mutant: -c was added to parse_arguments only.
SkippedOptionsNoCount == {"-f", "-s"}

\* The options whose values the second loop over the arguments skips.
SkippedOptions == {"-f", "-s", "-c"}

Skipped[k \in 0 .. Len(argv)] ==
    k > 1 /\ argv[k - 1].text \in SkippedOptions /\ ~Skipped[k - 1]

Words ==
    Sequence!FlattenSeq([k \in 1 .. Len(argv) |->
        IF argv[k].dash \/ Skipped[k] THEN <<>> ELSE <<argv[k].hex>>])

SymbolsOnly == options.symbols /\ \A k \in 1 .. Len(argv) : argv[k].dash

ArgumentsRead ==
    /\ tool = "arguments"
    /\ taken = Len(argv)
    /\ Stop(IF HasFilename THEN "file"
            ELSE IF SymbolsOnly THEN "listed"
            ELSE IF Words # <<>> THEN "words"
            ELSE "refused")

ReadArguments ==
    \/ ShowHelp \/ ValueMissing \/ ReadFormat \/ ReadStart \/ ReadCount
    \/ ReadSymbolFile \/ ReadSearchDir \/ ReadSymbols \/ ReadOther \/ ReadName
    \/ ArgumentsRead

----------------------------------------------------------------------------
(* Correctness. *)

\* The two loops over the arguments agree: the words that main lists are what
\* parse_arguments took for no option and for no option's value, in order.
\* Only the values of --symbol-file and --search-dir are listed as well.
ArgumentsAgree ==
    tool \in {"words", "listing"} /\ ~HasFilename =>
        \/ Words = [k \in DOMAIN names |-> names[k].hex]
        \/ options.symbol_file # Absent
        \/ options.custom # <<>>
=============================================================================
