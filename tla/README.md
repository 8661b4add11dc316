# Dez VM: specification, model checking and proofs

Dez is a small 32-bit virtual machine in C with an assembler. This directory
holds TLA+ modules for its machine, its memory, its program loader, its symbol
table, its assembler from the command line and the text to the file, and its
disassembler, TLC configurations that check them, and TLAPS proofs about them. Paths below are relative to the repository.

## 1. Inventory

Everything is sequential: one process assembles a file, another loads and runs
it. Nothing runs concurrently and nothing is persisted except the binary file,
so the hard behaviours are of another kind: off-by-one limits, protection that
two paths test differently, values cut to a field, three units for an address
(byte, word, index into a buffer), results of calls that are ignored, loops that
must end, layouts two programs must agree on, and the same thing read twice by
different code: text by tokens and by raw characters, a program in two passes, label
addresses by instructions and by lines, arguments by two loops.

| Component | State | Operations | Correct when | Modules |
|---|---|---|---|---|
| Word memory (`src/core/dez_memory.c`) | 4096 words, three protection flags | read/write word, read/write byte, set protection | a protected code segment stays; a byte write touches one byte | `DezMemory`, `DezBytes`, `DezMemoryAPI` |
| Instruction set (`include/dez_vm_types.h`, `src/core/dez_instruction_table.c`) | none of its own | 34 handlers, decoding, 32-bit arithmetic | results keep their width; a failing instruction has no effect | `DezISA`, `DezVM` |
| Machine (`src/core/dez_vm.c`) | registers, pc, sp, flags, state, step count | step, run | the stack is a stack in its bounds; flags are consistent; every run ends | `DezVM`, `BoundedStack` |
| Loader, main and other hosts (`src/core/dez_vm.c`, `src/main.c`, `tests/`) | file position, string address, protection | init, load with early returns, run, in any order | memory is what the files say; bad files do not run; the run is protected; nothing is left of an earlier run | `DezLoader`, `DezHost` |
| Symbol table (`src/assembler/dez_symbol_table.c`) | array of symbols, hash cache, next string address | define label/string/constant, find, allocate, get string | it is a dictionary; strings do not overlap | `DezSymbolTable`, `DezSymbolTableAPI`, `Dictionary` |
| Lexer (`src/assembler/dez_lexer.c`) | position in the text, a token of look-ahead | next token, peek | the text is cut the same way each time | `DezLexer` |
| Parser, encoder (`src/assembler/dez_parser.c`) | pass, address, output, error flag | parse a statement, encode, two passes | text is read as its lines; words decode to the source; labels resolve; errors fail | `DezParser`, `DezAssembler`, `DezEncoder` |
| Assembler driver (`src/assembler/dez_assembler.c`) | output buffer and size | copy strings, write a binary or a hex file | what is written can be loaded | `DezAssembler`, `DezAsm` |
| asm command line (`src/assembler/asm.c`) | names, options | one step per argument | the exit status tells what was written | `DezAsm` |
| Assemble, load, run (`tests/test_assembly.c`) | all of the above | one after the other | the program in memory is the source program | `DezPipeline` |
| Disassembler library (`src/core/dez_disasm.c`) | none | word to text | the text assembles to the word | `DezDisasm` |
| disasm_tool (`src/tools/disasm_tool.c`) | options, search path, its own symbol table, row | read arguments, find a source, read its labels, list a window | its readings agree with the assembler's | `DezOptions`, `DezListing` |

How they interact: `asm` runs the parser over the lexer's tokens; the parser
defines and looks up names in the symbol table and appends words to the output
buffer; the driver copies the table's strings into the buffer and writes buffer
and strings to a file. `dez_vm` reads that file into the memory, with code
protection lifted, and steps the machine, whose handlers read and write the
memory, partly through the checked functions and partly directly. `disasm_tool`
reads the same file, and the text of the source once more, if it finds it.

`PROJECT.json` lists the components, the hazards line by line with the
properties that watch them, and which lines every definition stands for.

## 2. The modules

`DezWord`, `DezByte` - the number ranges. Widths are constants throughout
(`WordSpan`, `OpSpan`, `NReg`, `ImmSpan`, `ByteSpan`): the masks and shifts of the
source become `\div` and `%`, and TLC runs with narrow words.

`DezMemory` - `mem` and `protection`; one operator per function of
`dez_memory.c`. `WriteAccepted` is the test the writes make, which looks at one of
the three protection flags. `DezBytes` adds byte access (four bytes to a word, the first the most significant) and
`DezMemoryAPI` is a host that makes any calls.

`DezISA` - opcodes, fields, arithmetic. `DezVM` - `dez_vm_run` as a loop with
control point `at` ("while", "step", "count", "done"): the loop test, one action
per handler (with its fetch and the pc update after it), the count and limit
test. Error paths are actions of their own (`DivByZero`, `BadAddress`,
`StackOverflow`, `StackUnderflow`, `Unknown`, `PcOutOfBounds`). `sp` is the
next free slot, so a full stack has `sp = StackStart - 1`. Shifts by the word width
or more are a choice between the outcomes of common hardware. `MaxSteps` is the
step limit, which is the program's own bound and not one of the model.

`BoundedStack` - a stack of at most `Capacity` values whose inside can be
overwritten. `DezVM` implements it with `StackContents`, the words above `sp`.

`DezLoader` - extends `DezVM`, `phase` being the control point of `main` and
`dez_vm_load_program`. Each early return is an alternative of its step that goes
through `LoadError`. A file is a record: whether it exists, its header (or none),
and its other bytes. `DezHost` adds the callers: `main`, which loads once and runs
if that left no error, and hosts that call `dez_vm_init`, `dez_vm_load_program` and
`dez_vm_run` in any order, `MaxCalls` times. `loads` and `ran` are history
variables.

`DezSymbolTable` - the table as a record passed to operators, because the source
passes a pointer and other modules compose the calls. `Find` goes through the
cache first, `AfterFind` is the table a search leaves. `DezSymbolTableAPI` is a
caller that makes any calls; `Dictionary` is what the table promises: a name is
bound once, a binding never changes, a lookup gives the binding.

`DezEncoder` - `parser_encode_instruction`. An operand of the source is a C union
whose type is mostly not tested: a register read as a number is its byte with
bytes above it that were never written (`Junk`), a name or a text its first bytes.
`DezAssembler` - the two passes, the string copy and the file. A source is a
sequence of lines: a label, a constant, an instruction, a blank line, a
line the parser reports an error on, or a line that does not start with an
identifier, where it stops without one. `malloc` hands out a buffer of any of the
bytes in `JunkBytes`. An out-of-bounds `memcpy` loses what lies outside the
buffer or ends the process (`CopyAborts`). Literals are shorter than the 255
characters a symbol keeps. Two literals can share a name (`StringName`).

`DezLexer` - from text to tokens. A text is a sequence of characters, a whole word
or number counting as one; the operators take a text and a lexer record.
`DezParser` - the passes over the text: `StatementAt` gives the statement a
lexer is at and the lexer after it, and `ParseStatement` does with it what
`DezAssembler` does with a line. `line` and `source` are history variables there, and
`ImplementsLines` says that reading the text is reading the lines.

`DezAsm` - `main` of `asm`: an action per kind of argument, then
`assembler_assemble_file` around `DezAssembler`, to a binary or a hex file, then the
exit status. `DezPipeline` - `DezAsm` and `DezLoader` side by side, sharing the
file.

`DezDisasm` - `dez_disasm_instruction`, from a word to a text of `DezLexer`.
`DezOptions` - the command line of `disasm_tool`: `parse_arguments` an action per
option, and the decision of `main` between a file, words, and the symbols alone. An
argument is a record of what the code makes of the string: whether it starts with "-"
or "0x", its value in base 16 and in base 10, its directory.
`DezListing` - `DezParser` followed by `disasm_tool` on the file: the search for the
source (`SearchPath`), the labels counted in its lines (`SkipComment`,
`LabelLine`, `CountedLine`), and one action per row. This reader does not see characters
as the lexer does: `File` is the text in bytes (`Written` says how a word or number is
written), and a step takes what one call of `fgets` returns (`PieceEnd`): up to
a newline, the end of the file, or `LineLimit` bytes (1023), whatever comes first. The rest
of a longer line, of a comment too, is a line of its own, and may begin inside a word.
`Trimmed` and `IsLabel` are `trim_string` and `extract_label_from_line` on such a piece: any
letters, digits and underscores are a name, and a name that with the spaces before
its colon has `LabelLimit` bytes (64) or more is none.

`DezLibrary` - the community modules under names that do not clash with the program's.
`DezArithmetic`, `DezISALemmas`, `DezMemoryProofs`, `DezMachineProofs`,
`DezSymbolTableProofs`, `DezAssemblerProofs`, `DezPipelineProofs`, `DezListingProofs` - the
proofs, see section 4.
`MC*.tla` - the constants of the runs.

Definitions commented "Mutant" are the code with a plausible bug; each passing
property fails when one of them takes the place of the definition it follows.

## 3. The runs

| Run | Question | Bounds |
|---|---|---|
| `memory_api` | protection and byte writes under any calls | 3 words (one per segment) of four 1-bit bytes; addresses one past the end too |
| `machine` | every handler, the stack, the end of every run | all 10^4 programs of four stack instructions with 3 stack slots (fewer than pushes); a MOV that picks R0 and every pair of 56 instructions; every comparison, conditional jump and third instruction; 12 steps, 2 registers, 13-bit words |
| `host` | every file; a second load | two byte streams cut after each of 0..44 bytes, 7 headers around the true one and the maximum, no file, no header; three further calls on seven of these files |
| `symbol_table` | any calls | 4 names in 2 slots, 3 symbols, 2 texts; `AddrLimit` stops string allocation |
| `assembler` | any source | all programs of up to 3 lines over a set of lines, every instruction with operands of every kind, programs around the buffer size of 13 words whose last strings have addresses above the 64 immediates, one symbol too many, names with several definitions of any kind and literals that share one |
| `listing` | any text, and a listing of any file | every sequence of 1 or 2 of 14 lines in 3 layouts and of 3 tight; every text of up to 3 of 16 characters, and of up to 2 inside an instruction, a label or a literal; 60 windows of a file of 4 words; 4 depths of directory with every place of one or two sources; words of 36 opcodes; command lines of up to 4 arguments; `fgets` takes 12 bytes and a label has less than 6 |
| `pipeline` | source to memory, and the exit status | up to 3 of 4 literals in any order with repetitions, 4 ends; a label or constant named like a literal; every command line of up to 3 of 9 arguments on four short programs |

Why the bounds are enough: each limit in the code (stack slots, step limit,
symbols, buffer, program size, string window) has instances below, at and above
it; names collide in the cache and alternate; a string literal exists for each
remainder modulo the word size that matters (padded or not). Narrow words make
wrap-around reachable in a few instructions: the arithmetic is the same formula
for any width. Programs are short, but a program may loop, jump into its
operands and overwrite itself. The statements of the parser look ahead at most at
the end of their line, and the state between two is a lexer record, so short texts
show what long ones do; a literal of the greatest length (`LiteralLimit`) and one
more are among them. With 12 bytes to a piece and 6 to a label, the lines of
the texts have 1 to 26 bytes and the labels up to 6, which is one too many; comments, words
and newlines are cut. Search rounds are all eight of the source's, which climb
more directories than any binary here lies deep.

What the passing properties say:

* `ReadOnlyCodeFrozen`, `ByteWriteIsLocal` - no byte of a protected code word
  changes; a byte write changes one byte although it rewrites a word.
* `ImplementsStack`, `LastInFirstOut`, `StackBounds` - four handlers that agree
  on one stack: one word at a time at one end, and that the register or the return
  address that was pushed.
* `PreciseErrors`, `CodeIntegrity`, `FlagsTrichotomy`, `StepBound`,
  `Termination`, `TypeOK`.
* `LoadCorrect` - a run that begins finds in memory, in one formula over all
  loads since `dez_vm_init`, what the files say, the last one that covers a byte
  deciding it, and the registers of a fresh machine; `LoadOutcome` - the state is
  RUNNING exactly if every load since then was complete and none was run, so that a
  bad load is not forgotten; `RunsProtected`, `LoaderConfined`, `ProcessEnds`,
  `HostTypeOK`.
* `ImplementsDictionary`, `StringsApart`.
* `OutputIsProgram` - after the second pass, if the table has room left, the k-th word
  decodes, as the machine decodes it, to the k-th instruction: its opcode, its
  registers, its numbers as far as the immediate field holds them, a name as its first
  definition, before or after the use, and a literal as the address of the first
  literal of its name. The operands must have the types that the opcode expects
  (`WellTyped`); with others, `EncodeInstruction` is the code and nothing is promised.
  `AssemblyOutcome` - exactly the programs without errors that fit are parsed;
  `AssemblerTypeOK`.
* `ProgramArrives` - the same at the start of the run, and strings where the
  instructions point, under `LayoutsAgree`: instructions end below the string
  window, strings end inside it, every literal has a symbol of its own, and only the
  last string needs padding. Outside these conditions it fails, see below.
* `AsmTellsTheTruth` - an exit status of success means that a file was written, or
  that help was asked for, one of failure that none was; and the loader runs exactly
  the files that are binary and hold a program of a valid size.
* `ImplementsLines` - the text is cut into the same statements in both passes, and
  what follows is a behaviour of `DezAssembler` on its lines, its end included.
  The lines expected of a text that was written out come from what was written, not
  from the parser.
* `StatementsAreLines` - the text of a document, read from its start statement by
  statement, gives the lines that the document was written from. It speaks of the run's
  documents and is a hypothesis of the theorems about text.
* `LabelsByToken` - the test for a label on the raw text agrees with the tokens, in
  texts without literals and carriage returns.
* `ArgumentsAgree`, `SearchOutcome`, `LabelsAgree`, `RowsAreWindow` - the readings of
  `disasm_tool`: its two loops over the arguments, the precedence of the places it
  searches, the labels it counts against the assembler's, the window of rows.
  `SearchOutcome` states the order of the code: the source beside the binary, then the
  custom directories; the comment at `disasm_tool.c:464` gives those "highest priority",
  see below. `LabelsAgree` speaks of texts whose lines are a comment from the first column on,
  a label or an instruction (`TidyText`), with lines and labels that fit the tool's buffers
  (`LinesFit`): of longer ones it is false, as the tail of a long comment counts as an
  instruction. A row's
  address is a 32-bit number, so `RowsAreWindow` speaks of files of less than 4 GB; that
  condition was found by the attempt to prove it.
* `ListingReassembles` - the text of a row assembles to its word exactly if the word is
  in `Faithful`, the words the disassembler shows in full. One of them is there by
  accident (`SpelledCall`), and was found by the attempt to prove the property: a call
  without a name is shown as `UNKNOWN_SYS`, which the assembler reads as a name and encodes
  as its first letters, "UN", of which 12 bits are 0xE55; so call 0xE55 comes back although
  its name was not known. The run has a word for it.

### Fairness

`DezVM`, `DezHost`, `DezAssembler`, `DezParser` and `DezPipeline` have weak fairness
of their next step. The code is sequential and never waits: a loop that can go on does.
That is all termination uses; that a run ends comes from the step limit, and
that assembly ends from the position in the text, which only grows within a pass.
`ParserFairness` is the weak fairness of `AssembleText` with ENABLED written out,
which TLC evaluates faster; the check for deadlocks confirms that a step is
possible until the assembler has ended. `disasm_tool` need not be started, and
`ListingSpec` gives it no fairness. The memory and symbol table specifications
have no fairness and no liveness: a caller may stop calling.

### Where code and documentation disagree

Five runs check a claim alone and refute it:

| Run | What is said | What happens |
|---|---|---|
| `code_read_only` | the code segment is read-only (`README.md:24`) | STORE writes it (`dez_instruction_table.c:69`) |
| `taken_jump_lands` | "JZ label - Jump if zero flag set" (`README.md:131`) | a jump to itself falls through (`dez_vm.c:144`) |
| `strings_at_allocated_address` | strings are stored at their address (`dez_assembler.c:81`) | of two literals with symbols of their own, the second is loaded behind its address: the file pads the first to whole words (`:221`), the addresses do not |
| `refused_literals_take_no_space` | the same | a literal whose name is taken gets room all the same (`dez_symbol_table.c:100`), and a string behind it is loaded below its address; no padding is involved |
| `usual_directories_searched` | "Check common source directories relative to binary location" (`disasm_tool.c:475`) | the directory climbs one level per round, in a static buffer (`:502`), and a source there is missed |

Other divergences the models contain, without a run of their own:

* `PassEnds`: at a line that does not start with an identifier the parser stops without
  an error, and the rest of the program is dropped (`dez_parser.c:226`, `:41`); "If we
  get here, it's an error" says `dez_parser.c:129`.
* `UnionWord`: `MOV R1, R2` loads the number 2, with what an older operand left above it
  (`dez_parser.c:489`); "MOV R1, R2 - Copy R2 to R1" says `README.md:116`.
* `SearchPath`: the source beside the binary is taken before any other
  (`disasm_tool.c:459-462`); "Check custom search directories first (highest priority)"
  says `:464`. `SearchOutcome` states the order of the code.
* `CountedLine`: an empty line is still its newline after `trim_string` (`:290`, `:367`),
  and counts as an instruction (`:381`); "Skip empty lines and comments" says `:366`.
* `StoreTo`: a refused write goes unnoticed, and the machine stays RUNNING.
* `CountStep`: a HALT in the last step allowed becomes an ERROR.
* `ReadStringByte`: "data segment" (`dez_vm.c:86`) is byte address 0x100, word 64,
  in the code segment.
* `LoadError` in `ReadInstruction`: the code segment stays unprotected until
  `dez_vm_init`; what keeps runs away from it is the ERROR state.
* `LoadAnother`: a second load keeps the words of a longer program behind a shorter
  one, and an error of the first.
* `StartOrGiveUp`: `main` tests the state although `dez_vm_run` would not run.
* `WriteAccepted`: protection of the data and stack segments has no effect.
* `AfterAdd`: a name of 64 characters or more is never found again.
* `Label`: a second definition is reported, ignored and assembled.
* `SymbolAddress`: an undefined label is address 0; nothing calls
  `symbol_table_validate`.
* `SpaceChecked` against `FirstByte`: the test is in bytes, the copy in words.
* `CopyString`: the header counts the words strings reach, not instructions.
* `Comparand`: R0 as second operand of CMP is the number 0.
* `ConstantAt`: `EQU` is recognised by looking at the name itself again, so
  `SIZE EQU 10` is "Unknown instruction", and a constant is named `EQU`.
* `EndsWithColon`: the raw text makes `HALT foo:` and `MOV R1,"x: ; y"` labels, and a
  carriage return after the colon makes a label line an error.
* `OperandAt`, `UnionWord`: operands of the wrong kind are accepted at any position,
  and bits of theirs reach other fields; `#[5]` is an operand.
* `Allocated` before `AfterAdd`: a literal whose name is taken, by an earlier use or by a
  label or constant called `__str_...`, moves the next address but not the file's
  strings, so that later strings are not where the table has them.
* `StringName`: literals that share their first characters share a symbol.
* `ToHex`: `--hex` changes a derived name only; whether the file is hex is decided by
  ".hex" anywhere in the name. The loader takes a hex file's text for a header, and
  refuses it.
* `CountedLine`: comments after spaces count as instructions, as does the rest of a line of
  more than 1023 bytes and a label of more than 63.
* `RoundDir`: the "parent" of the binary's directory (`disasm_tool.c:501`) is not
  tried until no slash is left.
* `Total`, `Row`: the header is listed as the first instruction, so that addresses and tags
  are one word early.
* `EndIndex`: start plus count wraps around to an empty listing.
* `SourceRead`: without a source, or without a label in it, the symbols of a sample
  program are shown.
* `SkippedOptions`: the values of `--symbol-file` and `--search-dir` are listed as
  words; unknown options are ignored; a first argument with "0x" makes words of the names
  after it.
* `Faithful`: arithmetic and CMP with an immediate, JZ, JNZ, indirect and indexed
  accesses are shown in a form the assembler reads as something else or not at all, and
  fourteen opcodes of the machine have no name.

## 4. The proofs

The theorems hold for every value of the constants that the named assumptions
allow; TLC evaluates the assumptions in the runs.

| Assumption | What it says | Why the code justifies it |
|---|---|---|
| `WordAssumption`, `MemoryAssumption` | three consecutive non-empty segments; an address fits a word | the segment macros of `dez_vm_types.h` |
| `ByteAssumption` | four bytes are a word | `uint32_t` |
| `ISAAssumption`, `FieldAssumption` | the fields are some bits wide each and fill the word | the shifts and masks of the `DEZ_DECODE_*` macros: 8, 4, 4, 4 and 12 bits |
| `OpcodeAssumption` | opcodes fit the opcode field | the enumeration ends at 34 |
| `VMAssumption` | an immediate is an address, programs fit the code segment | 4096 words, 12 bits |
| `LoaderAssumption` | the largest program fits the code segment, and the string window lies in it | 1024 words; bytes 0x100 to 0x200 |
| `HostAssumption`, `APIAssumption` | what callers pass has a type | the C types |
| `SymbolTableAssumption` | cutting a name twice is cutting it once | `strncpy` of 63 characters |
| `EncoderAssumption` | names are spelled in bytes; a register number fits a byte | `uint8_t reg` |
| `AssemblerAssumption`, `CommandAssumption` | sources are lines, command lines are arguments; the buffer has fewer words than a word has values | the parser's operands, `argv`; 4096 words |
| `LexerAssumption` | the longest literal kept has a length | 255 characters |
| `ParserAssumption`, `ListingAssumption` | documents are texts, what they were written from are lines; files and places have a type | what the tools are given |
| `LimitsAssumption` | a call of `fgets` takes at least one byte | `MAX_LINE_LENGTH`, `MAX_LABEL_LENGTH` (`disasm_tool.c:11`) |
| `WrittenAssumption` | characters of documents have bytes, one if neither a word nor a number; no two words are written alike | what a text is; a word of the model is a word of the file |
| `ShownNamesAssumption` | register names and numbers are inverse; no mnemonic, call name or substitute of one is a register; both tools have the same names of calls | the tables of `dez_disasm.c:8-87` and the parser's |
| `OptionsAssumption` | arguments are arguments; there is a limit to search directories | `argv`; 10 |
| `PipelineAssumption` | a hex file read as a binary one has too large a size; there is none before `asm` ran; the table's first address is the loader's | "v2.0" is 0x302E3276; 0x100 in both (`dez_symbol_table.c:10`, `dez_vm.c:100`) |

### The lemmas

`DezArithmetic`: quotients, remainders and digits; two facts by induction, which
the provers get from the library's theorem on minimal elements of a set of
numbers: `SetInduction`, for sets and so without an operator as parameter, and
`RecursionExists`, that a function defined by recursion on the natural numbers exists
and satisfies its equation. With these the recursive functions of the model
can be proved about: `Power`, `FromBits`, and the function in the `FlattenSeq` of
`SequencesExt`.

`DezISALemmas` has the bits of a word: a word is the number of its bits (`BitsOfWord`),
the bits of a packed word are those of its fields (`PackBits`), taking the fields out
gives them back (`PackFields`), and bitwise operations give words.
`DezMemoryProofs` takes a word as four bytes: `ReplaceByte` exchanges one, and `ReadByte`
after it gives that one or an old one.
`DezSymbolTableProofs` says what the operators of `DezSymbolTable` do to a table,
for each of its users: a search only moves the cache, a definition appends or leaves the
array alone, both keep the cache within the array; with `NamesFit`, a search finds the one
symbol of a name.

### The machine (`DezMachineProofs`)

The inductive invariant `IInv` of `DezVM` joins `TypeOK`,
`StackBounds`, `FlagsTrichotomy`, `StepBound` and two facts the runs do not
state by themselves: `Protected` (during a run the code segment is read-only and the
protection does not change) and `StepCountInLoop` (the counter is at most the limit
while the loop goes on, without which `StepBound` is not inductive). `StackBounds`
needs the protection only for what the stack instructions write; the type of
registers needs that fields are registers and immediates addresses (`Fields`), and
that arithmetic stays in the word. The proof that a step keeps
`IInv` has a lemma per family of handlers and a case per action. From it follow
`TypeCorrect`, `StackStaysInBounds`, `FlagsAreExclusive`, `RunIsBounded`, and, as
action properties, `CodeIsKept` and `ErrorsArePrecise`.

`StackRefinement` is the refinement of `BoundedStack`. `View(m, s)` is
the stack of a memory m and a pointer s; each handler that writes the memory or
moves the pointer extends it, shortens it or overwrites one place of it, and every
other step leaves it. `StackOrder` (which word is
pushed, and where the popped one goes) follows from the same view.

### The memory (`DezMemoryProofs`)

`MemoryTypeCorrect`, `CodeFrozen` and `ByteWritesAreLocal`. Type and protection are
inductive as they stand; that a byte write is local is a property of the word as four
bytes.

### Loader and hosts (`DezMachineProofs`)

`HostInv` joins `HostTypeOK`, `StackBounds`, `FlagsTrichotomy` and what is known at
each control point: `ProtectionInv` (the code segment is open while the loader writes,
and afterwards only after an error), `LoadsInv` (the history), `ProgressInv` (how far
the loader is in the file: in the instruction loop the position is a whole number of
words, below the size, which is valid), `RunInv`, `OutcomeInv` (an ERROR state from
the first bad load on) and `ResetInv` (the CPU is as `dez_vm_init` left it until a run).
`LoadOutcomeHolds` and `RunsAreProtected` are consequences;
`HostTypeCorrect` needs the position, because the loops are bounded by
nothing else; `LoaderStaysInCode` needs the size and the address of the string
byte.

`RunsStartClean` (`LoadCorrect`) needs more: `MemoryInv` says that the memory is what the
finished loads left (`LeftBy`) with the part of the load in progress over it
(`PartlyLoaded`), which each round of the two loops extends by a word or by a byte.

### The symbol table (`DezSymbolTableProofs`)

`StringsNeverOverlap`: `StringsApart` is not inductive: it
does not say where the next string goes. `SInv` does: the array holds the strings
in the order of their addresses, each ending before the next and before
`next_string_addr` (`Ordered`), and a definition appends one that starts there or
nothing. `SymbolTableTypeCorrect` adds the bounds of array and cache.

`TableIsDictionary`: under `NamesFit` the table implements `Dictionary`, a step of the
caller being a step of the dictionary or a stutter. The invariant is that no name
occurs twice in the array (`Unique`); then what the cache suggests, if its name is the
right one, is what the loop over the array finds. `NamesFit` is a hypothesis of the
theorem, not an assumption of the model: a name of more than 63 characters is
looked up in full and stored cut, so it is never found and can be bound again and again,
and the claim is false of it.

### The assembler and `asm` (`DezAssemblerProofs`, `DezPipelineProofs`)

`AssemblerTypeCorrect` is `AssemblerTypeOK`, inductive together with what the string loop
knows of its symbol (`AssemblerInv`).

`OutputDecodes` is the correctness of the assembler: `OutputIsProgram` for every
source. `EncodeFaithful`, with a lemma for each format, says that a word decodes to its
instruction as far as operands are literal, and otherwise to what the table says of the
name. The invariant `ProgramInv` says, during the first pass, that the table holds
exactly the definitions of the lines read so far, each name with its first
one (`FirstPassTable`); during the second, that it holds all of them and, after them, the
first literal of each name so far (`SecondPassTable`), and that every word emitted means
its instruction under the table of now (`EmittedWords`). The last is the point of two
passes: what a word was encoded with stays true while the table grows (`Kept`,
`WordStays`), because a name that is bound stays bound to the same symbol. The counts of
instructions before a line, which the passes make separately, agree (`CountTo`). Hypotheses
are `NamesFit`, for the reason above, and, in the property, that the table does not fill: a
definition it refuses is address 0, and the parser does not notice.

`AsmIsTruthful`: `PipelineInv` relates the command line read so far (`CommandInv`), the
file that was written to the buffer's size and the format (`OutputInv`), the file the
loader has to that (`StartedInv`), its progress in it (`LoadInv`), and the number
of steps to the state (`StepsInv`). Loading succeeds because a file that `asm`
writes is at least as long as its header says.

`ProgramIsLoaded` joins the two: `ProgramArrives` for every command line, source
and size of memory, buffer and string window, with `NamesFit` once more. Its invariant is
`PipelineInv`, `ProgramInv` and three more:

* `LayoutInv`, of the assembler. From the second pass on the strings of the table lie
  one behind the other from `StringStart` (`Packed`), if every literal has a symbol of its
  own. This needs that a literal found in the table would be a literal of an earlier line
  (`Sourced`). After the passes, the words stay in the buffer while strings are
  copied over it, if they end before the strings begin (`WordsKept`, `CopiedBehind`).
* `BodyInv`, of the file: the bytes of the buffer, then the strings, padded (`Body`).
* `LoaderInv`, of the load: how many words and bytes of the file are in memory at each
  control point. Words below the window stay as they are while it is filled, and the string
  loop ends only at the end of the file or of the window.

What is left relates two layouts of the strings: in the file each fills whole words, in the
address space each ends with its terminator. If no string before the k-th is ragged,
the k-th starts at the same distance in both (`PartsFit`, over the steps of
`FlattenSeq`, which `Concatenation` exhibits), and so its bytes are where
its address says (`StringInFile`, `StringsArrive`). The last string may be ragged:
its padding is behind everything else. For the words, `LittleEndianWord` of the file
is `WordIn` of the buffer (`WordsArrive`).

All of `LayoutsAgree` is used: without `LiteralsApart` an address is given away that no
string takes, and the two other bounds keep the words and the strings
apart and inside the window.

### The text and the listing (`DezListingProofs`)

`DezLexer` and `DezParser` write their scans of a line as recursive functions over
positions, so that `RecursionExists` and `SetInduction` apply to them. The theorems about
text have the hypothesis `DocumentsAreRead`: every document's text, read statement by
statement from its start, gives its lines. It is a fact about the documents a user picks,
not about the parser's passes, and the run checks it of its own documents as
`StatementsAreLines`.

`ListingInv` joins `AssemblerInv`, `TextInv` and `ToolInv`, and `ListingInductive` says that
it is inductive and that each step is one of `DezAssembler` or a stutter.

* `TextInv`: where the lexer is in the text corresponds to how many lines were read, in
  either pass (the lexer is what `LexerAfter` gives, up to newlines that follow). A
  statement that the parser reads is then the next line, which is
  `TextImplementsLines`: `ImplementsLines` without its liveness. With it the theorems
  about `DezAssembler` hold of the text, and `TextIsProgram` states the most important
  one, `OutputIsProgram`, under `NamesFit`.
* `LabelsAreTokens` (`LabelsByToken`) relates the raw text to the tokens: in a text without
  quotes and carriage returns a token is one character, and by induction over the
  tokens of a line the last one is the last character that is not blank.
* `ArgumentsInv`: what `parse_arguments` has collected so far (`Collected`: names, directories,
  the words of a first argument in hex) is a function of the arguments taken; at the end
  main's own loop, which is a fold over all of them, gets the same words, apart from the
  two options it does not know. That is `ArgumentsAreAgreed`.
* `SearchInv`: the path of the search begins with the directory of the binary and the custom
  ones, and ends with the usual ones under the current directory, whatever the rounds
  between look at; the first hit is then as `SearchOutcome` says (`SourceIsFound`).
* `FileInv`, `ControlInv`, `RowsInv`, `LabelsInv`: the file is bytes behind a word; the rows so
  far are the words from the start on (`WindowIsListed`, under 4 GB, see above); labels keep to
  their table and `scanned` to the text. With `CustomInv` they make up
  `ListingTypeCorrect`.

`LabelsCoincide` (`LabelsAgree`) compares two readers of one text. The parser counts
instructions, statement by statement, and may have looked one token ahead; the tool counts
the pieces that `fgets` returns, trims them and looks for a colon in the bytes. Neither follows the other's steps,
so both are compared with a third reading, `Reading(txt)`: the labels and the number of
instructions of the lines before a position, as a function of the position, which exists
by `RecursionExists`.

* `TidyRead` is the step that matters: at the start of a line of a `TidyText`, what the
  parser reads and the trimmed line the tool looks at are both a comment, or both the same
  label, or both an instruction, and the parser is at the end of the line after it.
  `LabelShown` and `LabelTested` compare the tests that the two make of the characters.
* `ParserReads`: in the first pass the lexer is between two lines (`Between`), and the symbols
  and `current_address` are those of the reading there; later the table still begins with
  all labels, and literals follow them (`Holds`). A refused label, in a full table or
  defined before, is refused by both (`LabelAdded`, `LabelListed`).
* `LineOfTool`: with `LinesFit`, the piece that the tool takes at the start of a line is that
  line. `Offsets(txt)` is how many bytes there are before each character (`OffsetsFound`), so that the
  end of a line in bytes is that of its last character (`LinePiece`), blanks are trimmed
  alike (`LineTrimmed`), and the label of the bytes is that of the characters (`LabelOfBytes`,
  `BytesOfLabel`). Without `LinesFit` the first fails, and the tool is inside a line.
* `SourceInv`: `scanned` is the offset of a line, the tool's labels are those of the reading
  there, as they are written, with four times the count for an address; before it
  starts to read it has none.
* `ReadingInv` joins these, `ListingInv` and `WrittenInv` (there is a file only once the
  assembler has written it), and is inductive. No line counts for more than one instruction
  and every line has a character (`ReadingCounted`), so no address wraps around in
  a text of up to a quarter of 2^32 characters, which is the hypothesis `LabelsAgree` makes.

`ListingsReassemble` is about `Shown` and the assembler's operators alone, for every word of
any width: `WordReassembles` says that the text of a word assembles to the word exactly if it
is in `Faithful`. A shown text has no comment, quote, newline or colon, so the lexer reads it
token by token (`QuietToken`, `QuietScanned`). There is a lemma for each shape of
text: registers, a register and a number, a register and a name in brackets, a number, a
register alone, nothing, a call. Each says which statement the text is, or that it
is none; what the statement is encoded as follows from the format of its instruction
and from the fields of the word (`NumberEncoded`, `RegistersEncoded`, `NameEncoded`). In
the direction from left to right an opcode that is not shown in full needs a word that comes
back different, or junk that makes it so. `FaithfulForms` splits the opcodes into these cases.

### What is only model-checked

* The liveness properties `Termination`, `ProcessEnds` and `AssemblyOutcome`, and the
  liveness in `ImplementsLines`: TLAPS does not reason about ENABLED.
* `StatementsAreLines`: it is about the given documents, and the hypothesis of the theorems
  about text. That a text is read as a certain line cannot follow from anything but the text.

Every safety property of the runs is otherwise the subject of a theorem.

## 5. Plan

Done, in this order: the machine and its memory, the stack abstraction, the
loader, the symbol table and its abstraction, the encoder and assembler, the
pipeline, the first proofs; then hosts that load twice, operands of any kind and
constants, the lexer and the parser over text, `asm`, the disassembler and
`disasm_tool`; then the proofs about memory, loader, dictionary, assembler and `asm`; then
those about the text, the arguments, the search and the listing.

Next: the formats of `disasm_tool`, which so far share one model of a row, and the theorem
`ProgramIsLoaded` for programs that `AssembleText` reads from text instead of from lines.

## 6. Not modelled

What SYS and the tools print, and messages: the columns of the formats of
`disasm_tool`, its headers and summary, the digits of a hex file, line numbers.
Words and numbers are characters of `DezLexer`, so that how digits of a base are
read, and words of more than 255 characters, are left out; file names of the
tool's maximal length are too. Counters kept for printing (memory statistics).
Functions nothing calls (`parser_parse_line`, `parser_parse_label`,
`write_binary_file`, `symbol_table_validate`, `dez_disasm_memory`,
`dez_disasm_memory_system`, the slow paths of `memory_read_word` and
`memory_write_word` that no address reaches). Failing `malloc`, and I/O errors other
than a file that cannot be opened or ends early. The test and benchmark programs,
which are read for what they claim.
