------------------------- MODULE DezPipelineProofs --------------------------
(***************************************************************************)
(* Proofs about the way of a program from a command line to the virtual    *)
(* machine, for every source, layout and width: the exit status of asm     *)
(* tells what dez_vm will do with the file, and what dez_vm runs is the    *)
(* source program.                                                         *)
(***************************************************************************)
EXTENDS DezPipeline, DezAssemblerProofs, DezMemoryProofs


\* The memory layout of the assumptions, in the form the steps below use.
LEMMA Layout ==
    /\ MemWords \in Nat /\ CodeEnd \in Nat /\ DataEnd \in Nat
    /\ WordSpan \in Nat \ {0}
    /\ StackStart = DataEnd + 1 /\ StackEnd = MemWords - 1
    /\ CodeEnd < DataEnd /\ DataEnd < MemWords - 1 /\ MemWords < WordSpan
    /\ \A a \in Address : a \in Word
    /\ 0 \in Word
  BY MemoryAssumption, WordAssumption DEF StackStart, StackEnd, Address, Word

\* An instruction is only executed inside the loop.
LEMMA StepInLoop == ASSUME Step PROVE at = "step" /\ state = "RUNNING"
  BY DEF Step, DataStep, ControlStep, StackStep, Executing, SetRegister, Mov, Load, Store,
         Add, Sub, Mul, Div, DivByZero, And, Or, Xor, Not, Shl, Shr, Inc, Dec,
         LoadIndirect, StoreIndirect, LoadIndexed, StoreIndexed, LoadFrom, StoreTo,
         BadAddress, Cmp, Jump, Jmp, Jz, Jnz, Jl, Jg, Jle, Jge, Nop, Halt, SysStop,
         SysPrint, Unknown, PcOutOfBounds, Push, Pop, Call, Ret, StackOverflow, StackUnderflow

----------------------------------------------------------------------------
(* From the command line to the run. *)

HelpAsked == \E k \in DOMAIN argv : argv[k] \in HelpOptions

\* asm has not assembled while it reads its arguments, and it tells by its
\* status whether it wrote the file.
CommandInv ==
    /\ status \in Status
    /\ IsCommand(argv)
    /\ arg \in Nat
    /\ status \in {"arguments", "reading"} => stage = "pass1"
    /\ status = "success" => stage = "written" \/ HelpAsked
    /\ status = "failure" => stage # "written"

\* The file asm wrote: it has as many instructions as its header says, unless
\* it is a file of hex digits.
Written ==
    /\ output_file.exists
    /\ ToHex => output_file.header = HexHeader
    /\ ~ToHex => /\ output_file.header = output_size
                 /\ Len(output_file.body) \in Nat
                 /\ Len(output_file.body) >= 4 * output_size

OutputInv ==
    /\ stage = "written" => Written
    /\ stage # "written" => ~output_file.exists

\* The program dez_vm will accept.
Startable == ~ToHex /\ output_size \in 1 .. MaxProgramSize

\* dez_vm works on the file asm wrote.
StartedInv ==
    /\ ~file.exists => phase = "open"
    /\ file.exists => status = "success" /\ stage = "written" /\ file = output_file

\* How far the load got says which tests the program passed.
LoadInv ==
    /\ phase \in Phase
    /\ phase \in {"open", "header", "size", "code"} => position \in Nat
    /\ phase \in {"open", "header", "size"} => position = 0
    /\ phase \in {"size", "code"} => program_size = file.header
    /\ phase = "code" => /\ InstructionsRead <= program_size
                         /\ position = 4 * InstructionsRead
    /\ phase \in {"code", "strings", "protect", "run"} => Startable
    /\ phase = "main" => (state = "ERROR" <=> ~Startable)

\* An error left by the loader is the only one with no step counted.
StepsInv ==
    /\ step_count \in Nat
    /\ phase \notin {"main", "run", "exit"} => state # "ERROR"
    /\ phase \notin {"run", "exit"} => step_count = 0 /\ at = "while"
    /\ phase = "run" /\ state = "ERROR" /\ step_count = 0 => at = "count"
    /\ phase = "exit" /\ state = "ERROR" /\ step_count = 0 => ~Startable

PipelineInv ==
    AssemblerInv /\ CommandInv /\ OutputInv /\ StartedInv /\ LoadInv /\ StepsInv

LEMMA WriteHexFileOK == ASSUME AssemblerInv, WriteHexFile PROVE AssemblerInv'
  BY FileWriteOK DEF WriteHexFile

\* Neither of the two programs has done anything.
LEMMA InitPipelineInv == PipelineInit => PipelineInv
<1>. SUFFICES ASSUME PipelineInit PROVE PipelineInv
  OBVIOUS
<1>1. AssemblerInv
  BY InitAssemblerInv DEF PipelineInit, AsmInit
<1>2. CommandInv
  <2>1. IsCommand(argv)
    BY CommandAssumption DEF PipelineInit, AsmInit, AssemblerInit
  <2>. QED
    BY <2>1 DEF PipelineInit, AsmInit, AssemblerInit, CommandInv, Status
<1>3. OutputInv
  BY DEF PipelineInit, AsmInit, AssemblerInit, OutputInv, NoFile
<1>4. StartedInv /\ LoadInv /\ StepsInv
  BY PipelineAssumption
     DEF PipelineInit, LoaderInit, ResetCPU, StartedInv, LoadInv, StepsInv, Phase
<1>. QED
  BY <1>1, <1>2, <1>3, <1>4 DEF PipelineInv

\* The steps of main: the assembler rests.
LEMMA CommandStepOK ==
    ASSUME AssemblerInv, CommandInv, OutputInv,
           \/ Help \/ Verbose \/ Hex \/ OutputOption \/ OutputMissing \/ UnknownOption
           \/ InputArgument \/ OutputArgument \/ TooManyNames \/ NoInput \/ ArgumentsDone
           \/ ReadInput \/ MainReturns
    PROVE  AssemblerInv' /\ CommandInv' /\ OutputInv'
<1>1. UNCHANGED asmVars /\ argv' = argv
  BY DEF Help, Verbose, Hex, OutputOption, OutputMissing, UnknownOption, InputArgument,
         OutputArgument, TooManyNames, NoInput, ArgumentsDone, ReadInput, MainReturns, Exit
<1>2. UNCHANGED <<stage, output_file, output_size>>
  BY <1>1 DEF asmVars
<1>3. AssemblerInv'
  BY <1>1, AssemblerKept
<1>4. arg' \in Nat
  <2>1. arg' \in {arg, arg + 1, arg + 2}
    BY DEF Help, Verbose, Hex, OutputOption, OutputMissing, UnknownOption, InputArgument,
           OutputArgument, TooManyNames, NoInput, ArgumentsDone, ReadInput, MainReturns, Exit
  <2>. QED
    BY <2>1 DEF CommandInv
<1>5. ASSUME Help PROVE CommandInv'
  <2>1. /\ status = "arguments" /\ status' = "success"
        /\ arg < Len(argv) /\ Argument.is = "option" /\ Argument.option \in {"-h", "--help"}
    BY <1>5 DEF Help, AtOption, Exit
  <2>2. arg + 1 \in 1 .. Len(argv)
    BY <2>1 DEF CommandInv, IsCommand
  <2>3. Argument = Option(Argument.option)
    BY <2>1, <2>2 DEF CommandInv, IsCommand, IsArgument, Argument
  <2>4. Argument \in HelpOptions
    BY <2>1, <2>3 DEF HelpOptions
  <2>5. HelpAsked'
    BY <1>1, <2>2, <2>4 DEF HelpAsked, Argument, CommandInv, IsCommand
  <2>. QED
    BY <1>1, <1>2, <1>4, <2>1, <2>5 DEF CommandInv, Status
<1>6. ASSUME status = "arguments", status' \in {"arguments", "reading", "failure"}
      PROVE  CommandInv'
  BY <1>1, <1>2, <1>4, <1>6 DEF CommandInv, Status
<1>7. ASSUME status = "reading", status' \in {"assembling", "failure"}
      PROVE  CommandInv'
  BY <1>1, <1>2, <1>4, <1>7 DEF CommandInv, Status
<1>8. ASSUME MainReturns PROVE CommandInv'
  <2>1. status' = IF stage = "written" THEN "success" ELSE "failure"
    BY <1>8 DEF MainReturns, Exit, Succeeded
  <2>. QED
    BY <1>1, <1>2, <1>4, <2>1 DEF CommandInv, Status
<1>9. CommandInv'
  <2>1. \/ Help \/ MainReturns
        \/ status = "arguments" /\ status' \in {"arguments", "reading", "failure"}
        \/ status = "reading" /\ status' \in {"assembling", "failure"}
    BY DEF Verbose, Hex, OutputOption, OutputMissing, UnknownOption, InputArgument,
           OutputArgument, TooManyNames, NoInput, ArgumentsDone, ReadInput, Exit, AtOption, AtName
  <2>. QED
    BY <1>5, <1>6, <1>7, <1>8, <2>1
<1>10. OutputInv'
  <2>1. stage = "written" => status \notin {"arguments", "reading"}
    BY DEF CommandInv
  <2>2. status \notin {"arguments", "reading"} => output_name' = output_name
    BY DEF Help, Verbose, Hex, OutputOption, OutputMissing, UnknownOption, InputArgument,
           OutputArgument, TooManyNames, NoInput, ArgumentsDone, ReadInput, MainReturns, Exit,
           AtOption, AtName
  <2>. QED
    BY <1>2, <2>1, <2>2 DEF OutputInv, Written, ToHex
<1>. QED
  BY <1>3, <1>9, <1>10

LEMMA AssembleFileOK ==
    ASSUME AssemblerInv, CommandInv, OutputInv, AssembleFile
    PROVE  AssemblerInv' /\ CommandInv' /\ OutputInv'
<1>1. AssemblerInv'
  BY AssembleStringOK, WriteFileOK, WriteHexFileOK DEF AssembleFile
<1>2. status = "assembling" /\ UNCHANGED commandVars
  BY DEF AssembleFile
<1>3. CommandInv'
  BY <1>2 DEF commandVars, CommandInv
<1>4. CASE AssembleString
  <2>1. stage # "written" /\ stage' # "written" /\ output_file' = output_file
    BY <1>4
       DEF AssembleString, Blank, Label, Constant, CountInstruction, EmitInstruction,
           OutputOverflow, ParserError, SecondPass, Parsed, CopyString, CopyAborts,
           StringsTooLong, OtherSymbol, StringsDone, Defines, Counts, Emits, Overflows,
           Fails, StartsSecondPass, EndsSecondPass, AtLine, AtString, PassEnds, Passes, parserVars
  <2>. QED
    BY <1>1, <1>3, <2>1 DEF OutputInv
<1>5. CASE ToHex /\ WriteHexFile
  <2>1. ToHex' = ToHex
    BY <1>2 DEF commandVars, ToHex
  <2>. QED
    BY <1>1, <1>3, <1>5, <2>1 DEF WriteHexFile, OutputInv, Written
<1>6. CASE ~ToHex /\ WriteFile
  <2>1. ToHex' = ToHex /\ output_size' = output_size
    BY <1>2, <1>6 DEF commandVars, ToHex, WriteFile
  <2>2. CASE stage' = "written"
    <3>1. output_file' =
             [exists |-> TRUE, header |-> output_size,
              body |-> [b \in 1 .. 4 * output_size |-> output_buffer[b - 1]] \o StringData]
      BY <1>6, <2>2 DEF WriteFile
    <3>2. /\ output_file'.exists /\ output_file'.header = output_size
          /\ Len(output_file'.body) \in Nat /\ Len(output_file'.body) >= 4 * output_size
      BY <3>1, BodyBytes DEF Body
    <3>3. Written'
      BY <1>6, <2>1, <3>2 DEF Written
    <3>. QED
      BY <1>1, <1>3, <2>2, <3>3 DEF OutputInv
  <2>3. CASE stage' = "unwritten" /\ output_file' = output_file
    BY <1>1, <1>3, <1>6, <2>3 DEF WriteFile, OutputInv
  <2>. QED
    BY <1>6, <2>2, <2>3 DEF WriteFile
<1>. QED
  BY <1>4, <1>5, <1>6 DEF AssembleFile

\* dez_vm has not been started while asm runs.
LEMMA RunAssemblerOK == ASSUME PipelineInv, RunAssembler PROVE PipelineInv'
<1>1. phase = "open" /\ ~file.exists /\ UNCHANGED allVars
  BY DEF RunAssembler, NotStarted
<1>2. AssemblerInv' /\ CommandInv' /\ OutputInv'
  BY CommandStepOK, AssembleFileOK DEF RunAssembler, Asm, PipelineInv
<1>3. StartedInv' /\ LoadInv' /\ StepsInv'
  BY <1>1
     DEF PipelineInv, StartedInv, LoadInv, StepsInv, Phase, allVars, vars, loaderVars
<1>. QED
  BY <1>2, <1>3 DEF PipelineInv

\* asm rests once dez_vm runs.
LEMMA AsmRests ==
    ASSUME AssemblerInv, CommandInv, OutputInv, UNCHANGED <<asmVars, commandVars>>
    PROVE  /\ AssemblerInv' /\ CommandInv' /\ OutputInv'
           /\ Startable' = Startable /\ UNCHANGED <<output_file, status, stage>>
<1>1. UNCHANGED <<stage, output_file, output_size, argv, arg, output_name, status>>
  BY DEF asmVars, commandVars
<1>2. ToHex' = ToHex
  BY <1>1 DEF ToHex
<1>. QED
  BY <1>1, <1>2, AssemblerKept
     DEF CommandInv, HelpAsked, OutputInv, Written, Startable

\* dez_vm is started on the file.
LEMMA StartVMOK == ASSUME PipelineInv, StartVM PROVE PipelineInv'
<1>1. /\ status = "success" /\ phase = "open" /\ output_file.exists /\ file' = output_file
      /\ UNCHANGED <<asmVars, commandVars>>
      /\ UNCHANGED <<vars, phase, program_size, position, current_addr>>
  BY DEF StartVM, NotStarted
<1>2. AssemblerInv' /\ CommandInv' /\ OutputInv' /\ UNCHANGED <<output_file, status, stage>>
  BY <1>1, AsmRests DEF PipelineInv
<1>3. StartedInv'
  BY <1>1, <1>2 DEF PipelineInv, OutputInv, StartedInv
<1>4. LoadInv' /\ StepsInv'
  BY <1>1 DEF PipelineInv, LoadInv, StepsInv, vars
<1>. QED
  BY <1>2, <1>3, <1>4 DEF PipelineInv

\* What dez_vm is given, and what its test of the program size says of it.
LEMMA FileWritten ==
    ASSUME PipelineInv, file.exists
    PROVE  /\ status = "success" /\ stage = "written" /\ file = output_file
           /\ file.header # NoHeader
           /\ ValidSize(file.header) <=> Startable
           /\ Startable => /\ file.header = output_size /\ output_size \in Nat
                           /\ Len(file.body) \in Nat /\ Len(file.body) >= 4 * output_size
<1>1. status = "success" /\ stage = "written" /\ file = output_file /\ Written
  BY DEF PipelineInv, StartedInv, OutputInv
<1>2. output_size \in Nat
  BY AssemblerAssumption DEF PipelineInv, AssemblerInv, AssemblerTypeOK
<1>3. HexHeader \in Nat /\ HexHeader > MaxProgramSize /\ MaxProgramSize \in Nat
  BY PipelineAssumption, LoaderAssumption, Layout DEF Word
<1>. QED
  BY <1>1, <1>2, <1>3 DEF Written, NoHeader, ValidSize, Startable

\* A step of the load: asm rests, and no step of the machine is counted.
LEMMA LoadStepOK ==
    ASSUME PipelineInv, file.exists, LoadProgram, UNCHANGED <<asmVars, commandVars>>
    PROVE  PipelineInv'
<1>1. /\ AssemblerInv' /\ CommandInv' /\ OutputInv' /\ Startable' = Startable
      /\ UNCHANGED <<output_file, status, stage>>
  BY AsmRests DEF PipelineInv
<1>2. file' = file
  BY DEF LoadProgram, OpenFile, ReadHeader, CheckSize, ReadInstruction, InstructionsDone,
         ReadStringByte, Protect, LoadError
<1>3. StartedInv'
  BY <1>1, <1>2 DEF PipelineInv, StartedInv
<1>4. UNCHANGED <<step_count, at>>
  BY DEF LoadProgram, OpenFile, ReadHeader, CheckSize, ReadInstruction, InstructionsDone,
         ReadStringByte, Protect, LoadError, cpuVars, vars
<1>5. phase \notin {"main", "run", "exit"} /\ phase' \notin {"run", "exit"}
  BY DEF LoadProgram, OpenFile, ReadHeader, CheckSize, ReadInstruction, InstructionsDone,
         ReadStringByte, Protect, LoadError, PipelineInv, LoadInv, Phase
<1>6. state' # "ERROR" \/ (phase' = "main" /\ LoadError)
  BY <1>5
     DEF LoadProgram, OpenFile, ReadHeader, CheckSize, ReadInstruction, InstructionsDone,
         ReadStringByte, Protect, LoadError, PipelineInv, StepsInv, vars
<1>7. StepsInv'
  BY <1>4, <1>5, <1>6 DEF PipelineInv, StepsInv
<1>8. LoadInv'
  <2>. LoadInv
    BY DEF PipelineInv
  <2>1. CASE OpenFile \/ ReadHeader
    <3>1. file.header # NoHeader
      BY FileWritten
    <3>. QED
      BY <1>1, <1>2, <2>1, <3>1 DEF OpenFile, ReadHeader, LoadInv, Phase
  <2>2. CASE CheckSize
    <3>1. ValidSize(program_size) <=> Startable
      BY <2>2, FileWritten DEF CheckSize, LoadInv
    <3>2. CASE ~ValidSize(program_size)
      <4>1. phase' = "main" /\ state' = "ERROR"
        BY <2>2, <3>2 DEF CheckSize, LoadError
      <4>. QED
        BY <1>1, <3>1, <3>2, <4>1 DEF LoadInv, Phase
    <3>3. CASE ValidSize(program_size)
      <4>1. phase' = "code" /\ phase = "size" /\ UNCHANGED <<file, program_size, position>>
        BY <2>2, <3>3 DEF CheckSize
      <4>2. position = 0 /\ program_size = file.header /\ program_size \in Nat
        BY <3>1, <3>3, <4>1, FileWritten DEF LoadInv
      <4>. QED
        BY <1>1, <3>1, <3>3, <4>1, <4>2 DEF LoadInv, Phase, InstructionsRead
    <3>. QED
      BY <3>2, <3>3
  <2>3. CASE ReadInstruction
    <3>1. /\ phase = "code" /\ Startable /\ program_size = file.header
          /\ position \in Nat /\ position = 4 * InstructionsRead /\ InstructionsRead < program_size
      BY <2>3 DEF ReadInstruction, LoadInv
    <3>2. program_size \in Nat /\ Len(file.body) \in Nat /\ Len(file.body) >= 4 * program_size
      BY <3>1, FileWritten
    <3>3. position + 4 <= Len(file.body) /\ InstructionsRead \in Nat
      BY <3>1, <3>2 DEF InstructionsRead
    <3>4. position' = position + 4 /\ phase' = "code" /\ program_size' = program_size
      BY <2>3, <3>1, <3>2, <3>3 DEF ReadInstruction
    <3>5. InstructionsRead' = InstructionsRead + 1
      BY <3>1, <3>4 DEF InstructionsRead
    <3>6. position' \in Nat /\ position' = 4 * InstructionsRead' /\ InstructionsRead' <= program_size
      BY <3>1, <3>2, <3>3, <3>4, <3>5
    <3>. QED
      BY <1>1, <1>2, <3>1, <3>4, <3>6 DEF LoadInv, Phase
  <2>4. CASE InstructionsDone
    BY <1>1, <2>4 DEF InstructionsDone, LoadInv, Phase
  <2>5. CASE ReadStringByte
    BY <1>1, <2>5 DEF ReadStringByte, LoadInv, Phase
  <2>6. CASE Protect
    BY <1>1, <1>6, <2>6 DEF Protect, LoadInv, Phase, PipelineInv, StepsInv
  <2>. QED
    BY <2>1, <2>2, <2>3, <2>4, <2>5, <2>6 DEF LoadProgram
<1>. QED
  BY <1>1, <1>3, <1>7, <1>8 DEF PipelineInv

\* Only dez_vm_run counts steps, after each one.
LEMMA StepCounted == ASSUME Step PROVE at = "step" /\ at' = "count" /\ step_count' = step_count
<1>1. at' = "count" /\ step_count' = step_count
  BY DEF Step, DataStep, ControlStep, StackStep, SetRegister, Mov, Load, Store,
         Add, Sub, Mul, Div, DivByZero, And, Or, Xor, Not, Shl, Shr, Inc, Dec,
         LoadIndirect, StoreIndirect, LoadIndexed, StoreIndexed, LoadFrom, StoreTo,
         BadAddress, Cmp, Jump, Jmp, Jz, Jnz, Jl, Jg, Jle, Jge, Nop, Halt, SysStop,
         SysPrint, Unknown, PcOutOfBounds, Push, Pop, Call, Ret, StackOverflow, StackUnderflow,
         Retire, Trap, Halted
<1>. QED
  BY <1>1, StepInLoop

\* A run that ends without having counted a step met an error before it, and
\* main does not run a machine in state ERROR.
LEMMA RunStepOK ==
    ASSUME PipelineInv, file.exists, StartOrGiveUp \/ Run \/ ReturnFromMain,
           UNCHANGED <<asmVars, commandVars>>
    PROVE  PipelineInv'
<1>1. /\ AssemblerInv' /\ CommandInv' /\ OutputInv' /\ Startable' = Startable
      /\ UNCHANGED <<output_file, status, stage>>
  BY AsmRests DEF PipelineInv
<1>2. UNCHANGED <<file, program_size, position>>
  BY DEF StartOrGiveUp, Run, ReturnFromMain, loaderVars
<1>3. StartedInv' /\ StepsInv /\ LoadInv
  BY <1>1, <1>2 DEF PipelineInv, StartedInv
<1>4. CASE StartOrGiveUp
  BY <1>1, <1>2, <1>3, <1>4
     DEF PipelineInv, StartOrGiveUp, LoadSucceeded, LoadInv, StepsInv, Phase, vars
<1>5. CASE ReturnFromMain
  BY <1>1, <1>2, <1>3, <1>5 DEF PipelineInv, ReturnFromMain, LoadInv, StepsInv, Phase, vars
<1>6. CASE Run
  <2>1. phase = "run" /\ phase' = "run" /\ Startable
    BY <1>3, <1>6 DEF Run, loaderVars, LoadInv
  <2>2. LoadInv'
    BY <1>1, <2>1 DEF LoadInv, Phase
  <2>3. StepsInv'
    <3>1. CASE LoopTest
      BY <1>3, <2>1, <3>1 DEF LoopTest, StepsInv
    <3>2. CASE Step
      BY <1>3, <2>1, <3>2, StepCounted DEF StepsInv
    <3>3. CASE CountStep
      BY <1>3, <2>1, <3>3 DEF CountStep, StepsInv
    <3>. QED
      BY <1>6, <3>1, <3>2, <3>3 DEF Run
  <2>. QED
    BY <1>1, <1>3, <2>2, <2>3 DEF PipelineInv
<1>. QED
  BY <1>4, <1>5, <1>6

\* Every step of the two programs keeps the invariant.
LEMMA NextPipelineInv == PipelineInv /\ [PipelineNext]_pipelineVars => PipelineInv'
<1>. SUFFICES ASSUME PipelineInv, [PipelineNext]_pipelineVars PROVE PipelineInv'
  OBVIOUS
<1>1. CASE RunVM
  BY <1>1, LoadStepOK, RunStepOK DEF RunVM
<1>2. CASE UNCHANGED pipelineVars
  <2>1. /\ UNCHANGED <<asmVars, commandVars>>
        /\ UNCHANGED <<file, phase, position, program_size, state, step_count, at>>
    BY <1>2 DEF pipelineVars, allVars, vars, loaderVars
  <2>2. /\ AssemblerInv' /\ CommandInv' /\ OutputInv' /\ Startable' = Startable
        /\ UNCHANGED <<output_file, status, stage>>
    BY <2>1, AsmRests DEF PipelineInv
  <2>3. InstructionsRead' = InstructionsRead
    BY <2>1 DEF InstructionsRead
  <2>. QED
    BY <2>1, <2>2, <2>3 DEF PipelineInv, StartedInv, LoadInv, StepsInv, Phase
<1>. QED
  BY <1>1, <1>2, RunAssemblerOK, StartVMOK DEF PipelineNext, Finished

\* The exit status of asm tells whether it wrote the file, and what it wrote
\* decides how far dez_vm gets: a binary file with 1 to 1024 instructions is
\* run, anything else is refused, whatever the command line and the source.
THEOREM AsmIsTruthful == PipelineSpec => []AsmTellsTheTruth
<1>1. PipelineInv => AsmTellsTheTruth
  BY DEF PipelineInv, CommandInv, OutputInv, Written, LoadInv, StepsInv, HelpAsked, Startable,
         AsmTellsTheTruth
<1>. QED
  BY <1>1, InitPipelineInv, NextPipelineInv, PTL DEF PipelineSpec

----------------------------------------------------------------------------
(* The addresses of strings. *)

StringAddress == {a \in Nat : a >= StringStart}

\* The strings of the table lie one behind the other, e[k] being the address
\* after those of the first k symbols.
Packs(e, t) ==
    /\ e[0] = StringStart
    /\ e[Len(t.symbols)] = t.next_string_addr
    /\ \A k \in 1 .. Len(t.symbols) :
          /\ IsString(t.symbols[k]) =>
                /\ t.symbols[k].address = e[k - 1]
                /\ e[k] = e[k - 1] + Len(t.symbols[k].text) + 1
          /\ ~IsString(t.symbols[k]) => e[k] = e[k - 1]

Packed(t) == \E e \in [0 .. Len(t.symbols) -> StringAddress] : Packs(e, t)

\* They are literals of the first l lines.
Sourced(t, src, l) ==
    \A k \in 1 .. Len(t.symbols) :
        IsString(t.symbols[k]) => \E j \in LiteralLines(src, t.symbols[k].name) : j <= l

\* The second pass starts without strings.
LEMMA PackedStart ==
    ASSUME NEW t, TableInv(t), NEW src, NEW l, FirstPassTable(t, src, l),
           t.next_string_addr = StringStart
    PROVE  Packed(t) /\ Sourced(t, src, 0)
<1>. DEFINE e == [k \in 0 .. Len(t.symbols) |-> StringStart]
<1>1. Len(t.symbols) \in Nat
  BY TableLength
<1>2. \A k \in 1 .. Len(t.symbols) : ~IsString(t.symbols[k])
  BY DEF FirstPassTable, IsString
<1>3. StringStart \in StringAddress
  BY SymbolTableAssumption DEF StringAddress
<1>4. \A k \in 1 .. Len(t.symbols) : k \in 0 .. Len(t.symbols) /\ k - 1 \in 0 .. Len(t.symbols)
  BY <1>1
<1>5. e \in [0 .. Len(t.symbols) -> StringAddress] /\ Packs(e, t)
  BY <1>1, <1>2, <1>3, <1>4 DEF Packs
<1>. HIDE DEF e
<1>6. Packed(t)
  BY <1>5 DEF Packed
<1>. QED
  BY <1>2, <1>6 DEF Sourced

\* Packing looks at the symbols and the next address only.
LEMMA PackedKept ==
    ASSUME NEW t, NEW u, u.symbols = t.symbols, u.next_string_addr = t.next_string_addr,
           NEW src, NEW l \in Nat, Packed(t), Sourced(t, src, l)
    PROVE  Packed(u) /\ Sourced(u, src, l + 1)
<1>1. Packed(u)
  BY DEF Packed, Packs
<1>2. \A n : \A j \in LiteralLines(src, n) : j \in Nat
  BY DEF LiteralLines, InstructionLines, Reached
<1>3. \A j \in Nat : j <= l => j <= l + 1
  OBVIOUS
<1>4. Sourced(u, src, l + 1)
  BY <1>2, <1>3 DEF Sourced
<1>. QED
  BY <1>1, <1>4

\* A new string goes behind the others.
LEMMA PackedAppend ==
    ASSUME NEW t, NEW u, Len(t.symbols) \in Nat, t.next_string_addr \in Nat,
           Len(u.symbols) = Len(t.symbols) + 1,
           \A k \in 1 .. Len(t.symbols) : u.symbols[k] = t.symbols[k],
           NEW s, u.symbols[Len(t.symbols) + 1] = s, IsString(s), Len(s.text) \in Nat,
           s.address = t.next_string_addr,
           u.next_string_addr = t.next_string_addr + Len(s.text) + 1,
           Packed(t)
    PROVE  Packed(u)
<1>. DEFINE n == Len(t.symbols)
            a == u.next_string_addr
<1>1. PICK e \in [0 .. n -> StringAddress] : Packs(e, t)
  BY DEF Packed
<1>. DEFINE f == [k \in 0 .. n + 1 |-> IF k = n + 1 THEN a ELSE e[k]]
<1>2. e[n] = t.next_string_addr /\ e[n] \in StringAddress /\ e[0] = StringStart
  BY <1>1 DEF Packs
<1>3. a \in StringAddress /\ a = e[n] + Len(s.text) + 1
  BY <1>2, SymbolTableAssumption DEF StringAddress
<1>. HIDE DEF a
<1>4. /\ f \in [0 .. n + 1 -> StringAddress]
      /\ f[n + 1] = a
      /\ \A k \in 0 .. n : f[k] = e[k]
  <2>1. \A k \in 0 .. n : k \in 0 .. n + 1 /\ k # n + 1
    OBVIOUS
  <2>2. \A k \in 0 .. n + 1 : k = n + 1 \/ k \in 0 .. n
    OBVIOUS
  <2>3. n + 1 \in 0 .. n + 1
    OBVIOUS
  <2>. HIDE DEF n
  <2>. QED
    BY <1>3, <2>1, <2>2, <2>3
<1>. HIDE DEF f
<1>5. ASSUME NEW k \in 1 .. n + 1
      PROVE  /\ IsString(u.symbols[k]) =>
                   /\ u.symbols[k].address = f[k - 1]
                   /\ f[k] = f[k - 1] + Len(u.symbols[k].text) + 1
             /\ ~IsString(u.symbols[k]) => f[k] = f[k - 1]
  <2>1. CASE k = n + 1
    <3>1. u.symbols[k] = s /\ k - 1 = n /\ n \in 0 .. n
      BY <2>1
    <3>. QED
      BY <1>2, <1>3, <1>4, <2>1, <3>1
  <2>2. CASE k \in 1 .. n
    <3>1. u.symbols[k] = t.symbols[k] /\ k - 1 \in 0 .. n /\ k \in 0 .. n
      BY <2>2
    <3>2. f[k] = e[k] /\ f[k - 1] = e[k - 1]
      BY <1>4, <3>1
    <3>. QED
      BY <1>1, <2>2, <3>1, <3>2 DEF Packs
  <2>. QED
    BY <2>1, <2>2
<1>6. f[0] = StringStart
  BY <1>2, <1>4
<1>7. Packs(f, u)
  BY <1>4, <1>5, <1>6 DEF Packs, a
<1>. QED
  BY <1>4, <1>7 DEF Packed

\* An instruction without a literal leaves the symbols alone.
LEMMA EncodedOther ==
    ASSUME NEW t, TableInv(t), NEW i, IsInstruction(i), ~IsLiteral(i)
    PROVE  /\ AfterEncode(t, i).symbols = t.symbols
           /\ AfterEncode(t, i).next_string_addr = t.next_string_addr
<1>. DEFINE u == AfterEncode(t, i)
<1>1. \A o \in Symbolic(i) : o.type # "STRING"
  BY LiteralOperand
<1>2. CASE Symbolic(i) = {}
  BY <1>2 DEF AfterEncode
<1>3. CASE Symbolic(i) # {}
  <2>1. (CHOOSE o \in Symbolic(i) : TRUE) \in Symbolic(i)
    BY <1>3
  <2>2. \E m : u = AfterFind(t, m)
    BY <1>1, <1>3, <2>1 DEF AfterEncode
  <2>. QED
    BY <2>2, FindKeeps DEF TableInv
<1>. QED
  BY <1>2, <1>3

\* If literals have symbols of their own, encoding one puts it behind the
\* others.
LEMMA PackedEncodes ==
    ASSUME NamesFit, NEW src, IsSource(src), LiteralsApart(src), NEW l, Passed(src, l),
           l < Len(src), src[l + 1].kind = "instruction",
           NEW t, TableInv(t), SecondPassTable(t, src, l), ~Full(t),
           Packed(t), Sourced(t, src, l),
           NEW u, u = AfterEncode(t, src[l + 1].instruction)
    PROVE  Packed(u) /\ Sourced(u, src, l + 1)
<1>. DEFINE i == src[l + 1].instruction
            n0 == LiteralName(i)
            s == [name |-> n0, type |-> "STRING",
                  address |-> t.next_string_addr, text |-> LastArg(i).string]
<1>1. l \in Nat /\ IsInstruction(i) /\ l + 1 \in InstructionLines(src)
  <2>1. l \in Nat /\ l + 1 \in 1 .. Len(src)
    BY DEF Passed, IsSource
  <2>2. l + 1 \in Reached(src)
    BY PassedNext
  <2>. QED
    BY <2>1, <2>2 DEF IsSource, InstructionLines
<1>2. CASE ~IsLiteral(i)
  BY <1>1, <1>2, EncodedOther, PackedKept
<1>3. CASE IsLiteral(i)
  <2>1. l + 1 \in LiteralLines(src, n0) /\ n0 \in Names /\ LastArg(i).string \in Seq(Byte)
    <3>1. n0 \in Names /\ LastArg(i).string \in Seq(Byte)
      BY <1>1, <1>3, LiteralOperand
    <3>. QED
      BY <1>1, <1>3, <3>1 DEF LiteralLines, IsLiteral, LiteralName
  <2>2. LiteralLines(src, n0) = {l + 1} /\ DefiningLines(src, n0) = {}
    BY <2>1 DEF LiteralsApart
  <2>3. Matches(t, n0) = {}
    <3>. SUFFICES ASSUME NEW j \in 1 .. Len(t.symbols), t.symbols[j].name = n0 PROVE FALSE
      BY DEF Matches
    <3>1. t.symbols[j].type = "STRING"
      BY <2>2 DEF SecondPassTable
    <3>2. \E k \in LiteralLines(src, n0) : k <= l
      BY <3>1 DEF Sourced, IsString
    <3>. QED
      BY <1>1, <2>2, <3>2
  <2>4. /\ s \in Entry(Seq(Byte)) /\ u.symbols = Append(t.symbols, s)
        /\ u.next_string_addr = t.next_string_addr + Len(s.text) + 1
    <3>. HIDE DEF i
    <3>1. LET v == AfterEncode(t, i)
              z == [name |-> LiteralName(i), type |-> "STRING",
                    address |-> t.next_string_addr, text |-> LastArg(i).string]
          IN  /\ TableInv(v)
              /\ v.next_string_addr >= t.next_string_addr
              /\ \/ /\ v.symbols = t.symbols
                    /\ IsLiteral(i) => Full(t) \/ Matches(t, LiteralName(i)) # {}
                 \/ /\ IsLiteral(i) /\ ~Full(t) /\ Matches(t, LiteralName(i)) = {}
                    /\ z \in Entry(Seq(Byte))
                    /\ v.symbols = Append(t.symbols, z)
                    /\ v.next_string_addr = t.next_string_addr + Len(z.text) + 1
      BY <1>1, EncodedSymbols
    <3>2. u = AfterEncode(t, i)
      BY DEF i
    <3>. QED
      BY <1>3, <2>3, <3>1, <3>2
  <2>5. /\ t.symbols \in Seq(Entry(Seq(Byte))) /\ Len(t.symbols) \in Nat
        /\ t.next_string_addr \in Nat
    BY DEF TableInv, Shape
  <2>6. s.name = n0 /\ IsString(s) /\ s.address = t.next_string_addr /\ Len(s.text) \in Nat
    BY <2>1 DEF IsString
  <2>. HIDE DEF s, i, n0
  <2>7. /\ Len(u.symbols) = Len(t.symbols) + 1 /\ u.symbols[Len(t.symbols) + 1] = s
        /\ \A k \in 1 .. Len(t.symbols) : u.symbols[k] = t.symbols[k]
    BY <2>4, <2>5
  <2>8. Packed(u)
    BY <2>4, <2>5, <2>6, <2>7, PackedAppend
  <2>9. ASSUME NEW k \in 1 .. Len(u.symbols), IsString(u.symbols[k])
        PROVE  \E j \in LiteralLines(src, u.symbols[k].name) : j <= l + 1
    <3>1. CASE k = Len(t.symbols) + 1
      BY <1>1, <2>1, <2>6, <2>7, <3>1
    <3>2. CASE k \in 1 .. Len(t.symbols)
      <4>1. PICK j \in LiteralLines(src, u.symbols[k].name) : j <= l
        BY <2>7, <2>9, <3>2 DEF Sourced
      <4>2. j \in Nat
        BY <4>1 DEF LiteralLines, InstructionLines, Reached
      <4>3. j <= l + 1
        BY <1>1, <4>1, <4>2
      <4>. QED
        BY <4>1, <4>3
    <3>. QED
      BY <2>5, <2>7, <3>1, <3>2
  <2>. QED
    BY <2>8, <2>9 DEF Sourced
<1>. QED
  BY <1>2, <1>3

----------------------------------------------------------------------------
(* The assembler's layout of the strings. *)

\* After the passes, until the assembler fails.
Laid == stage \in {"strings", "write", "written"}

\* The words stay in the buffer, while strings are copied into it, if they
\* end before the strings begin.
WordsKept ==
    /\ Passed(source, line) /\ Reached(source) = 1 .. line
    /\ CountTo(source, line) <= output_size
    /\ ~Full(symbol_table) =>
          /\ SecondPassTable(symbol_table, source, line)
          /\ LiteralsApart(source) /\ CountTo(source, line) <= WordAddress(StringBase) =>
                EmittedWords(source, line, symbol_table, output_buffer)

LayoutInv ==
    /\ stage = "pass1" => symbol_table.next_string_addr = StringStart
    /\ (stage = "pass2" \/ Laid) /\ ~Full(symbol_table) /\ LiteralsApart(source) =>
          Packed(symbol_table) /\ Sourced(symbol_table, source, line)
    /\ Laid => WordsKept

\* The assembler starts before the first string address.
LEMMA InitLayoutInv == ASSUME AssemblerInit PROVE LayoutInv
  BY DEF AssemblerInit, EmptySymbolTable, LayoutInv, Laid

\* A line without an instruction, in the second pass.
LEMMA QuietLayout ==
    ASSUME AssemblerInv, LayoutInv, NEW kind, AtLine(kind), stage = "pass2",
           line' = line + 1, UNCHANGED <<source, stage, symbol_table>>
    PROVE  LayoutInv'
<1>1. line \in Nat
  BY AtLineFacts
<1>2. ASSUME ~Full(symbol_table), LiteralsApart(source)
      PROVE  Packed(symbol_table) /\ Sourced(symbol_table, source, line + 1)
  <2>1. Packed(symbol_table) /\ Sourced(symbol_table, source, line)
    BY <1>2 DEF LayoutInv
  <2>. QED
    BY <1>1, <2>1, PackedKept
<1>3. stage' = "pass2" /\ ~Laid'
  BY DEF Laid
<1>. QED
  BY <1>2, <1>3 DEF LayoutInv

\* The first pass does not allocate strings.
LEMMA FirstLayout ==
    ASSUME stage = "pass1", stage' = "pass1",
           symbol_table'.next_string_addr = symbol_table.next_string_addr, LayoutInv
    PROVE  LayoutInv'
  BY DEF LayoutInv, Laid

\* Labels and constants allocate no strings.
LEMMA DefinitionLayout == ASSUME AssemblerInv, LayoutInv, Label \/ Constant PROVE LayoutInv'
<1>1. PICK kind \in {"label", "constant"} :
          AtLine(kind) /\ Defines(source[line + 1]) /\ line' = line + 1 /\ source' = source
  BY DEF Label, Constant, NextLine
<1>2. stage' = stage
  BY <1>1 DEF Defines
<1>. DEFINE l == source[line + 1]
<1>3. CASE stage = "pass2"
  <2>1. symbol_table' = symbol_table
    BY <1>1, <1>3 DEF Defines
  <2>. QED
    BY <1>1, <1>2, <1>3, <2>1, QuietLayout
<1>4. CASE stage = "pass1"
  <2>1. l.name \in Names /\ (l.kind = "constant" => l.value \in Nat) /\ LabelAddress \in Nat
    BY <1>1, AtLineFacts DEF IsSource, LabelAddress
  <2>2. Shape(Seq(Byte), symbol_table)
    BY DEF AssemblerInv, TableInv
  <2>3. symbol_table' = IF l.kind = "label"
                          THEN AfterAdd(symbol_table, l.name, "LABEL", LabelAddress, <<>>)
                          ELSE AfterAdd(symbol_table, l.name, "CONSTANT", l.value, <<>>)
    BY <1>1, <1>4 DEF Defines, AfterDefineLabel, AfterDefineConstant
  <2>4. l.kind = "label" \/ l.kind = "constant"
    BY <1>1, AtLineFacts
  <2>. HIDE DEF l
  <2>5. ASSUME NEW type \in SymbolType, NEW a \in Nat
        PROVE  AfterAdd(symbol_table, l.name, type, a, <<>>).next_string_addr
                 = symbol_table.next_string_addr
    <3>1. <<>> \in Seq(Byte) \union {<<>>}
      OBVIOUS
    <3>. DEFINE v == AfterAdd(symbol_table, l.name, type, a, <<>>)
    <3>2. LET z == [name |-> Stored[l.name], type |-> type, address |-> a, text |-> <<>>]
          IN  /\ Shape(Seq(Byte), v)
              /\ v.next_string_addr = symbol_table.next_string_addr
              /\ z \in Entry(Seq(Byte))
              /\ Added(symbol_table, l.name) => v.symbols = Append(symbol_table.symbols, z)
              /\ ~Added(symbol_table, l.name) => v.symbols = symbol_table.symbols
      BY <2>1, <2>2, <3>1, AddCases
    <3>. QED
      BY <3>2
  <2>6. "LABEL" \in SymbolType /\ "CONSTANT" \in SymbolType
    BY DEF SymbolType
  <2>7. symbol_table'.next_string_addr = symbol_table.next_string_addr
    <3>1. CASE l.kind = "label"
      BY <2>1, <2>3, <2>5, <2>6, <3>1
    <3>2. CASE l.kind = "constant"
      BY <2>1, <2>3, <2>5, <2>6, <3>2
    <3>. QED
      BY <2>4, <3>1, <3>2
  <2>. QED
    BY <1>2, <1>4, <2>7, FirstLayout
<1>. QED
  BY <1>1, <1>3, <1>4 DEF AtLine, Passes

\* Nor do blank lines and instructions that are only counted.
LEMMA LineLayout ==
    ASSUME AssemblerInv, LayoutInv, Blank \/ CountInstruction PROVE LayoutInv'
<1>1. PICK kind \in {"blank", "instruction"} :
          AtLine(kind) /\ line' = line + 1 /\ UNCHANGED <<source, stage, symbol_table>>
          /\ (kind = "instruction" => stage = "pass1")
  BY DEF Blank, CountInstruction, Counts, NextLine, parserVars
<1>. QED
  BY <1>1, FirstLayout, QuietLayout DEF AtLine, Passes

\* Emitting an instruction packs its literal behind the others.
LEMMA EmitLayout ==
    ASSUME NamesFit, AssemblerInv, ProgramInv, LayoutInv, EmitInstruction PROVE LayoutInv'
<1>. DEFINE i == source[line + 1].instruction
            t == symbol_table
            u == AfterEncode(t, i)
<1>1. /\ AtLine("instruction") /\ line' = line + 1 /\ source' = source
      /\ stage = "pass2" /\ stage' = "pass2" /\ symbol_table' = u
  BY DEF EmitInstruction, NextLine, Emits
<1>2. /\ IsSource(source) /\ line \in Nat /\ line < Len(source)
      /\ source[line + 1].kind = "instruction" /\ IsInstruction(i)
  BY <1>1, AtLineFacts DEF AtLine, IsSource
<1>3. TableInv(t) /\ Passed(source, line)
  BY <1>1 DEF AssemblerInv, ProgramInv, Passes
<1>4. ASSUME ~Full(u), LiteralsApart(source)
      PROVE  Packed(u) /\ Sourced(u, source, line + 1)
  <2>1. ~Full(t)
    BY <1>2, <1>3, <1>4, EncodedKeeps
  <2>2. /\ SecondPassTable(t, source, line)
        /\ Packed(t) /\ Sourced(t, source, line)
    BY <1>1, <1>4, <2>1 DEF ProgramInv, Emitting, LayoutInv
  <2>. QED
    BY <1>2, <1>3, <1>4, <2>1, <2>2, PackedEncodes
<1>. HIDE DEF u
<1>. QED
  BY <1>1, <1>4 DEF LayoutInv, Laid

\* When the passes end, all literals are packed and all words emitted.
LEMMA PassEndsLayout ==
    ASSUME AssemblerInv, ProgramInv, ProgramInv', LayoutInv, SecondPass \/ Parsed
    PROVE  LayoutInv'
<1>1. CASE SecondPass
  <2>1. /\ stage = "pass1" /\ stage' = "pass2" /\ line' = 0
        /\ UNCHANGED <<source, symbol_table>>
    BY <1>1 DEF SecondPass, StartsSecondPass
  <2>2. ASSUME ~Full(symbol_table)
        PROVE  Packed(symbol_table) /\ Sourced(symbol_table, source, 0)
    <3>1. /\ TableInv(symbol_table) /\ FirstPassTable(symbol_table, source, line)
          /\ symbol_table.next_string_addr = StringStart
      BY <2>1, <2>2 DEF AssemblerInv, ProgramInv, LayoutInv
    <3>. QED
      BY <3>1, PackedStart
  <2>. QED
    BY <2>1, <2>2 DEF LayoutInv, Laid
<1>2. CASE Parsed
  <2>1. /\ stage = "pass2" /\ stage' = "strings" /\ symbol' = symbol
        /\ UNCHANGED <<source, line, symbol_table, output_buffer, output_size>>
    BY <1>2 DEF Parsed, EndsSecondPass
  <2>2. symbol = 1
    BY <2>1 DEF AssemblerInv, Passes
  <2>3. Emitting'
    BY <2>1, <2>2 DEF Emitting
  <2>4. CountTo(source, line) \in Nat
    <3>1. line \in Nat
      BY DEF AssemblerInv, AssemblerTypeOK, IsSource
    <3>. QED
      BY <3>1, Counting
  <2>5. WordsKept'
    BY <2>1, <2>2, <2>3, <2>4 DEF ProgramInv, WordsKept
  <2>. QED
    BY <2>1, <2>5 DEF LayoutInv
<1>. QED
  BY <1>1, <1>2

\* The strings are copied behind the words.
LEMMA CopiedBehind ==
    ASSUME AssemblerInv, LayoutInv, CopyString, ~Full(symbol_table), LiteralsApart(source),
           CountTo(source, line) <= WordAddress(StringBase),
           EmittedWords(source, line, symbol_table, output_buffer)
    PROVE  EmittedWords(source, line, symbol_table, output_buffer')
<1>. DEFINE s == symbol_table.symbols[symbol]
            n == CountTo(source, line)
<1>1. /\ AtString /\ stage = "strings"
      /\ output_buffer' =
            [b \in DOMAIN output_buffer |->
                IF b \in FirstByte(s) .. LastByte(s)
                  THEN Terminated(s.text)[b - FirstByte(s) + 1]
                  ELSE output_buffer[b]]
  BY DEF CopyString, AtString
<1>2. symbol \in 1 .. Len(symbol_table.symbols) /\ s.address \in Nat /\ Len(s.text) \in Nat
  BY <1>1, StringTyped
<1>3. s.address >= StringBase
  <2>1. Packed(symbol_table)
    BY <1>1 DEF LayoutInv, Laid
  <2>2. PICK e \in [0 .. Len(symbol_table.symbols) -> StringAddress] : Packs(e, symbol_table)
    BY <2>1 DEF Packed
  <2>3. symbol - 1 \in 0 .. Len(symbol_table.symbols)
    BY <1>2, TableLength DEF AssemblerInv
  <2>4. s.address = e[symbol - 1]
    BY <1>1, <1>2, <2>2 DEF Packs, AtString
  <2>5. s.address \in StringAddress
    BY <2>2, <2>3, <2>4
  <2>. QED
    BY <2>5, PipelineAssumption DEF StringAddress
<1>4. /\ line \in Nat /\ n \in Nat /\ StringBase \in Nat
      /\ output_buffer \in [BufferByte -> Byte] /\ output_size \in Nat
      /\ output_size <= Capacity /\ n <= output_size /\ Capacity \in Nat
  <2>1. line \in Nat
    BY DEF AssemblerInv, AssemblerTypeOK, IsSource
  <2>2. n <= output_size
    BY <1>1 DEF LayoutInv, Laid, WordsKept
  <2>. QED
    BY <2>1, <2>2, Counting, LoaderAssumption, MemoryAssumption, AssemblerAssumption
       DEF AssemblerInv, AssemblerTypeOK, ByteAddress
<1>. HIDE DEF s, n
<1>5. ASSUME NEW m \in 0 .. n - 1, NEW k \in 0 .. 3
      PROVE  output_buffer'[4 * m + k] = output_buffer[4 * m + k]
  <2>1. m < StringBase
    <3>1. \A a \in Nat : a \div 4 <= a
      OBVIOUS
    <3>2. m < StringBase \div 4
      BY <1>4 DEF WordAddress, n
    <3>. QED
      BY <1>4, <3>1, <3>2
  <2>2. 4 * m + k \in BufferByte /\ 4 * m + k < 4 * s.address
    BY <1>2, <1>3, <1>4, <2>1 DEF BufferByte
  <2>3. 4 * m + k \notin FirstByte(s) .. LastByte(s)
    BY <1>2, <2>2 DEF FirstByte, LastByte
  <2>. QED
    BY <1>1, <1>4, <2>2, <2>3
<1>6. ASSUME NEW m \in 0 .. n - 1
      PROVE  WordIn(output_buffer', m) = WordIn(output_buffer, m)
  BY <1>5 DEF WordIn
<1>7. ASSUME NEW k \in InstructionsTo(source, line)
      PROVE  WordIn(output_buffer', CountTo(source, k - 1))
               = WordIn(output_buffer, CountTo(source, k - 1))
  <2>1. k \in 1 .. line /\ source[k].kind = "instruction"
    BY DEF InstructionsTo
  <2>2. k - 1 \in Nat
    BY <1>4, <2>1
  <2>3. CountTo(source, k - 1) \in Nat /\ CountTo(source, k - 1) < n
    BY <1>4, <2>1, <2>2, Counting, CountOrder DEF n
  <2>4. CountTo(source, k - 1) \in 0 .. n - 1
    BY <1>4, <2>3
  <2>. QED
    BY <1>6, <2>4
<1>. QED
  BY <1>7 DEF EmittedWords

\* Copying a string leaves the table alone and the words in place.
LEMMA CopyLayout == ASSUME AssemblerInv, LayoutInv, CopyString PROVE LayoutInv'
<1>1. /\ stage = "strings" /\ stage' = "strings" /\ Laid
      /\ UNCHANGED <<source, line, symbol_table>>
  BY DEF CopyString, AtString, Laid
<1>2. output_size' >= output_size
  <2>. DEFINE s == symbol_table.symbols[symbol]
              end == WordsOf(s.address + Len(Terminated(s.text)))
  <2>1. output_size' = IF end > output_size THEN end ELSE output_size
    BY DEF CopyString
  <2>2. s.address \in Nat /\ Len(Terminated(s.text)) \in Nat
    BY StringTyped DEF CopyString
  <2>. HIDE DEF s
  <2>3. end \in Nat
    BY <2>2 DEF WordsOf
  <2>4. output_size \in Nat
    BY AssemblerAssumption DEF AssemblerInv, AssemblerTypeOK
  <2>. QED
    BY <2>1, <2>3, <2>4
<1>3. CountTo(source, line) <= output_size'
  <2>1. line \in Nat /\ output_size \in Nat /\ output_size' \in Nat
    BY CopyStringOK, AssemblerAssumption DEF AssemblerInv, AssemblerTypeOK, IsSource
  <2>2. CountTo(source, line) \in Nat /\ CountTo(source, line) <= output_size
    BY <1>1, <2>1, Counting DEF LayoutInv, WordsKept
  <2>. QED
    BY <1>2, <2>1, <2>2
<1>4. WordsKept'
  BY <1>1, <1>3, CopiedBehind DEF LayoutInv, WordsKept
<1>. QED
  BY <1>1, <1>4 DEF LayoutInv, Laid

\* The other steps after the passes change neither table nor buffer.
LEMMA RestLayout ==
    ASSUME AssemblerInv, LayoutInv,
           OtherSymbol \/ StringsDone \/ WriteFile \/ WriteHexFile \/ UNCHANGED asmVars
    PROVE  LayoutInv'
<1>1. /\ UNCHANGED <<source, line, symbol_table, output_buffer, output_size>>
      /\ stage' = stage \/ (Laid /\ stage' \in {"write", "written", "unwritten"})
  BY DEF OtherSymbol, StringsDone, WriteFile, WriteHexFile, asmVars, Laid
<1>2. WordsKept' <=> WordsKept
  BY <1>1 DEF WordsKept
<1>3. stage' = stage \/ stage' = "unwritten" \/ (Laid /\ Laid')
  BY <1>1 DEF Laid
<1>4. \/ stage' \notin {"pass1", "pass2"} /\ ~Laid'
      \/ stage' = stage
      \/ Laid /\ Laid'
  BY <1>3 DEF Laid
<1>. QED
  BY <1>1, <1>2, <1>4 DEF LayoutInv, Laid

\* A failed assembly says nothing of strings.
LEMMA StopLayout ==
    ASSUME OutputOverflow \/ ParserError \/ CopyAborts \/ StringsTooLong PROVE LayoutInv'
<1>1. stage' = "failed"
  BY DEF OutputOverflow, Overflows, ParserError, Fails, CopyAborts, StringsTooLong
<1>. QED
  BY <1>1 DEF LayoutInv, Laid

\* The invariants of the assembler together.
LayoutStrong == AssemblerInv /\ ProgramInv /\ LayoutInv

\* Every step of the assembler keeps the invariants together.
LEMMA AssembleLayout ==
    ASSUME NamesFit, LayoutStrong, AssembleString \/ WriteFile \/ WriteHexFile \/ UNCHANGED asmVars
    PROVE  LayoutStrong'
<1>. USE DEF LayoutStrong
<1>1. AssemblerInv'
  BY AssembleStringOK, WriteFileOK, WriteHexFileOK, AssemblerKept
<1>2. ProgramInv'
  <2>1. CASE WriteHexFile
    <3>1. stage' \in {"written", "unwritten"}
      BY <2>1 DEF WriteHexFile
    <3>. QED
      BY <3>1 DEF ProgramInv, Emitting, Passes
  <2>. QED
    BY <2>1, NextProgramInv DEF AssemblerNext, Assemble
<1>3. LayoutInv'
  BY <1>2, DefinitionLayout, LineLayout, EmitLayout, PassEndsLayout, CopyLayout, RestLayout,
     StopLayout DEF AssembleString
<1>. QED
  BY <1>1, <1>2, <1>3

\* The file dez_vm is given.
BodyInv == stage = "written" /\ ~ToHex => output_file.body = Body

\* The file is written once, from the buffer and the table.
LEMMA NextBodyInv ==
    ASSUME PipelineInv, BodyInv, [PipelineNext]_pipelineVars PROVE BodyInv'
<1>1. CASE UNCHANGED <<asmVars, output_name>> \/ UNCHANGED <<asmVars, commandVars>>
  BY <1>1 DEF asmVars, commandVars, BodyInv, ToHex, Body, StringData
<1>2. CASE Asm
  <2>1. CASE AssembleFile
    <3>1. status = "assembling" /\ ToHex' = ToHex
      BY <2>1 DEF AssembleFile, commandVars, ToHex
    <3>2. CASE AssembleString
      <4>1. stage' # "written"
        BY <3>2
           DEF AssembleString, Blank, Label, Constant, CountInstruction, EmitInstruction,
               OutputOverflow, ParserError, SecondPass, Parsed, CopyString, CopyAborts,
               StringsTooLong, OtherSymbol, StringsDone, Defines, Counts, Emits, Overflows,
               Fails, StartsSecondPass, EndsSecondPass, AtLine, AtString, PassEnds, Passes, parserVars
      <4>. QED
        BY <4>1 DEF BodyInv
    <3>3. CASE ToHex /\ WriteHexFile
      BY <3>1, <3>3 DEF BodyInv
    <3>4. CASE WriteFile
      <4>1. UNCHANGED <<symbol_table, output_buffer, output_size>>
        BY <3>4 DEF WriteFile
      <4>2. \/ stage' = "unwritten"
            \/ output_file' = [exists |-> TRUE, header |-> output_size, body |-> Body]
        BY <3>4 DEF WriteFile, Body
      <4>3. stage' = "written" => output_file'.body = Body
        BY <4>2
      <4>. QED
        BY <4>1, <4>3 DEF BodyInv, Body, StringData
    <3>. QED
      BY <2>1, <3>2, <3>3, <3>4 DEF AssembleFile
  <2>2. CASE stage # "written" /\ ~AssembleFile
    <3>1. stage' = stage
      BY <1>2, <2>2
         DEF Asm, Help, Verbose, Hex, OutputOption, OutputMissing, UnknownOption, InputArgument,
             OutputArgument, TooManyNames, NoInput, ArgumentsDone, ReadInput, MainReturns, Exit,
             AtOption, AtName, asmVars
    <3>. QED
      BY <2>2, <3>1 DEF BodyInv
  <2>3. CASE stage = "written" /\ ~AssembleFile
    <3>1. status \notin {"arguments", "reading"}
      BY <2>3 DEF PipelineInv, CommandInv
    <3>2. UNCHANGED <<asmVars, output_name>>
      BY <1>2, <2>3, <3>1
         DEF Asm, Help, Verbose, Hex, OutputOption, OutputMissing, UnknownOption, InputArgument,
             OutputArgument, TooManyNames, NoInput, ArgumentsDone, ReadInput, MainReturns, Exit,
             AtOption, AtName
    <3>. QED
      BY <1>1, <3>2
  <2>. QED
    BY <2>1, <2>2, <2>3
<1>. QED
  BY <1>1, <1>2 DEF PipelineNext, RunAssembler, StartVM, RunVM, Finished, pipelineVars

----------------------------------------------------------------------------
(* The load. *)

\* dez_vm has read all instructions of a program it accepted, and has not
\* executed one.
CodeRead == phase \in {"strings", "protect"} \/ (phase = "main" /\ Startable) \/ Loaded

\* It has read the strings, too.
StringsRead == phase = "protect" \/ (phase = "main" /\ Startable) \/ Loaded

Opening == phase \in {"open", "header", "size", "code"}

\* How far the file is in memory.
LoaderInv ==
    /\ Opening \/ CodeRead => mem \in [Address -> Word]
    /\ phase \in {"open", "header", "size"} => protection = PowerOnProtection
    /\ phase \in {"code", "strings"} => ~protection.code_readonly
    /\ Opening => current_addr = StringBase
    /\ phase = "code" =>
          \A i \in 0 .. InstructionsRead - 1 : mem[i] = LittleEndianWord(file.body, 4 * i)
    /\ CodeRead =>
          /\ program_size = file.header
          /\ current_addr \in StringBase .. StringLimit
          /\ position = 4 * program_size + (current_addr - StringBase)
          /\ \A i \in 0 .. program_size - 1 :
                i < WordAddress(StringBase) => mem[i] = LittleEndianWord(file.body, 4 * i)
          /\ \A b \in StringBase .. current_addr - 1 :
                ReadByte(b) = file.body[4 * program_size + (b - StringBase) + 1]
    /\ StringsRead => ~MoreStringBytes

\* Before the load memory is cleared and nothing is read.
LEMMA InitLoaderInv == ASSUME LoaderInit PROVE LoaderInv
<1>1. mem \in [Address -> Word]
  BY Layout, ByteWidths DEF LoaderInit, ClearedMemory, Word
<1>. QED
  BY <1>1 DEF LoaderInit, LoaderInv, Opening, CodeRead, StringsRead, Loaded

\* The window for strings lies in the code segment.
LEMMA WindowBounds ==
    /\ MaxProgramSize \in Nat \ {0} /\ MaxProgramSize <= CodeEnd + 1
    /\ StringBase \in Nat /\ StringLimit \in Nat
    /\ StringBase < StringLimit /\ StringLimit <= 4 * (CodeEnd + 1)
    /\ StringBase \in ByteAddress /\ StringLimit \in ByteAddress
  BY LoaderAssumption, Layout DEF ByteAddress

\* The file dez_vm is given is the one asm wrote from its buffer.
LEMMA FileBytes ==
    ASSUME PipelineInv, BodyInv, file.exists, Startable
    PROVE  /\ file.body = Body /\ file.body \in Seq(Byte)
           /\ file.header = output_size /\ output_size \in Nat
           /\ Len(file.body) \in Nat /\ Len(file.body) >= 4 * output_size
<1>1. stage = "written" /\ file = output_file /\ ~ToHex
  BY FileWritten DEF Startable
<1>. QED
  BY <1>1, FileWritten, BodyBytes DEF BodyInv, PipelineInv

\* The word the instruction loop puts into memory is a word.
LEMMA LoadedWord ==
    ASSUME NEW s \in Seq(Byte), NEW p \in Nat, p + 4 <= Len(s)
    PROVE  LittleEndianWord(s, p) \in Word
<1>. DEFINE d == [k \in 0 .. 3 |-> s[p + (4 - k)]]
<1>1. d \in Bytes
  BY DEF Bytes
<1>2. d[0] = s[p + 4] /\ d[1] = s[p + 3] /\ d[2] = s[p + 2] /\ d[3] = s[p + 1]
  OBVIOUS
<1>3. /\ s[p + 4] \in Nat /\ s[p + 3] \in Nat /\ s[p + 2] \in Nat /\ s[p + 1] \in Nat
  BY ByteWidths DEF Byte
<1>4. LittleEndianWord(s, p) = WordOf(d)
  <2>. DEFINE x == s[p + 4] y == s[p + 3] z == s[p + 2] t == s[p + 1]
  <2>1. /\ LittleEndianWord(s, p) = t + ByteSpan * (z + ByteSpan * (y + ByteSpan * x))
        /\ WordOf(d) = ByteSpan * (ByteSpan * (ByteSpan * x + y) + z) + t
    BY <1>2 DEF LittleEndianWord, WordOf, Compose
  <2>2. x \in Nat /\ y \in Nat /\ z \in Nat /\ t \in Nat /\ ByteSpan \in Nat
    BY <1>3, ByteWidths
  <2>. HIDE DEF x, y, z, t, d
  <2>. QED
    BY <2>1, <2>2
<1>. HIDE DEF d
<1>. QED
  BY <1>1, <1>4, ByteOfWord

\* One round of the instruction loop.
LEMMA CodeRound ==
    ASSUME PipelineInv, BodyInv, LoaderInv, file.exists, ReadInstruction,
           UNCHANGED <<asmVars, commandVars>>
    PROVE  LoaderInv'
<1>1. /\ phase = "code" /\ InstructionsRead < program_size
      /\ Startable /\ program_size = file.header
      /\ position \in Nat /\ position = 4 * InstructionsRead
  BY DEF ReadInstruction, PipelineInv, LoadInv
<1>2. /\ file.body \in Seq(Byte) /\ program_size \in 1 .. MaxProgramSize
      /\ Len(file.body) \in Nat /\ Len(file.body) >= 4 * program_size
  BY <1>1, FileBytes DEF Startable
<1>3. /\ InstructionsRead \in Nat /\ position + 4 <= Len(file.body)
      /\ InstructionsRead \in Address /\ InstructionsRead \in CodeSegment
  <2>1. InstructionsRead \in Nat
    BY <1>1 DEF InstructionsRead
  <2>2. program_size \in Nat
    BY <1>2
  <2>3. position + 4 <= Len(file.body)
    BY <1>1, <1>2, <2>1, <2>2
  <2>4. InstructionsRead <= CodeEnd
    BY <1>1, <1>2, <2>1, <2>2, WindowBounds, Layout
  <2>. QED
    BY <2>1, <2>3, <2>4, Layout DEF Address, CodeSegment
<1>. DEFINE n == InstructionsRead
            w == LittleEndianWord(file.body, position)
<1>4. /\ WriteWord(n, w) /\ position' = position + 4
      /\ UNCHANGED <<protection, file, phase, program_size, current_addr>>
  BY <1>1, <1>2, <1>3 DEF ReadInstruction
<1>5. mem' = [mem EXCEPT ![n] = w] /\ mem \in [Address -> Word] /\ w \in Word
  <2>1. mem \in [Address -> Word]
    BY <1>1 DEF LoaderInv, Opening
  <2>2. w \in Word
    BY <1>1, <1>2, <1>3, LoadedWord
  <2>3. WriteAccepted(n)
    <3>1. ~protection.code_readonly
      BY <1>1 DEF LoaderInv
    <3>. QED
      BY <1>3, <3>1, Layout DEF WriteAccepted, CodeSegment, DataSegment, StackSegment
  <2>. HIDE DEF n, w
  <2>. QED
    BY <1>4, <2>1, <2>2, <2>3 DEF WriteWord
<1>6. InstructionsRead' = n + 1
  BY <1>1, <1>4 DEF InstructionsRead
<1>7. w = LittleEndianWord(file.body, 4 * n)
  BY <1>1
<1>8. \A i \in 0 .. n - 1 : mem[i] = LittleEndianWord(file.body, 4 * i)
  BY <1>1 DEF LoaderInv
<1>9. 0 .. n \subseteq Address
  BY <1>3, Layout DEF Address
<1>. HIDE DEF n, w
<1>10. \A i \in 0 .. n : mem'[i] = LittleEndianWord(file.body, 4 * i)
  BY <1>3, <1>5, <1>7, <1>8, <1>9 DEF n
<1>11. (n + 1) - 1 = n /\ n \in Nat
  BY <1>3 DEF n
<1>12. \A i \in 0 .. InstructionsRead' - 1 : mem'[i] = LittleEndianWord(file'.body, 4 * i)
  BY <1>4, <1>6, <1>10, <1>11
<1>13. mem' \in [Address -> Word]
  BY <1>5
<1>. QED
  BY <1>1, <1>4, <1>12, <1>13 DEF LoaderInv, Opening, CodeRead, StringsRead, Loaded

\* One round of the string loop.
LEMMA StringsRound ==
    ASSUME PipelineInv, BodyInv, LoaderInv, file.exists, ReadStringByte, MoreStringBytes,
           UNCHANGED <<asmVars, commandVars>>
    PROVE  LoaderInv'
<1>1. /\ phase = "strings" /\ Startable /\ CodeRead
      /\ position < Len(file.body) /\ current_addr < StringLimit
  BY DEF ReadStringByte, PipelineInv, LoadInv, CodeRead, MoreStringBytes
<1>2. /\ file.body \in Seq(Byte) /\ program_size = file.header /\ program_size \in Nat
      /\ program_size <= CodeEnd + 1
      /\ current_addr \in StringBase .. StringLimit /\ current_addr \in Nat
      /\ position = 4 * program_size + (current_addr - StringBase) /\ position \in Nat
      /\ mem \in [Address -> Word] /\ ~protection.code_readonly
  <2>1. file.body \in Seq(Byte) /\ file.header = output_size /\ output_size \in 1 .. MaxProgramSize
    BY <1>1, FileBytes DEF Startable
  <2>2. /\ program_size = file.header /\ current_addr \in StringBase .. StringLimit
        /\ position = 4 * program_size + (current_addr - StringBase)
        /\ mem \in [Address -> Word] /\ ~protection.code_readonly
    BY <1>1 DEF LoaderInv
  <2>3. program_size \in Nat /\ program_size <= CodeEnd + 1 /\ current_addr \in Nat
    BY <2>1, <2>2, WindowBounds, Layout
  <2>4. position \in Nat
    BY <2>2, <2>3, WindowBounds
  <2>. QED
    BY <2>1, <2>2, <2>3, <2>4
<1>. DEFINE c == current_addr
            v == file.body[position + 1]
<1>3. /\ WriteByte(c, v) /\ position' = position + 1 /\ current_addr' = c + 1
      /\ UNCHANGED <<protection, file, phase, program_size>>
  BY DEF ReadStringByte
<1>4. v \in Byte
  BY <1>1, <1>2
<1>5. c \in Nat /\ c \in ByteAddress /\ c >= StringBase
  BY <1>1, <1>2, WindowBounds, Layout, MemoryAssumption DEF ByteAddress
<1>6. ByteWriteAccepted(c)
  BY <1>2, <1>5, ByteAddresses DEF ByteWriteAccepted
<1>. HIDE DEF c, v
<1>7. /\ mem' \in [Address -> Word]
      /\ \A a \in Address : a # WordAddress(c) => mem'[a] = mem[a]
      /\ \A b \in ByteAddress : ReadByte(b)' = IF b = c THEN v ELSE ReadByte(b)
  BY <1>2, <1>3, <1>4, <1>5, <1>6, WrittenByte
<1>8. ASSUME NEW i \in 0 .. program_size - 1, i < WordAddress(StringBase)
      PROVE  mem'[i] = LittleEndianWord(file.body, 4 * i)
  <2>1. WordAddress(StringBase) <= WordAddress(c)
    BY <1>5, WindowBounds DEF WordAddress
  <2>2. WordAddress(c) \in Nat /\ WordAddress(StringBase) \in Nat
    BY <1>5, WindowBounds DEF WordAddress
  <2>3. i # WordAddress(c)
    BY <1>8, <2>1, <2>2
  <2>4. i \in Address
    BY <1>2, WindowBounds, Layout DEF Address
  <2>5. mem[i] = LittleEndianWord(file.body, 4 * i)
    BY <1>1, <1>8 DEF LoaderInv
  <2>. QED
    BY <1>7, <2>3, <2>4, <2>5
<1>9. ASSUME NEW b \in StringBase .. c
      PROVE  ReadByte(b)' = file.body[4 * program_size + (b - StringBase) + 1]
  <2>1. b \in ByteAddress
    BY <1>5, WindowBounds, Layout, MemoryAssumption DEF ByteAddress
  <2>2. CASE b = c
    <3>1. position + 1 = 4 * program_size + (b - StringBase) + 1
      BY <1>2, <2>2 DEF c
    <3>. QED
      BY <1>7, <2>1, <2>2, <3>1 DEF v
  <2>3. CASE b # c
    <3>1. b \in StringBase .. current_addr - 1
      BY <1>5, <2>3, WindowBounds DEF c
    <3>2. ReadByte(b) = file.body[4 * program_size + (b - StringBase) + 1]
      BY <1>1, <3>1 DEF LoaderInv
    <3>. QED
      BY <1>7, <2>1, <2>3, <3>2
  <2>. QED
    BY <2>2, <2>3
<1>10. /\ current_addr' \in StringBase .. StringLimit /\ current_addr' - 1 = c
       /\ position' = 4 * program_size' + (current_addr' - StringBase)
  BY <1>1, <1>2, <1>3, <1>5, WindowBounds DEF c
<1>11. \A b \in StringBase .. current_addr' - 1 :
          ReadByte(b)' = file'.body[4 * program_size' + (b - StringBase) + 1]
  BY <1>3, <1>9, <1>10
<1>12. \A i \in 0 .. program_size' - 1 :
          i < WordAddress(StringBase) => mem'[i] = LittleEndianWord(file'.body, 4 * i)
  BY <1>3, <1>8
<1>13. program_size' = file'.header /\ phase' = "strings" /\ ~protection'.code_readonly
  BY <1>1, <1>2, <1>3
<1>. QED
  BY <1>7, <1>10, <1>11, <1>12, <1>13 DEF LoaderInv, Opening, CodeRead, StringsRead, Loaded

\* All instructions are read: memory has what the file has of them.
LEMMA CodeReadOK ==
    ASSUME PipelineInv, BodyInv, LoaderInv, file.exists, InstructionsDone,
           UNCHANGED <<asmVars, commandVars>>
    PROVE  LoaderInv'
<1>1. /\ phase = "code" /\ InstructionsRead = program_size /\ Startable
      /\ program_size = file.header /\ position \in Nat /\ position = 4 * program_size
      /\ current_addr = StringBase /\ mem \in [Address -> Word] /\ ~protection.code_readonly
      /\ \A i \in 0 .. program_size - 1 : mem[i] = LittleEndianWord(file.body, 4 * i)
  BY DEF InstructionsDone, PipelineInv, LoadInv, LoaderInv, Opening
<1>2. /\ phase' = IF Len(file.body) > position THEN "strings" ELSE "protect"
      /\ UNCHANGED <<mem, protection, file, program_size, position, current_addr>>
  BY DEF InstructionsDone, vars
<1>3. Len(file.body) \in Nat
  BY <1>1, FileBytes
<1>4. ~StringsRead' \/ ~MoreStringBytes'
  BY <1>1, <1>2, <1>3 DEF StringsRead, MoreStringBytes, Loaded
<1>5. /\ current_addr \in StringBase .. StringLimit
      /\ position = 4 * program_size + (current_addr - StringBase)
      /\ \A b : b \notin StringBase .. current_addr - 1
  <2>1. program_size \in Nat
    BY <1>1, FileBytes
  <2>. QED
    BY <1>1, <2>1, WindowBounds
<1>6. phase' \in {"strings", "protect"}
  BY <1>2
<1>7. \A i \in 0 .. program_size' - 1 :
         i < WordAddress(StringBase) => mem'[i] = LittleEndianWord(file'.body, 4 * i)
  BY <1>1, <1>2
<1>8. \A b \in StringBase .. current_addr' - 1 :
         ReadByte(b)' = file'.body[4 * program_size' + (b - StringBase) + 1]
  BY <1>2, <1>5
<1>. QED
  BY <1>1, <1>2, <1>4, <1>5, <1>6, <1>7, <1>8 DEF LoaderInv, Opening

\* Memory stays as the loader left it.
LEMMA LoadKept ==
    ASSUME LoaderInv, CodeRead, phase' \notin {"open", "header", "size", "code", "strings"},
           StringsRead' => ~MoreStringBytes,
           UNCHANGED <<mem, file, program_size, position, current_addr>>
    PROVE  LoaderInv'
<1>1. /\ mem \in [Address -> Word] /\ program_size = file.header
      /\ current_addr \in StringBase .. StringLimit
      /\ position = 4 * program_size + (current_addr - StringBase)
      /\ \A i \in 0 .. program_size - 1 :
            i < WordAddress(StringBase) => mem[i] = LittleEndianWord(file.body, 4 * i)
      /\ \A b \in StringBase .. current_addr - 1 :
            ReadByte(b) = file.body[4 * program_size + (b - StringBase) + 1]
  BY DEF LoaderInv
<1>2. \A b : ReadByte(b)' = ReadByte(b)
  BY DEF ReadByte
<1>3. MoreStringBytes' = MoreStringBytes
  BY DEF MoreStringBytes
<1>4. \A i \in 0 .. program_size' - 1 :
         i < WordAddress(StringBase) => mem'[i] = LittleEndianWord(file'.body, 4 * i)
  BY <1>1
<1>5. \A b \in StringBase .. current_addr' - 1 :
         ReadByte(b)' = file'.body[4 * program_size' + (b - StringBase) + 1]
  BY <1>1, <1>2
<1>. QED
  BY <1>1, <1>3, <1>4, <1>5 DEF LoaderInv, Opening

\* Every step of the load brings the next part of the file to memory.
LEMMA LoadProgramReads ==
    ASSUME PipelineInv, BodyInv, LoaderInv, file.exists, LoadProgram,
           UNCHANGED <<asmVars, commandVars>>
    PROVE  LoaderInv'
<1>1. Startable' = Startable /\ PipelineInv'
  BY AsmRests, LoadStepOK DEF PipelineInv
<1>2. CASE LoadError
  <2>1. phase' = "main" /\ ~Startable'
    BY <1>1, <1>2 DEF LoadError, PipelineInv, LoadInv
  <2>. QED
    BY <2>1 DEF LoaderInv, Opening, CodeRead, StringsRead, Loaded
<1>3. CASE (OpenFile \/ ReadHeader) /\ ~LoadError
  <2>1. /\ phase \in {"open", "header"} /\ phase' \in {"header", "size"}
        /\ UNCHANGED <<mem, protection, current_addr>>
    BY <1>3 DEF OpenFile, ReadHeader, vars
  <2>. QED
    BY <2>1 DEF LoaderInv, Opening, CodeRead, StringsRead, Loaded
<1>4. CASE CheckSize /\ ~LoadError
  <2>1. /\ phase = "size" /\ phase' = "code" /\ SetProtection("code", FALSE)
        /\ UNCHANGED <<mem, position, current_addr>>
    BY <1>4 DEF CheckSize
  <2>2. ~protection'.code_readonly
    <3>1. protection' = [protection EXCEPT !.code_readonly = FALSE]
      BY <2>1 DEF SetProtection
    <3>. QED
      BY <2>1, <3>1 DEF LoaderInv, PowerOnProtection
  <2>3. InstructionsRead' - 1 = -1
    BY <2>1 DEF InstructionsRead, PipelineInv, LoadInv
  <2>4. \A i : i \notin 0 .. InstructionsRead' - 1
    BY <2>3
  <2>. QED
    BY <2>1, <2>2, <2>4 DEF LoaderInv, Opening, CodeRead, StringsRead, Loaded
<1>5. CASE ReadStringByte /\ ~MoreStringBytes
  <2>1. /\ phase = "strings" /\ phase' = "protect"
        /\ UNCHANGED <<mem, file, program_size, position, current_addr>>
    BY <1>5 DEF ReadStringByte, vars
  <2>. QED
    BY <1>5, <2>1, LoadKept DEF CodeRead
<1>6. CASE Protect
  <2>1. /\ phase = "protect" /\ phase' = "main"
        /\ UNCHANGED <<mem, file, program_size, position, current_addr>>
    BY <1>6 DEF Protect
  <2>2. CodeRead /\ ~MoreStringBytes
    BY <2>1 DEF CodeRead, StringsRead, LoaderInv
  <2>. QED
    BY <2>1, <2>2, LoadKept
<1>. QED
  BY <1>2, <1>3, <1>4, <1>5, <1>6, CodeRound, CodeReadOK, StringsRound DEF LoadProgram

\* main starts the machine the loader left, and no step is left uncounted.
LEMMA RunReads ==
    ASSUME PipelineInv, LoaderInv, file.exists, StartOrGiveUp \/ Run \/ ReturnFromMain,
           UNCHANGED <<asmVars, commandVars>>
    PROVE  LoaderInv'
<1>1. CASE StartOrGiveUp
  <2>1. /\ phase = "main" /\ phase' = IF LoadSucceeded THEN "run" ELSE "exit"
        /\ UNCHANGED <<mem, file, program_size, position, current_addr>>
    BY <1>1 DEF StartOrGiveUp, vars
  <2>2. CASE ~LoadSucceeded
    BY <2>1, <2>2 DEF LoaderInv, Opening, CodeRead, StringsRead, Loaded
  <2>3. CASE LoadSucceeded
    <3>1. CodeRead /\ StringsRead
      BY <2>1, <2>3 DEF LoadSucceeded, PipelineInv, LoadInv, CodeRead, StringsRead
    <3>. QED
      BY <2>1, <2>3, <3>1, LoadKept DEF LoaderInv
  <2>. QED
    BY <2>2, <2>3
<1>2. CASE ReturnFromMain
  <2>1. phase' = "exit"
    BY <1>2 DEF ReturnFromMain
  <2>. QED
    BY <2>1 DEF LoaderInv, Opening, CodeRead, StringsRead, Loaded
<1>3. CASE Run
  <2>1. phase' = "run" /\ step_count \in Nat
    BY <1>3 DEF Run, loaderVars, PipelineInv, StepsInv
  <2>2. ~Loaded'
    <3>1. CASE LoopTest
      BY <3>1 DEF LoopTest, Loaded
    <3>2. CASE Step
      BY <3>2, StepCounted DEF Loaded
    <3>3. CASE CountStep
      BY <2>1, <3>3 DEF CountStep, Loaded
    <3>. QED
      BY <1>3, <3>1, <3>2, <3>3 DEF Run
  <2>. QED
    BY <2>1, <2>2 DEF LoaderInv, Opening, CodeRead, StringsRead
<1>. QED
  BY <1>1, <1>2, <1>3

\* Nothing but the load changes memory before the first instruction.
LEMMA NextLoaderInv ==
    ASSUME PipelineInv, BodyInv, LoaderInv, [PipelineNext]_pipelineVars PROVE LoaderInv'
<1>1. CASE RunVM
  BY <1>1, LoadProgramReads, RunReads DEF RunVM
<1>2. CASE RunAssembler \/ StartVM
  <2>1. /\ phase = "open" /\ phase' = "open" /\ UNCHANGED <<mem, protection, current_addr>>
    BY <1>2 DEF RunAssembler, StartVM, NotStarted, allVars, vars, loaderVars
  <2>. QED
    BY <2>1 DEF LoaderInv, Opening, CodeRead, StringsRead, Loaded
<1>3. CASE UNCHANGED pipelineVars
  <2>1. /\ UNCHANGED <<asmVars, commandVars>>
        /\ UNCHANGED <<mem, protection, step_count, at>>
        /\ UNCHANGED <<file, phase, program_size, position, current_addr>>
    BY <1>3 DEF pipelineVars, allVars, vars, loaderVars
  <2>2. Startable' = Startable
    BY <2>1, AsmRests DEF PipelineInv
  <2>3. /\ \A b : ReadByte(b)' = ReadByte(b)
        /\ MoreStringBytes' = MoreStringBytes /\ InstructionsRead' = InstructionsRead
        /\ CodeRead' = CodeRead /\ StringsRead' = StringsRead /\ Opening' = Opening
    BY <2>1, <2>2
       DEF ReadByte, MoreStringBytes, InstructionsRead, CodeRead, StringsRead, Opening, Loaded
  <2>. QED
    BY <2>1, <2>3 DEF LoaderInv
<1>. QED
  BY <1>1, <1>2, <1>3 DEF PipelineNext, Finished

----------------------------------------------------------------------------
(* The strings lie in the file as their addresses say. *)

\* Strings that fill whole words take as many bytes in the file as in the
\* address space.
LEMMA PartsFit ==
    ASSUME NEW t, TableInv(t),
           NEW e \in [0 .. Len(t.symbols) -> StringAddress], Packs(e, t),
           NEW F \in [0 .. Len(t.symbols) -> Seq(Byte)], Concatenates(F, StringParts(t)),
           NEW k \in 0 .. Len(t.symbols),
           \A j \in 1 .. k : IsString(t.symbols[j]) => ~Ragged(t.symbols[j])
    PROVE  Len(F[k]) = e[k] - StringStart
<1>. DEFINE n == Len(t.symbols)
            Good == {m \in Nat : m \in 0 .. k => Len(F[m]) = e[m] - StringStart}
            P == StringParts(t)
<1>1. /\ n \in Nat /\ k \in Nat /\ k <= n /\ StringStart \in Nat
      /\ P \in Seq(Seq(Byte)) /\ Len(P) = n
      /\ \A j \in 1 .. n : t.symbols[j].text \in Seq(Byte)
  BY TableLength, PartsTyped, SymbolTableAssumption
<1>2. \A j \in 0 .. n : F[j] \in Seq(Byte) /\ e[j] \in Nat /\ Len(F[j]) \in Nat
  <2>1. \A j \in 0 .. n : F[j] \in Seq(Byte) /\ e[j] \in StringAddress
    OBVIOUS
  <2>2. \A q \in Seq(Byte) : Len(q) \in Nat
    OBVIOUS
  <2>. QED
    BY <2>1, <2>2 DEF StringAddress
<1>3. 0 \in Good
  <2>1. F[0] = <<>> /\ e[0] = StringStart
    BY DEF Packs, Concatenates
  <2>. QED
    BY <1>1, <2>1
<1>4. ASSUME NEW m \in Nat, m \in Good PROVE m + 1 \in Good
  <2>. SUFFICES ASSUME m + 1 \in 0 .. k PROVE Len(F[m + 1]) = e[m + 1] - StringStart
    OBVIOUS
  <2>. DEFINE s == t.symbols[m + 1]
  <2>1. m \in 0 .. k /\ m + 1 \in 1 .. k /\ m + 1 \in 1 .. n /\ m \in 0 .. n /\ m + 1 \in 0 .. n
        /\ (m + 1) - 1 = m
    BY <1>1
  <2>2. Len(F[m]) = e[m] - StringStart
    BY <1>4, <2>1
  <2>3. F[m + 1] = F[m] \o P[m + 1]
    BY <1>1, <2>1 DEF Concatenates
  <2>4. F[m] \in Seq(Byte) /\ P[m + 1] \in Seq(Byte) /\ e[m] \in Nat /\ e[m + 1] \in Nat
    BY <1>1, <1>2, <2>1
  <2>5. Len(F[m + 1]) = Len(F[m]) + Len(P[m + 1]) /\ Len(P[m + 1]) \in Nat
    <3>. DEFINE a == F[m] b == P[m + 1] c == F[m + 1]
    <3>1. a \in Seq(Byte) /\ b \in Seq(Byte) /\ c = a \o b
      BY <2>3, <2>4
    <3>. HIDE DEF a, b, c
    <3>2. Len(c) = Len(a) + Len(b) /\ Len(b) \in Nat
      BY <3>1, JoinedSequences
    <3>. QED
      BY <3>2 DEF a, b, c
  <2>6. P[m + 1] = IF IsString(s) THEN Padded(s.text) ELSE <<>>
    BY <1>1, <2>1 DEF StringParts
  <2>7. StringStart \in Nat
    BY <1>1
  <2>8. CASE IsString(s)
    <3>1. e[m + 1] = e[m] + Len(s.text) + 1
      BY <2>1, <2>8 DEF Packs
    <3>2. s.text \in Seq(Byte)
      BY <1>1, <2>1
    <3>3. (Len(s.text) + 1) % 4 = 0
      <4>1. ~Ragged(s)
        BY <2>1, <2>8
      <4>. QED
        BY <3>2, <4>1, PaddedTyped DEF Ragged
    <3>4. Len(P[m + 1]) = Len(s.text) + 1 /\ Len(s.text) \in Nat
      BY <2>6, <2>8, <3>2, <3>3, PaddedTyped
    <3>. DEFINE l0 == Len(F[m]) l1 == Len(F[m + 1]) p == Len(P[m + 1]) z == Len(s.text)
                e0 == e[m] e1 == e[m + 1]
    <3>5. /\ l0 = e0 - StringStart /\ l1 = l0 + p /\ p = z + 1 /\ e1 = e0 + z + 1
          /\ z \in Nat /\ e0 \in Nat
      BY <2>2, <2>4, <2>5, <3>1, <3>4
    <3>. HIDE DEF l0, l1, p, z, e0, e1
    <3>6. l1 = e1 - StringStart
      BY <2>7, <3>5
    <3>. QED
      BY <3>6 DEF l1, e1
  <2>9. CASE ~IsString(s)
    <3>1. e[m + 1] = e[m]
      BY <2>1, <2>9 DEF Packs
    <3>2. Len(P[m + 1]) = 0
      BY <2>6, <2>9
    <3>. QED
      BY <1>1, <2>2, <2>4, <2>5, <3>1, <3>2
  <2>. QED
    BY <2>8, <2>9
<1>5. Nat \subseteq Good
  <2>. HIDE DEF Good
  <2>. QED
    BY <1>3, <1>4, SetInduction
<1>. QED
  BY <1>1, <1>5

\* The place of a string, if all before it fill whole words.
LEMMA StringPlace ==
    ASSUME NEW t, TableInv(t),
           NEW e \in [0 .. Len(t.symbols) -> StringAddress], Packs(e, t),
           NEW F \in [0 .. Len(t.symbols) -> Seq(Byte)], Concatenates(F, StringParts(t)),
           NEW k \in 1 .. Len(t.symbols), IsString(t.symbols[k]),
           \A j \in 1 .. k - 1 : IsString(t.symbols[j]) => ~Ragged(t.symbols[j]),
           NEW b \in 1 .. Len(Terminated(t.symbols[k].text))
    PROVE  LET s == t.symbols[k]
               x == s.address - StringStart + b
               all == F[Len(t.symbols)]
           IN  /\ s.address \in StringAddress /\ Len(s.text) \in Nat
               /\ Len(Terminated(s.text)) = Len(s.text) + 1
               /\ x \in 1 .. Len(all) /\ all[x] = Terminated(s.text)[b]
<1>. DEFINE n == Len(t.symbols)
            s == t.symbols[k]
            P == StringParts(t)
            x == s.address - StringStart + b
            f == F[k - 1]
            p == P[k]
            g == F[k]
            all == F[n]
<1>1. /\ n \in Nat /\ StringStart \in Nat /\ P \in Seq(Seq(Byte)) /\ Len(P) = n
      /\ s.text \in Seq(Byte)
  BY TableLength, PartsTyped, SymbolTableAssumption
<1>2. k - 1 \in 0 .. n /\ k \in 0 .. n /\ n \in k .. n /\ n \in 0 .. n
  BY <1>1
<1>3. s.address = e[k - 1] /\ e[k - 1] \in StringAddress /\ e[k - 1] \in Nat
  BY <1>2 DEF Packs, StringAddress
<1>4. Len(f) = e[k - 1] - StringStart
  BY <1>2, PartsFit
<1>5. g = f \o p /\ p = Padded(s.text)
  BY <1>1 DEF Concatenates, StringParts
<1>6. f \in Seq(Byte) /\ g \in Seq(Byte) /\ all \in Seq(Byte)
  BY <1>2
<1>7. /\ p \in Seq(Byte) /\ Len(s.text) \in Nat
      /\ Len(Terminated(s.text)) = Len(s.text) + 1 /\ Len(s.text) + 1 <= Len(p)
      /\ \A y \in 1 .. Len(s.text) + 1 : p[y] = Terminated(s.text)[y]
  BY <1>1, <1>5, PaddedTyped
<1>8. Len(g) <= Len(all) /\ \A y \in 1 .. Len(g) : all[y] = g[y]
  <2>1. /\ F \in [0 .. Len(P) -> Seq(Byte)] /\ k \in 0 .. Len(P) /\ n \in k .. Len(P)
        /\ Concatenates(F, P)
    BY <1>1, <1>2
  <2>3. P \in Seq(Seq(Byte))
    BY <1>1
  <2>. HIDE DEF P, n, f, p, g, all, x, s
  <2>2. StartsWith(F[n], F[k])
    BY <2>1, <2>3, Prefixes
  <2>. QED
    BY <2>2 DEF StartsWith, g, all
<1>9. x = Len(f) + b
  BY <1>3, <1>4
<1>10. b \in 1 .. Len(s.text) + 1 /\ b \in 1 .. Len(p)
  <2>1. b \in 1 .. Len(s.text) + 1
    BY <1>7
  <2>2. Len(p) \in Nat
    BY <1>7
  <2>. QED
    BY <1>7, <2>1, <2>2
<1>. HIDE DEF f, p, g, all, x, P, n
<1>11. /\ Len(g) = Len(f) + Len(p) /\ Len(f) \in Nat /\ Len(p) \in Nat
       /\ g[Len(f) + b] = p[b]
  BY <1>5, <1>6, <1>7, <1>10, JoinedSequences
<1>12. Len(g) \in Nat /\ Len(all) \in Nat
  BY <1>6
<1>13. x \in 1 .. Len(g) /\ x \in 1 .. Len(all)
  BY <1>8, <1>9, <1>10, <1>11, <1>12
<1>14. all[x] = Terminated(s.text)[b]
  BY <1>7, <1>8, <1>9, <1>10, <1>11, <1>13
<1>. QED
  BY <1>3, <1>7, <1>13, <1>14 DEF x, all, n

\* The strings in the file.
LEMMA StringInFile ==
    ASSUME AssemblerInv, Packed(symbol_table),
           NEW k \in Strings, \A j \in Strings : j < k => ~Ragged(symbol_table.symbols[j]),
           NEW b \in 1 .. Len(Terminated(symbol_table.symbols[k].text))
    PROVE  LET s == symbol_table.symbols[k]
               x == s.address - StringStart + b
           IN  /\ s.address \in StringAddress /\ Len(s.text) \in Nat
               /\ Len(Terminated(s.text)) = Len(s.text) + 1
               /\ x \in 1 .. Len(StringData) /\ StringData[x] = Terminated(s.text)[b]
<1>. DEFINE t == symbol_table
            n == Len(t.symbols)
            P == StringParts(t)
<1>1. /\ TableInv(t) /\ n \in Nat /\ P \in Seq(Seq(Byte)) /\ Len(P) = n
      /\ StringData = Sequence!FlattenSeq(P)
  BY TableLength, PartsTyped, BodyBytes DEF AssemblerInv
<1>2. k \in 1 .. n /\ IsString(t.symbols[k])
  BY DEF Strings
<1>3. \A j \in 1 .. k - 1 : IsString(t.symbols[j]) => ~Ragged(t.symbols[j])
  <2>1. \A j \in 1 .. k - 1 : j \in 1 .. n /\ j < k
    BY <1>1, <1>2
  <2>. QED
    BY <2>1 DEF Strings
<1>4. PICK e \in [0 .. n -> StringAddress] : Packs(e, t)
  BY DEF Packed
<1>5. PICK F \in [0 .. n -> Seq(Byte)] : Concatenates(F, P) /\ StringData = F[n]
  <2>1. \E F \in [0 .. Len(P) -> Seq(Byte)] :
           Concatenates(F, P) /\ Sequence!FlattenSeq(P) = F[Len(P)]
    BY <1>1, Concatenation
  <2>. QED
    BY <1>1, <2>1
<1>6. LET s == t.symbols[k]
          x == s.address - StringStart + b
          all == F[Len(t.symbols)]
      IN  /\ s.address \in StringAddress /\ Len(s.text) \in Nat
          /\ Len(Terminated(s.text)) = Len(s.text) + 1
          /\ x \in 1 .. Len(all) /\ all[x] = Terminated(s.text)[b]
  <2>1. /\ e \in [0 .. Len(t.symbols) -> StringAddress] /\ Packs(e, t)
        /\ F \in [0 .. Len(t.symbols) -> Seq(Byte)] /\ Concatenates(F, StringParts(t))
        /\ k \in 1 .. Len(t.symbols) /\ b \in 1 .. Len(Terminated(t.symbols[k].text))
    BY <1>2, <1>4, <1>5
  <2>. HIDE DEF t, n, P
  <2>. QED
    BY <1>1, <1>2, <1>3, <2>1, StringPlace
<1>. QED
  BY <1>5, <1>6

\* The run starts from the file asm wrote, with all of it in memory.
LEMMA LoadedProgram ==
    ASSUME PipelineInv, BodyInv, LayoutInv, LoaderInv, Loaded
    PROVE  /\ WordsKept /\ Laid /\ CodeRead /\ StringsRead
           /\ file.body = Body /\ file.header = output_size /\ program_size = output_size
           /\ output_size \in Nat
<1>1. phase = "run" /\ file.exists /\ Startable /\ CodeRead /\ StringsRead
  BY DEF Loaded, PipelineInv, StartedInv, LoadInv, CodeRead, StringsRead
<1>2. stage = "written" /\ Laid
  BY <1>1, FileWritten DEF Laid
<1>. QED
  BY <1>1, <1>2, FileBytes DEF LayoutInv, LoaderInv

\* The words of the program are in memory.
LEMMA WordsArrive ==
    ASSUME PipelineInv, BodyInv, LayoutInv, LoaderInv, Loaded, LayoutsAgree, ~Full(symbol_table),
           NEW k \in InstructionLines(source), WellTyped(source[k].instruction)
    PROVE  Decodes(source, mem[Before(source, k)], source[k].instruction)
<1>1. /\ WordsKept /\ CodeRead /\ file.body = Body /\ program_size = output_size
      /\ output_size \in Nat
  BY LoadedProgram
<1>2. /\ IsSource(source) /\ Passed(source, line) /\ Reached(source) = 1 .. line
      /\ CountTo(source, line) <= output_size
      /\ TableInv(symbol_table) /\ SecondPassTable(symbol_table, source, line)
      /\ line \in Nat
  BY <1>1 DEF WordsKept, PipelineInv, AssemblerInv, AssemblerTypeOK, IsSource
<1>3. InstructionLines(source) = InstructionsTo(source, line)
  BY <1>2 DEF InstructionLines, InstructionsTo
<1>4. CountTo(source, line) <= WordAddress(StringBase)
  BY <1>3 DEF LayoutsAgree, CountTo
<1>5. EmittedWords(source, line, symbol_table, output_buffer)
  BY <1>1, <1>4 DEF WordsKept, LayoutsAgree
<1>6. k \in 1 .. line /\ source[k].kind = "instruction" /\ k - 1 \in Nat
  BY <1>2, <1>3 DEF InstructionsTo
<1>. DEFINE m == CountTo(source, k - 1)
<1>7. Before(source, k) = m
  BY <1>2, <1>6, PassedLines
<1>8. WordMeans(source, symbol_table, WordIn(output_buffer, m), source[k].instruction)
  BY <1>3, <1>5 DEF EmittedWords
<1>9. m \in Nat /\ m < CountTo(source, line) /\ CountTo(source, line) \in Nat
  BY <1>2, <1>6, Counting, CountOrder
<1>. HIDE DEF m
<1>10. m \in 0 .. output_size - 1 /\ m < WordAddress(StringBase)
  <2>1. WordAddress(StringBase) \in Nat
    BY WindowBounds DEF WordAddress
  <2>. QED
    BY <1>1, <1>2, <1>4, <1>9, <2>1
<1>11. mem[m] = LittleEndianWord(Body, 4 * m)
  BY <1>1, <1>10 DEF LoaderInv
<1>12. LittleEndianWord(Body, 4 * m) = WordIn(output_buffer, m)
  <2>1. ASSUME NEW j \in 0 .. 3 PROVE Body[4 * m + (j + 1)] = output_buffer[4 * m + j]
    <3>1. 4 * m + (j + 1) \in 1 .. 4 * output_size /\ (4 * m + (j + 1)) - 1 = 4 * m + j
      BY <1>1, <1>10
    <3>2. \A b \in 1 .. 4 * output_size : Body[b] = output_buffer[b - 1]
      BY BodyBytes DEF PipelineInv
    <3>. HIDE DEF Body
    <3>. QED
      BY <3>1, <3>2
  <2>2. /\ Body[4 * m + 1] = output_buffer[4 * m + 0]
        /\ Body[4 * m + 2] = output_buffer[4 * m + 1]
        /\ Body[4 * m + 3] = output_buffer[4 * m + 2]
        /\ Body[4 * m + 4] = output_buffer[4 * m + 3]
    BY <2>1
  <2>. QED
    BY <2>2 DEF LittleEndianWord, WordIn
<1>13. Decodes(source, WordIn(output_buffer, m), source[k].instruction)
  BY <1>2, <1>8, WordDecodes
<1>. QED
  BY <1>7, <1>11, <1>12, <1>13

\* The strings can be read where their symbols say.
LEMMA StringsArrive ==
    ASSUME PipelineInv, BodyInv, LayoutInv, LoaderInv, Loaded, LayoutsAgree, ~Full(symbol_table),
           NEW k \in Strings
    PROVE  Spelled(symbol_table.symbols[k])
<1>. DEFINE s == symbol_table.symbols[k]
<1>1. /\ WordsKept /\ Laid /\ CodeRead /\ StringsRead
      /\ file.body = Body /\ program_size = output_size /\ output_size \in Nat
  BY LoadedProgram
<1>2. Packed(symbol_table)
  BY <1>1 DEF LayoutInv, LayoutsAgree
<1>3. \A j \in Strings : j < k => ~Ragged(symbol_table.symbols[j])
  <2>1. \A j \in Strings : j \in Nat
    BY DEF Strings
  <2>2. \A j \in Strings : Ragged(symbol_table.symbols[j]) => k <= j
    BY DEF LayoutsAgree
  <2>. QED
    BY <2>1, <2>2
<1>4. s.address + Len(s.text) < symbol_table.next_string_addr
  <2>1. Ordered(symbol_table)
    BY <1>1 DEF WordsKept, SecondPassTable
  <2>. QED
    BY <2>1 DEF Ordered, Strings, IsString
<1>5. /\ symbol_table.next_string_addr \in Nat
      /\ symbol_table.next_string_addr <= StringLimit
  BY DEF PipelineInv, AssemblerInv, TableInv, Shape, LayoutsAgree
<1>6. /\ current_addr \in StringBase .. StringLimit
      /\ position = 4 * output_size + (current_addr - StringBase)
      /\ \A b \in StringBase .. current_addr - 1 :
            ReadByte(b) = Body[4 * output_size + (b - StringBase) + 1]
  BY <1>1 DEF LoaderInv
<1>7. position >= Len(Body) \/ current_addr >= StringLimit
  <2>1. position \in Nat /\ current_addr \in Nat
    BY <1>1, <1>6, WindowBounds
  <2>2. Len(Body) \in Nat
    BY <1>1, BodyBytes DEF PipelineInv
  <2>3. ~MoreStringBytes
    BY <1>1 DEF LoaderInv
  <2>. HIDE DEF Body
  <2>. QED
    BY <1>1, <2>1, <2>2, <2>3, WindowBounds DEF MoreStringBytes
<1>. HIDE DEF Body
<1>8. ASSUME NEW b \in 1 .. Len(Terminated(s.text))
      PROVE  ReadByte(s.address + b - 1) = Terminated(s.text)[b]
  <2>. DEFINE x == s.address - StringStart + b
              a == s.address + b - 1
  <2>1. /\ s.address \in StringAddress /\ Len(s.text) \in Nat
        /\ Len(Terminated(s.text)) = Len(s.text) + 1
        /\ x \in 1 .. Len(StringData) /\ StringData[x] = Terminated(s.text)[b]
    BY <1>2, <1>3, StringInFile DEF PipelineInv
  <2>2. /\ Len(StringData) \in Nat /\ Len(Body) = 4 * output_size + Len(StringData)
        /\ \A y \in 1 .. Len(StringData) : Body[4 * output_size + y] = StringData[y]
    BY BodyBytes DEF PipelineInv
  <2>3. /\ s.address \in Nat /\ s.address >= StringBase /\ StringStart = StringBase
        /\ b \in Nat /\ b >= 1 /\ b <= Len(s.text) + 1
    BY <2>1, PipelineAssumption DEF StringAddress
  <2>. DEFINE z == Len(s.text) A == s.address d == Len(StringData) B == Len(Body)
  <2>4. /\ x = A - StringBase + b /\ a = A + b - 1 /\ x \in 1 .. d /\ d \in Nat
        /\ B = 4 * output_size + d /\ A \in Nat /\ A >= StringBase /\ b \in Nat /\ b >= 1
        /\ b <= z + 1 /\ A + z < symbol_table.next_string_addr /\ z \in Nat
        /\ position >= B \/ current_addr >= StringLimit
    BY <1>4, <1>7, <2>1, <2>2, <2>3
  <2>5. Body[4 * output_size + x] = StringData[x]
    BY <2>1, <2>2
  <2>. HIDE DEF x, a, z, A, d, B, s
  <2>6. a \in StringBase .. current_addr - 1 /\ a - StringBase + 1 = x
    BY <1>1, <1>5, <1>6, <2>4, WindowBounds
  <2>7. 4 * output_size + (a - StringBase) + 1 = 4 * output_size + x
    BY <1>1, <2>4, <2>6, WindowBounds
  <2>8. ReadByte(a) = Body[4 * output_size + (a - StringBase) + 1]
    BY <1>6, <2>6
  <2>9. ReadByte(a) = Terminated(s.text)[b]
    BY <2>1, <2>5, <2>7, <2>8
  <2>. QED
    BY <2>9 DEF a
<1>. QED
  BY <1>8 DEF Spelled

\* Under the conditions of LayoutsAgree, the program in memory when the run
\* starts is the source program, for every command line, every source whose
\* names fit the table and every size of memory, buffer and window.
THEOREM ProgramIsLoaded ==
    ASSUME NamesFit
    PROVE  PipelineSpec => []ProgramArrives
<1>. DEFINE Inv == PipelineInv /\ ProgramInv /\ LayoutInv /\ BodyInv /\ LoaderInv
<1>1. PipelineInit => Inv
  <2>. SUFFICES ASSUME PipelineInit PROVE Inv
    OBVIOUS
  <2>1. PipelineInv /\ AssemblerInit /\ LoaderInit
    BY InitPipelineInv DEF PipelineInit, AsmInit
  <2>2. BodyInv
    BY <2>1 DEF AssemblerInit, BodyInv
  <2>. QED
    BY <2>1, <2>2, InitProgramInv, InitLayoutInv, InitLoaderInv
<1>2. Inv /\ [PipelineNext]_pipelineVars => Inv'
  <2>. SUFFICES ASSUME Inv, [PipelineNext]_pipelineVars PROVE Inv'
    OBVIOUS
  <2>1. PipelineInv' /\ BodyInv' /\ LoaderInv'
    BY NextPipelineInv, NextBodyInv, NextLoaderInv
  <2>2. AssembleString \/ WriteFile \/ WriteHexFile \/ UNCHANGED asmVars
    BY DEF PipelineNext, RunAssembler, StartVM, RunVM, Finished, pipelineVars, Asm, AssembleFile,
           Help, Verbose, Hex, OutputOption, OutputMissing, UnknownOption, InputArgument,
           OutputArgument, TooManyNames, NoInput, ArgumentsDone, ReadInput, MainReturns, Exit
  <2>3. ProgramInv' /\ LayoutInv'
    BY <2>2, AssembleLayout DEF LayoutStrong, PipelineInv
  <2>. QED
    BY <2>1, <2>3
<1>3. Inv => ProgramArrives
  BY WordsArrive, StringsArrive DEF ProgramArrives
<1>. QED
  BY <1>1, <1>2, <1>3, PTL DEF PipelineSpec
=============================================================================
