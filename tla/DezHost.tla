------------------------------ MODULE DezHost -------------------------------
(***************************************************************************)
(* The programs around the virtual machine.  main.c makes one load and, if *)
(* it left no error, one run; the tests run without looking at the state   *)
(* (tests/test_assembly.c:48-50); and nothing in dez_vm.h keeps a program  *)
(* from loading and running the same dez_vm_t again, with or without       *)
(* dez_vm_init in between.  A host here calls the three functions in any   *)
(* order; the host that makes no further call is main.                     *)
(*                                                                         *)
(* dez_vm_load_program resets neither the CPU nor memory, and dez_vm_run   *)
(* starts from whatever it finds: what a run executes depends on every     *)
(* call since the last dez_vm_init.  The history variables loads and ran   *)
(* record those calls for the properties; no action reads them.            *)
(***************************************************************************)
EXTENDS DezLoader

CONSTANTS
    Reloaded,   \* the files a host that makes more calls loads
    MaxCalls    \* bound on the calls after main's first load

ASSUME HostAssumption == Reloaded \subseteq Files /\ MaxCalls \in Nat

VARIABLES
    calls,      \* calls made after the first load
    loads,      \* history: the files loaded since dez_vm_init
    ran         \* history: dez_vm_run was called since dez_vm_init

hostVars == <<calls, loads, ran>>

HostInit ==
    /\ LoaderInit
    /\ calls = 0
    /\ loads = <<file>>
    /\ ran = FALSE

\* The host is between two calls and makes another one.
MakesCall ==
    /\ phase = "main"
    /\ file \in Reloaded
    /\ calls < MaxCalls
    /\ calls' = calls + 1

\* dez_vm_init
InitVM ==
    /\ MakesCall
    /\ regs' = [r \in Register |-> 0]
    /\ pc' = 0
    /\ sp' = MemWords - 1
    /\ flags' = {}
    /\ state' = "RUNNING"
    /\ mem' = ClearedMemory
    /\ protection' = PowerOnProtection
    /\ program_size' = 0
    /\ loads' = <<>>
    /\ ran' = FALSE
    /\ UNCHANGED <<step_count, at, file, phase, position, current_addr>>

\* Mutant: a load declares the machine ready to run.
LoadAnotherRunning ==
    /\ MakesCall
    /\ \E f \in Reloaded : file' = f /\ loads' = Append(loads, f)
    /\ phase' = "open"
    /\ position' = 0
    /\ current_addr' = StringBase
    /\ state' = "RUNNING"
    /\ UNCHANGED <<mem, protection, cpuVars, program_size, ran>>

\* The call of dez_vm_load_program.
LoadAnother ==
    /\ MakesCall
    /\ \E f \in Reloaded : file' = f /\ loads' = Append(loads, f)
    /\ phase' = "open"
    /\ position' = 0
    /\ current_addr' = StringBase
    /\ UNCHANGED <<vars, program_size, ran>>

\* The call of dez_vm_run, whatever the state.
RunAgain ==
    /\ MakesCall
    /\ phase' = "run"
    /\ at' = "while"
    /\ step_count' = 0
    /\ ran' = TRUE
    /\ UNCHANGED <<mem, protection, regs, pc, sp, flags, state>>
    /\ UNCHANGED <<file, program_size, position, current_addr, loads>>

\* dez_vm_run returns to a host that is not main.
RunReturns ==
    /\ phase = "run"
    /\ at = "done"
    /\ calls > 0
    /\ phase' = "main"
    /\ UNCHANGED <<vars, file, program_size, position, current_addr, hostVars>>

HostExits ==
    /\ phase = "main"
    /\ calls > 0
    /\ phase' = "exit"
    /\ UNCHANGED <<vars, file, program_size, position, current_addr, hostVars>>

\* main, which makes no further call.
MainGoesOn == calls = 0 /\ Main /\ ran' = (ran \/ phase' = "run") /\ UNCHANGED <<calls, loads>>

HostEnded == calls > 0 /\ Exited /\ UNCHANGED hostVars

HostNext ==
    \/ (LoadProgram \/ Run) /\ UNCHANGED hostVars
    \/ MainGoesOn
    \/ InitVM \/ LoadAnother \/ RunAgain
    \/ RunReturns \/ HostExits \/ HostEnded

\* Host and machine are one thread of sequential code.
HostSpec == HostInit /\ [][HostNext]_<<allVars, hostVars>> /\ WF_<<allVars, hostVars>>(HostNext)

----------------------------------------------------------------------------
(* Correctness. *)

\* Loader and host stay within their types: the loader never reads past the
\* end of a file, and string bytes never go past the window for them, in a
\* second load as in the first.
HostTypeOK ==
    /\ LoaderTypeOK
    /\ calls \in 0 .. MaxCalls
    /\ \A k \in DOMAIN loads : IsFile(loads[k])
    /\ ran \in BOOLEAN

Loading == phase \in {"open", "header", "size", "code", "strings", "protect"}

Complete(f) ==
    /\ f.exists
    /\ f.header # NoHeader
    /\ f.header \in 1 .. MaxProgramSize
    /\ Len(f.body) >= 4 * f.header

\* What the state tells a caller: the machine is ready to run if and only if
\* every file loaded since dez_vm_init was complete and no run was made
\* since.  One bad load is not forgotten by a good one after it, and a run
\* never leaves the machine ready for another.
LoadOutcome ==
    phase = "main" => (state = "RUNNING" <=> ~ran /\ \A k \in DOMAIN loads : Complete(loads[k]))

\* An instruction is executing.
Stepping == phase = "run" /\ at = "step" /\ state = "RUNNING"

\* No instruction is executed while the loader's opening of the code segment
\* lasts.  A file cut off in its instructions leaves the segment open for
\* good: what keeps runs away from it is the ERROR state.
RunsProtected == Stepping => protection = PowerOnProtection

\* The run has executed nothing yet and is going to.
RunBegins == phase = "run" /\ at = "while" /\ step_count = 0 /\ state = "RUNNING"

\* The bytes a file puts into memory: string bytes into the string window,
\* instructions into the first words.
StringBytes(f) == Len(f.body) - 4 * f.header

StringAt(f, b) == b \in StringBase .. StringLimit - 1 /\ b - StringBase < StringBytes(f)
Covers(f, b)   == StringAt(f, b) \/ b < 4 * f.header

FileByte(f, b) ==
    IF StringAt(f, b)
      THEN f.body[4 * f.header + (b - StringBase) + 1]
      ELSE f.body[4 * (b \div 4) + (4 - (b % 4))]

Covering(b) == {k \in DOMAIN loads : Covers(loads[k], b)}

LastCovering(b) == CHOOSE k \in Covering(b) : \A j \in Covering(b) : j <= k

\* The last load that covers a byte decides it.
LoadedByte(b) == IF Covering(b) = {} THEN 0 ELSE FileByte(loads[LastCovering(b)], b)

\* A run that executes anything starts from the registers, flags, pc and
\* stack of dez_vm_init, on a memory made of the files loaded since, later
\* ones over earlier ones.  Nothing of a program that ran before is left
\* over, although neither loading nor running resets anything; what is left
\* over is the end of a longer program under a shorter one.
LoadCorrect ==
    RunBegins =>
        /\ <<pc, sp, flags>> = <<0, MemWords - 1, {}>>
        /\ \A r \in Register : regs[r] = 0
        /\ \A b \in ByteAddress : ReadByte(b) = LoadedByte(b)

\* Whatever the file says and whatever ran before, loading never touches the
\* data or stack segment.
LoaderConfined ==
    [][Loading => \A a \in Address \ CodeSegment : mem'[a] = mem[a]]_allVars

\* Every call returns, and the process ends: the loader's loops do, and the
\* run of whatever was loaded.
ProcessEnds == <>(phase = "exit")
=============================================================================
