----------------------------- MODULE DezLoader ------------------------------
(***************************************************************************)
(* The program dez_vm (src/main.c): dez_vm_init, dez_vm_load_program of    *)
(* src/core/dez_vm.c, and, if the load left no error, dez_vm_run.  Module  *)
(* DezHost lets a program call them in any order and states what they      *)
(* promise.                                                                *)
(*                                                                         *)
(* A binary file is a header (the number of instructions), the bytes of    *)
(* the instructions, least significant first (fread on a little-endian     *)
(* host), and then bytes of string data.  The file may be missing, cut off *)
(* anywhere, or lie about its length.  The loader is sequential code with  *)
(* early returns: phase is its control point and that of main.             *)
(***************************************************************************)
EXTENDS DezVM, DezBytes

CONSTANTS
    Files,          \* the files considered, see File
    MaxProgramSize, \* DEZ_MAX_PROGRAM_SIZE (1024)
    StringBase,     \* byte address of the first string byte (0x100)
    StringLimit     \* byte address string loading stops at (0x200)

NoHeader == -1

\* Without a header the file is empty or shorter than four bytes.
IsFile(f) ==
    /\ f.exists \in BOOLEAN
    /\ f.header \in Word \/ f.header = NoHeader
    /\ f.body \in Seq(Byte)
    /\ f.header = NoHeader => f.body = <<>>

ASSUME LoaderAssumption ==
    /\ MaxProgramSize \in 1 .. CodeEnd + 1
    /\ StringBase \in ByteAddress /\ StringLimit \in ByteAddress
    /\ StringBase < StringLimit
    \* The string window lies in the code segment (byte 0x200 of 0x1000).
    /\ StringLimit <= 4 * (CodeEnd + 1)
    /\ \A f \in Files : IsFile(f)

VARIABLES
    file,           \* the file named on the command line
    phase,          \* control point of dez_vm_load_program and main
    program_size,   \* vm->program_size
    position,       \* bytes of file.body read so far
    current_addr    \* current_addr of the string loop

loaderVars == <<file, phase, program_size, position, current_addr>>
cpuVars    == <<regs, pc, sp, flags, step_count, at>>
allVars    == <<vars, loaderVars>>

Phase == {"open", "header", "size", "code", "strings", "protect", "main", "run", "exit"}

\* The loader never reads past the end of the file, and string bytes never
\* go past the window for them.
LoaderTypeOK ==
    /\ TypeOK
    /\ IsFile(file)
    /\ phase \in Phase
    /\ program_size \in Word
    /\ position \in 0 .. Len(file.body)
    /\ current_addr \in StringBase .. StringLimit

\* dez_vm_init, and the file main is given.
LoaderInit ==
    /\ ResetCPU
    /\ mem = ClearedMemory
    /\ protection = PowerOnProtection
    /\ step_count = 0
    /\ at = "while"
    /\ file \in Files
    /\ phase = "open"
    /\ program_size = 0
    /\ position = 0
    /\ current_addr = StringBase

\* Mutant: an early return that only reports the error.
LoadErrorQuiet ==
    /\ phase' = "main"
    /\ UNCHANGED <<mem, protection, state, cpuVars, file, position, current_addr>>

\* Every early return of the loader: report, set ERROR, back to main.
LoadError ==
    /\ state' = "ERROR"
    /\ phase' = "main"
    /\ UNCHANGED <<mem, protection, cpuVars, file, position, current_addr>>

OpenFile ==
    /\ phase = "open"
    /\ \/ /\ ~file.exists
          /\ LoadError
          /\ UNCHANGED program_size
       \/ /\ file.exists
          /\ phase' = "header"
          /\ UNCHANGED <<vars, file, program_size, position, current_addr>>

ReadHeader ==
    /\ phase = "header"
    /\ \/ /\ file.header = NoHeader
          /\ LoadError
          /\ UNCHANGED program_size
       \/ /\ file.header # NoHeader
          /\ program_size' = file.header
          /\ phase' = "size"
          /\ UNCHANGED <<vars, file, position, current_addr>>

\* Mutant: the size is not checked against the maximum.
ValidSizeUnbounded(n) == n > 0

ValidSize(n) == n > 0 /\ n <= MaxProgramSize

\* Validation, then the protection of the code segment is lifted.
CheckSize ==
    /\ phase = "size"
    /\ \/ /\ ~ValidSize(program_size)
          /\ LoadError
          /\ UNCHANGED program_size
       \/ /\ ValidSize(program_size)
          /\ SetProtection("code", FALSE)
          /\ phase' = "code"
          /\ UNCHANGED <<mem, cpuVars, state, file, program_size, position, current_addr>>

\* Mutant: the bytes are assembled in the wrong order.
BigEndianWord(s, p) ==
    s[p + 4] + ByteSpan * (s[p + 3] + ByteSpan * (s[p + 2] + ByteSpan * s[p + 1]))

\* The word stored in the four bytes of s after the first p.
LittleEndianWord(s, p) ==
    s[p + 1] + ByteSpan * (s[p + 2] + ByteSpan * (s[p + 3] + ByteSpan * s[p + 4]))

InstructionsRead == position \div 4

\* One round of the instruction loop: fread, then memory_write_word at the
\* round's index.  That write succeeds: the index is below the size of the code
\* segment, and the segment is unprotected.
ReadInstruction ==
    /\ phase = "code"
    /\ InstructionsRead < program_size
    /\ \/ /\ position + 4 > Len(file.body)
          /\ LoadError
          /\ UNCHANGED program_size
       \/ /\ position + 4 <= Len(file.body)
          /\ WriteWord(InstructionsRead, LittleEndianWord(file.body, position))
          /\ position' = position + 4
          /\ UNCHANGED <<protection, cpuVars, state, file, phase, program_size, current_addr>>

\* All instructions read.  Only a file longer than they are has string data.
InstructionsDone ==
    /\ phase = "code"
    /\ InstructionsRead = program_size
    /\ phase' = IF Len(file.body) > position THEN "strings" ELSE "protect"
    /\ UNCHANGED <<vars, file, program_size, position, current_addr>>

\* Mutant: the end of the string window is not tested.
MoreStringBytesUnbounded == position < Len(file.body)

MoreStringBytes == position < Len(file.body) /\ current_addr < StringLimit

\* One round of the string loop.  The result of memory_write_byte is ignored.
ReadStringByte ==
    /\ phase = "strings"
    /\ \/ /\ MoreStringBytes
          /\ WriteByte(current_addr, file.body[position + 1])
          /\ position' = position + 1
          /\ current_addr' = current_addr + 1
          /\ UNCHANGED <<protection, cpuVars, state, file, phase, program_size>>
       \/ /\ ~MoreStringBytes
          /\ phase' = "protect"
          /\ UNCHANGED <<vars, file, program_size, position, current_addr>>

Protect ==
    /\ phase = "protect"
    /\ SetProtection("code", TRUE)
    /\ phase' = "main"
    /\ UNCHANGED <<mem, cpuVars, state, file, program_size, position, current_addr>>

LoadSucceeded == state # "ERROR"

\* main's test after the load.
StartOrGiveUp ==
    /\ phase = "main"
    /\ phase' = IF LoadSucceeded THEN "run" ELSE "exit"
    /\ UNCHANGED <<vars, file, program_size, position, current_addr>>

\* dez_vm_run
Run == phase = "run" /\ (LoopTest \/ Step \/ CountStep) /\ UNCHANGED loaderVars

\* main returns after the run.
ReturnFromMain ==
    /\ phase = "run"
    /\ at = "done"
    /\ phase' = "exit"
    /\ UNCHANGED <<vars, file, program_size, position, current_addr>>

Exited == phase = "exit" /\ UNCHANGED allVars

\* dez_vm_load_program
LoadProgram ==
    \/ OpenFile \/ ReadHeader \/ CheckSize \/ ReadInstruction
    \/ InstructionsDone \/ ReadStringByte \/ Protect

\* main's part of it.
Main == StartOrGiveUp \/ ReturnFromMain \/ Exited
=============================================================================
