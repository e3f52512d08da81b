------------------------------- MODULE Programs -------------------------------
(***************************************************************************)
(* BRAIN programs on the machine: what the instructions of Exec_Brain.c    *)
(* and SharedMem.c do to the registers, to the words of memory and to the  *)
(* shared words.  A program that runs here decides what Kernel leaves open:*)
(* the next instruction is the word at IC, which the program may have      *)
(* rewritten, Allocator decides what becomes of FK and EX, and a division  *)
(* looks at its divisor.                                                   *)
(*                                                                         *)
(* RAM has room for every page here, so that no word is on the disk only.  *)
(* Messages, GD and PD are not among the instructions.                     *)
(***************************************************************************)
EXTENDS Kernel, Words

CONSTANTS
  MEMORY, NSPACES,   \* as in Allocator
  Files,             \* the program files: name -> [length |-> n, words |-> list]
  Starts             \* the files that the machine may be started with

ASSUME MemoryAssumption == MEMORY \in Nat /\ NSPACES \in 1 .. 58

ASSUME FilesAssumption ==
  /\ Starts \subseteq DOMAIN Files
  /\ \A f \in DOMAIN Files : /\ Files[f].length \in 1 .. MEMORY - 1
                             /\ Len(Files[f].words) \in 0 .. Files[f].length

VARIABLES
  pcb,                        \* R, SP, C and IC of each PCB
  memory,                     \* Memory_Start
  shared,                     \* the shared words
  heap, br, lr, memoryNum     \* as in Allocator

allocation == <<heap, br, lr, memoryNum>>
machine == <<vars, pcb, memory, shared, allocation>>

\* The instructions of Kernel that the words of a program come down to; there is
\* no semaphore NSEM.
ProgramText ==
  {Instr(op, 0) : op \in {"NP", "DI", "H", "FK", "EX"}}
    \cup {Instr(op, s) : op \in {"PE", "VE", "SI"}, s \in 0 .. NSEM}

A == INSTANCE Allocator WITH Lengths <- {Files[f].length : f \in DOMAIN Files}

(***************************************************************************)
(* A word of memory or a register is an instruction or a number; a number  *)
(* in memory is the one it was stored from, and is read as ReadRAM reads   *)
(* that.                                                                   *)
(***************************************************************************)
Data(n) == [op |-> "data", arg |-> n]

NewPCB == [R |-> Data(0), SP |-> 0, C |-> FALSE, IC |-> 0]

Loaded(w) == IF w.op = "data" THEN Data(Number(Stored(w.arg))) ELSE w

R == pcb[current].R
SP == pcb[current].SP
C == pcb[current].C
NextIC == pcb[current].IC + 1

\* Mutant: the base register is left out.
AddressUnbased(a) == a

Address(a) == br[current] + a
Fetched == memory[Address(pcb[current].IC)]
Operand(i) == Loaded(memory[Address(i.arg)])

\* The stack instructions keep two digits of SP.
StackWord(sp) == Loaded(memory[Address(sp % 100)])
Below(sp) == (sp - 1) % WORD

(***************************************************************************)
(* What an instruction changes for its own process.                        *)
(***************************************************************************)
Registers(r, sp, c, ic) ==
  pcb' = [pcb EXCEPT ![current] = [R |-> r, SP |-> sp, C |-> c, IC |-> ic]]

SetR(r) == Registers(r, SP, C, NextIC) /\ UNCHANGED memory
SetC(c) == Registers(R, SP, c, NextIC) /\ UNCHANGED memory
SetSP(sp) == Registers(R, sp, C, NextIC) /\ UNCHANGED memory
Goto(ic) == Registers(R, SP, C, ic) /\ UNCHANGED memory
Advance == Goto(NextIC)

Write(a, w) == memory' = [memory EXCEPT ![Address(a)] = w]

\* AddToReg and its like, and the stack instructions.
\* Mutant: the register is subtracted from the word.
ComputeReversed(op, x, y) ==
  CASE op \in {"AD", "AS"} -> (x + y) % WORD
    [] op \in {"SU", "SS"} -> (y - x) % WORD
    [] op \in {"MU", "MS"} -> (x * y) % WORD
    [] op \in {"DI", "DS"} -> x \div y

Compute(op, x, y) ==
  CASE op \in {"AD", "AS"} -> (x + y) % WORD
    [] op \in {"SU", "SS"} -> (x - y) % WORD
    [] op \in {"MU", "MS"} -> (x * y) % WORD
    [] op \in {"DI", "DS"} -> x \div y

\* Mutant: the operands of a stack instruction are swapped.
OnStackSwapped(op) == Compute(op, StackWord(SP).arg, StackWord(Below(SP)).arg)

OnStack(op) == Compute(op, StackWord(Below(SP)).arg, StackWord(SP).arg)

InRegister == {"AD", "SU", "MU", "DI"}
OnTheStack == {"AS", "SS", "MS", "DS"}

Divisor(i) == IF i.op = "DI" THEN Operand(i).arg ELSE StackWord(SP).arg
DividesByZero(i) == i.op \in {"DI", "DS"} /\ Divisor(i) = 0

(***************************************************************************)
(* LL on an instruction replaces its operand by two digits of a number; LH *)
(* on a number keeps the bits that its masks leave.                        *)
(***************************************************************************)
LowReplaced(w, n) == Instr(w.op, n % 100)
Bit(n, k) == (n \div 2 ^ k) % 2
HighMasked(x, y) == MapThenSumSet(LAMBDA k : 2 ^ k * Bit(x, k) * Bit(y, k), 0 .. 7)

\* The result of a stack instruction, like R in PH, is stored modulo 10000.
Local(i) ==
  \/ i.op \in {"NP", "data"} /\ Advance
  \/ i.op = "LR" /\ SetR(Operand(i))
  \/ i.op = "LL" /\ R.op # "data" /\ SetR(LowReplaced(R, Operand(i).arg))
  \/ i.op = "LH" /\ R.op = "data" /\ SetR(Data(HighMasked(R.arg, Operand(i).arg)))
  \/ i.op = "GP" /\ SetR(Data(current))
  \/ i.op = "PS" /\ SetR(Data(SP))
  \/ i.op = "SP" /\ SetSP(R.arg)
  \/ i.op = "SR" /\ Write(i.arg, R) /\ Registers(R, SP, C, NextIC)
  \/ i.op = "CE" /\ SetC(R = Operand(i))
  \/ i.op = "CL" /\ SetC(R.arg < Operand(i).arg)
  \/ i.op = "BT" /\ Goto(IF C THEN i.arg ELSE NextIC)
  \/ i.op = "BU" /\ Goto(i.arg)
  \/ i.op \in InRegister /\ SetR(Data(Compute(i.op, R.arg, Operand(i).arg)))
  \/ i.op = "PH" /\ LET sp == (SP + 1) % WORD IN
                    Write(sp % 100, Data(R.arg % 10000)) /\ Registers(R, sp, C, NextIC)
  \/ i.op = "PP" /\ Registers(StackWord(SP), Below(SP), C, NextIC) /\ UNCHANGED memory
  \/ /\ i.op \in OnTheStack
     /\ Write(Below(SP) % 100, Data(OnStack(i.op) % 10000))
     /\ Registers(R, Below(SP), C, NextIC)

LocalStep(i) ==
  /\ \/ ~ DividesByZero(i) /\ Tick /\ Local(i)
     \/ DividesByZero(i) /\ Abort("fpe") /\ UNCHANGED <<pcb, memory>>
  /\ UNCHANGED <<shared, allocation>>

(***************************************************************************)
(* Instructions on the shared words and on semaphores.                     *)
(***************************************************************************)
LS(s) == SetR(Data(shared[s])) /\ UNCHANGED shared

ST(s) == shared' = [shared EXCEPT ![s] = R.arg] /\ Advance

SharedStep(i) ==
  /\ \/ i.op = "LS" /\ i.arg \in Semas /\ Tick /\ LS(i.arg)
     \/ i.op = "ST" /\ i.arg \in Semas /\ Tick /\ ST(i.arg)
     \/ i.op = "PE" /\ PE(i.arg) /\ UNCHANGED <<mailVars, shared>> /\ Advance
     \/ i.op = "VE" /\ VE(i.arg) /\ UNCHANGED <<mailVars, shared>> /\ Advance
     \/ i.op = "SI" /\ SI(i.arg, R.arg) /\ UNCHANGED <<mailVars, shared>> /\ Advance
     \/ i.op = "H" /\ Halt /\ UNCHANGED shared /\ Advance
  /\ UNCHANGED allocation

(***************************************************************************)
(* FK.  The clone gets the words of the caller and its C and IC, but its   *)
(* SP stays what it was in the PCB; each finds the other's PID in R.  The  *)
(* words are copied one by one: if the clone's block begins inside the     *)
(* caller's, those before its base are what is found again and again.      *)
(***************************************************************************)
CopySource(base, i) ==
  LET from == br[current] IN
  from + IF from < base THEN i % (base - from) ELSE i

CopyProgram ==
  LET base == A!Location(heap, lr[current]) IN
  memory' = [a \in DOMAIN memory |->
               IF a \in A!Block(base, lr[current]) THEN memory[CopySource(base, a - base)]
               ELSE memory[a]]

CloneRegisters ==
  pcb' = [pcb EXCEPT ![numPID] = [R |-> Data(current), SP |-> @.SP, C |-> C, IC |-> NextIC],
                     ![current] = [@ EXCEPT !.R = Data(numPID), !.IC = NextIC]]

ForkStep ==
  /\ Fetched.op = "FK"
  /\ \/ MakeClone /\ A!Clone(current) /\ CopyProgram /\ CloneRegisters
     \/ Tick /\ A!NoClone(current) /\ SetR(Data(0))
     \/ /\ \E how \in {"exit", "oob"} : Abort(how)
        /\ A!ForkFails(current)
        /\ UNCHANGED <<pcb, memory>>
  /\ UNCHANGED shared

(***************************************************************************)
(* EX of a file.  Its words are written at the old base of the process,    *)
(* over as much of the old program as it lists; R, SP and C are kept.      *)
(***************************************************************************)
LoadFile(base, words) ==
  memory' = [a \in DOMAIN memory |->
               IF a \in A!Block(base, Len(words)) THEN words[a - base + 1] ELSE memory[a]]

ExecStep ==
  /\ Fetched.op = "EX"
  /\ LET f == Fetched.arg IN
     \/ /\ f \notin DOMAIN Files               \* cannot be opened
        /\ Tick /\ Advance /\ UNCHANGED allocation
     \/ /\ f \in DOMAIN Files
        /\ Tick /\ A!Load(current, Files[f].length, Len(Files[f].words))
        /\ LoadFile(br[current], Files[f].words) /\ Registers(R, SP, C, 0)
     \/ /\ f \in DOMAIN Files
        /\ \E how \in {"exit", "oob"} : Abort(how)
        /\ A!LoadFails(current, Files[f].length, Len(Files[f].words))
        /\ UNCHANGED <<pcb, memory>>
  /\ UNCHANGED shared

Execute ==
  /\ status = "running" /\ tdma < TDMA_Setting
  /\ LocalStep(Fetched) \/ SharedStep(Fetched) \/ ForkStep \/ ExecStep

EndSlice == SliceEnd /\ UNCHANGED <<pcb, memory, shared, allocation>>

Off == status # "running" /\ UNCHANGED machine

(***************************************************************************)
(* LoadProgram and the first PCB.  Words that no file lists are malloc'ed  *)
(* and hold anything; no program of Files reads one before it writes it.   *)
(***************************************************************************)
Boot ==
  /\ Init
  /\ A!Init
  /\ shared = [s \in Semas |-> 0]
  /\ pcb = [p \in PCBs |-> NewPCB]
  /\ \E f \in Starts :
       /\ lr[0] = Files[f].length /\ memoryNum = Len(Files[f].words)
       /\ memory = [a \in 0 .. MEMORY - 1 |->
                      IF a < Len(Files[f].words) THEN Files[f].words[a + 1] ELSE Data(0)]

ExecuteNext == Execute \/ EndSlice \/ Off

ProgramSpec == Boot /\ [][ExecuteNext]_machine /\ WF_machine(ExecuteNext)
-----------------------------------------------------------------------------
(***************************************************************************)
(* What the machine leaves to its programs: SI is given one of Regs, the   *)
(* words they write are their own, and they fork and run each other in an  *)
(* order in which the allocator gives out the last hole of Spaces first,   *)
(* and gives EX the memory of the program that it replaces.                *)
(***************************************************************************)
Runs(ops) == status = "running" /\ tdma < TDMA_Setting /\ Fetched.op \in ops

OwnOffsets == 0 .. lr[current] - 1

StoresRegs == Runs({"SI"}) => R.arg \in Regs

AddressesOwnWords ==
  /\ Runs({"SR"}) => Fetched.arg \in OwnOffsets
  /\ Runs({"PH"}) => ((SP + 1) % WORD) % 100 \in OwnOffsets
  /\ Runs(OnTheStack) => Below(SP) % 100 \in OwnOffsets

AllocatesCarefully ==
  /\ Runs({"FK"}) => A!UsesLastHole(heap, lr[current])
  /\ Runs({"EX"}) /\ Fetched.arg \in DOMAIN Files =>
       \/ A!ReleaseFails(heap, br[current], lr[current])
       \/ A!GetsOwnMemory(current, Files[Fetched.arg].length)

WellBehaved == StoresRegs /\ AddressesOwnWords /\ AllocatesCarefully

(***************************************************************************)
(* A process changes no word of another one's program.  No instruction     *)
(* compares an address with LR: it takes the allocator, FK and EX to keep  *)
(* the programs apart, and the base register to keep each in its own.      *)
(***************************************************************************)
WritesStayInside ==
  [][\A p \in Created \ {current} : \A a \in A!Program(p) : memory'[a] = memory[a]]_machine

(***************************************************************************)
(* The machine exits with success when the ready queue is empty, because   *)
(* every process has halted and not because they wait for each other, and  *)
(* no semaphore is released by a process that does not hold it.            *)
(***************************************************************************)
ExitMeansDone == status = "exit" => Created \subseteq Halted
=============================================================================
