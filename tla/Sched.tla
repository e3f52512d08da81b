------------------------------- MODULE Sched -------------------------------
(***************************************************************************)
(* The process table and the two queues of the BRAIN machine: PCB_Array    *)
(* (Exec_Brain.c), the ready queue rq and the block queue bq (sched.c).    *)
(* A process is known by the index of its PCB.  The other kernel modules   *)
(* extend this one and build their handlers from its operators.            *)
(*                                                                         *)
(* The machine is one C thread that executes one instruction of one        *)
(* simulated process at a time, so a handler is one atomic step.           *)
(***************************************************************************)
EXTENDS Integers, Sequences, SequencesExt

CONSTANTS
  NPROC,         \* size of PCB_Array and of every mailbox (100)
  TDMA_Setting   \* instructions in a time slice (5)

ASSUME SchedAssumption ==
  /\ NPROC \in 1 .. 100
  /\ TDMA_Setting \in Nat \ {0}

VARIABLES
  numPID,     \* number of processes created
  rq, bq,     \* ready and block queue, front first: sequences of PCB indices
  current,    \* index of Current_PCB
  tdma,       \* TDMA of the current process; it is 0 in every other PCB
  block,      \* Block flag of each PCB
  blockedOn,  \* the instruction a process blocked or halted in (see Text below)
  status      \* "running", or how the machine stopped

schedVars == <<numPID, rq, bq, current, tdma, block, blockedOn, status>>

PCBs == 0 .. NPROC - 1
Created == 0 .. numPID - 1

\* Instructions are abstracted to an operation and its operand.
Instr(op, arg) == [op |-> op, arg |-> arg]
NoInstr == Instr("none", 0)
HaltInstr == Instr("H", 0)

Statuses == {"running",
             "exit",      \* exit() was called
             "segv",      \* null pointer dereferenced
             "oob",       \* memory outside an array touched
             "fpe"}       \* integer division by zero

\* The PID field of a PCB: calloc leaves 0 in it until Fork fills it in.
PidOf(i) == IF i < numPID THEN i ELSE 0

(***************************************************************************)
(* blockq(pid, 0) walks the block queue from its front and unlinks the     *)
(* first entry with that PID; running off the back dereferences NULL.      *)
(***************************************************************************)
IsBlocked(pid) == \E k \in DOMAIN bq : PidOf(bq[k]) = pid

FirstEntry(pid) ==
  CHOOSE k \in DOMAIN bq : /\ PidOf(bq[k]) = pid
                           /\ \A j \in 1 .. k - 1 : PidOf(bq[j]) # pid

\* Mutant: the front of the block queue is taken whoever it is.
BqWithoutFront(pid) == Tail(bq)

BqWithout(pid) == RemoveAt(bq, FirstEntry(pid))

(***************************************************************************)
(* What the main loop does around an instruction: it runs while the slice  *)
(* lasts, fetches the instruction at IC and counts it against the slice.   *)
(* A process that blocked in RC had its IC decremented, so it fetches the  *)
(* same RC again.                                                          *)
(***************************************************************************)
Fetches(i) ==
  /\ status = "running"
  /\ tdma < TDMA_Setting
  /\ blockedOn[current].op = "RC" => i = blockedOn[current]

\* The instruction completes and the process goes on with its slice.
Continue ==
  /\ tdma' = tdma + 1
  /\ blockedOn' = [blockedOn EXCEPT ![current] = NoInstr]

\* The process gives up its slice inside instruction i: TDMA=TDMA_Setting,
\* then the main loop's TDMA++.
GiveUpSlice(i) ==
  /\ tdma' = TDMA_Setting + 1
  /\ blockedOn' = [blockedOn EXCEPT ![current] = i]

(***************************************************************************)
(* The end of a slice: the current process goes to the back of the ready   *)
(* queue unless it is blocked, and the front of the ready queue runs.  An  *)
(* empty ready queue is exit(0), in curlyqueue_dequeue.                    *)
(***************************************************************************)
\* Mutant: the process goes to the front.
RequeuedFirst == IF block[current] = 0 THEN <<current>> \o rq ELSE rq

Requeued == IF block[current] = 0 THEN Append(rq, current) ELSE rq

ContextSwitch ==
  /\ status = "running"
  /\ tdma >= TDMA_Setting
  /\ Requeued # <<>>
  /\ current' = PidOf(Head(Requeued))
  /\ rq' = Tail(Requeued)
  /\ tdma' = 0
  /\ UNCHANGED <<numPID, bq, block, blockedOn, status>>

NothingReady ==
  /\ status = "running"
  /\ tdma >= TDMA_Setting
  /\ Requeued = <<>>
  /\ status' = "exit"
  /\ UNCHANGED <<numPID, rq, bq, current, tdma, block, blockedOn>>

\* The machine stops inside an instruction; what is in memory no longer matters.
Stop(how) ==
  /\ status' = how
  /\ UNCHANGED <<numPID, rq, bq, current, tdma, block, blockedOn>>

\* One PCB is filled in and queued before the main loop starts.
SchedInit ==
  /\ numPID = 1
  /\ rq = <<>>
  /\ bq = <<>>
  /\ current = 0
  /\ tdma = 0
  /\ block = [i \in PCBs |-> 0]
  /\ blockedOn = [i \in PCBs |-> NoInstr]
  /\ status = "running"
=============================================================================
