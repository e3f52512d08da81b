------------------------------- MODULE Kernel -------------------------------
(***************************************************************************)
(* The main loop of the BRAIN machine (Exec_Brain): fetch an instruction   *)
(* of the current process, execute it, count it against the time slice,    *)
(* switch at the end of the slice.  Composes the mailboxes of Mail and the *)
(* rings of Semaphores over the queues of Sched.                           *)
(*                                                                         *)
(* What a program does is left open: a process may fetch any instruction   *)
(* of Text, except that one which blocked in RC fetches it again.          *)
(***************************************************************************)
EXTENDS Mail, Semaphores

CONSTANT Text      \* the instructions programs are made of

Ops == {"NP", "DI", "H", "GP", "FK", "EX", "SD", "RC", "RX", "PE", "VE", "SI", "LS"}

ASSUME TextAssumption ==
  Text \subseteq [op : Ops, arg : Nat]

\* SD and RC name a process by two digits, and PCB_Array has room for them all.
ASSUME OperandAssumption ==
  \A i \in Text : i.op \in {"SD", "RC"} => i.arg \in PCBs

vars == <<schedVars, mailVars, semaphore>>

(***************************************************************************)
(* Instructions that change only registers, the data of their own process  *)
(* or shared data: they cost a tick of the slice.  NP stands for the loads,*)
(* stores, arithmetic, comparisons, branches, stack operations, GD and PD. *)
(***************************************************************************)
Tick ==
  /\ Continue
  /\ UNCHANGED <<numPID, rq, bq, current, block, status, mailVars, semaphore>>

Abort(how) == Stop(how) /\ UNCHANGED <<mailVars, semaphore>>

\* DI and DS divide by a word of memory.
Divide == Tick \/ Abort("fpe")

\* LS and ST check that the shared word exists.
SharedWord(s) == (s \in Semas /\ Tick) \/ (s \notin Semas /\ Abort("exit"))

(***************************************************************************)
(* H.  The process is neither ready nor in the block queue from then on.   *)
(***************************************************************************)
Halt ==
  /\ block' = [block EXCEPT ![current] = 1]
  /\ GiveUpSlice(HaltInstr)
  /\ UNCHANGED <<numPID, rq, bq, current, status, mailVars, semaphore>>

(***************************************************************************)
(* FK.  Memory may run out inside RequestMemory, which exits or goes on    *)
(* past its end, or be found too small by Fork itself, which returns 0 in  *)
(* R; and PCB_Array has no element NPROC.  Otherwise the next PCB becomes  *)
(* a clone, queued as ready, and the caller gives up its slice.            *)
(***************************************************************************)
OutOfMemory == \E how \in {"exit", "oob"} : Abort(how)

\* Mutant: the clone is not queued.
MakeCloneUnqueued ==
  /\ numPID < NPROC
  /\ numPID' = numPID + 1
  /\ block' = [block EXCEPT ![numPID] = 0]
  /\ waitID' = [waitID EXCEPT ![numPID] = NobodyAwaited]
  /\ GiveUpSlice(NoInstr)
  /\ UNCHANGED <<rq, bq, current, status, mailbox, semaphore>>

MakeClone ==
  /\ numPID < NPROC
  /\ numPID' = numPID + 1
  /\ block' = [block EXCEPT ![numPID] = 0]
  /\ waitID' = [waitID EXCEPT ![numPID] = NobodyAwaited]
  /\ rq' = Append(rq, numPID)
  /\ GiveUpSlice(NoInstr)
  /\ UNCHANGED <<bq, current, status, mailbox, semaphore>>

Fork ==
  \/ MakeClone
  \/ Tick
  \/ OutOfMemory

\* EX goes on with another program text.  Its memory may run out as that of FK;
\* a program that is too long, or one hole too many, is written past an array.
Exec == Tick \/ OutOfMemory

Instruction(i) ==
  \/ i.op \in {"NP", "GP"} /\ Tick
  \/ i.op = "DI" /\ Divide
  \/ i.op = "H"  /\ Halt
  \/ i.op = "FK" /\ Fork
  \/ i.op = "EX" /\ Exec
  \/ i.op = "LS" /\ SharedWord(i.arg)
  \/ i.op = "SD" /\ (\E r \in Regs : Send(i.arg, r)) /\ UNCHANGED semaphore
  \/ i.op = "RC" /\ RecFrom(i.arg) /\ UNCHANGED semaphore
  \/ i.op = "RX" /\ RecAny /\ UNCHANGED semaphore
  \/ i.op = "PE" /\ PE(i.arg) /\ UNCHANGED mailVars
  \/ i.op = "VE" /\ VE(i.arg) /\ UNCHANGED mailVars
  \/ i.op = "SI" /\ (\E r \in Regs : SI(i.arg, r)) /\ UNCHANGED mailVars

Step == \E i \in Text : Fetches(i) /\ Instruction(i)

SliceEnd ==
  /\ ContextSwitch \/ NothingReady
  /\ UNCHANGED <<mailVars, semaphore>>

\* The machine has stopped; lets TLC report any other state without successor.
Stopped == status # "running" /\ UNCHANGED vars

Init == SchedInit /\ MailInit /\ SemInit

Next == Step \/ SliceEnd \/ Stopped

\* The only thread of the program runs the main loop until the machine stops.
Spec == Init /\ [][Next]_vars /\ WF_vars(Next)
-----------------------------------------------------------------------------
(***************************************************************************)
(* Where the processes are.                                                *)
(***************************************************************************)
Ready == Range(rq)
Blocked == Range(bq)
Halted == {p \in Created : blockedOn[p] = HaltInstr}

BlockedIn(op, arg) == {p \in Blocked : blockedOn[p] = Instr(op, arg)}

(***************************************************************************)
(* The types of the variables.                                             *)
(***************************************************************************)
SchedTypeOK ==
  /\ numPID \in 1 .. NPROC
  /\ rq \in Seq(PCBs) /\ bq \in Seq(PCBs)
  /\ current \in PCBs
  /\ tdma \in 0 .. TDMA_Setting + 1
  /\ block \in [PCBs -> {0, 1}]
  /\ blockedOn \in [PCBs -> Text \cup {NoInstr, HaltInstr}]
  /\ status \in Statuses

MailTypeOK ==
  /\ mailbox \in [PCBs -> [PCBs -> Nat]]
  /\ waitID \in [PCBs -> PCBs \cup {NobodyAwaited}]

SemTypeOK == semaphore \in [Semas -> SemRecord]

TypeOK == SchedTypeOK /\ MailTypeOK /\ SemTypeOK

(***************************************************************************)
(* No process is lost and none is in two places.  Every created process is *)
(* running, or once in the ready queue, or once in the block queue, or     *)
(* halted; its Block flag is set exactly when it is blocked or halted.     *)
(* Send, Rec, PE, VE, Fork and the context switch each move processes      *)
(* between the queues and set the flag in separate statements.             *)
(***************************************************************************)
EachInOnePlace ==
  /\ IsInjective(rq) /\ IsInjective(bq)
  /\ Ready \cap (Blocked \cup Halted) = {}
  /\ Blocked \cap Halted = {}
  /\ current \notin Ready
  /\ tdma < TDMA_Setting => current \notin Blocked \cup Halted

EveryProcessAccounted ==
  /\ EachInOnePlace
  /\ Created = Ready \cup Blocked \cup Halted \cup {current}
  /\ \A p \in Created : block[p] = 1 <=> p \in Blocked \cup Halted

(***************************************************************************)
(* No lost wakeup in RC: while a process sleeps in RC of s, its mailbox    *)
(* word for s is empty and its WaitID names s, which is what Send tests.   *)
(***************************************************************************)
SleeperHasNoMail ==
  \A p, s \in PCBs : p \in BlockedIn("RC", s) => /\ mailbox[p][s] = EMPTY
                                                 /\ waitID[p] = s

(***************************************************************************)
(* No orphaned sender: while a process is blocked in SD to d, its message  *)
(* is still in d's mailbox, so that an RC of d can release it.             *)
(***************************************************************************)
SenderHasMailOut ==
  \A p, d \in PCBs : p \in BlockedIn("SD", d) => mailbox[d][p] # EMPTY

(***************************************************************************)
(* The converse, as the comment in Send has it ("Do no more instructions   *)
(* until message confirmation"): a process whose message has not been      *)
(* received does not run.                                                  *)
(***************************************************************************)
SenderWaitsForReceipt ==
  \A d \in PCBs : tdma < TDMA_Setting => mailbox[d][current] = EMPTY

(***************************************************************************)
(* Whoever takes a message releases the process that sent it: byte2 of the *)
(* word, "Source PID" in Rec, names the mailbox word it was found in.      *)
(***************************************************************************)
ReleasesSender ==
  [][\A d, s \in PCBs :
       mailbox[d][s] # EMPTY /\ mailbox'[d][s] = EMPTY => s \notin Blocked']_vars

(***************************************************************************)
(* Mutual exclusion across all ways of leaving the block queue: a process  *)
(* blocked in PE of s leaves it only as the new holder of s.               *)
(***************************************************************************)
PEReturnsToHolder ==
  [][\A p \in PCBs, s \in Semas :
       p \in BlockedIn("PE", s) /\ p \notin Blocked' => semaphore'[s].PID = p]_vars

RingLength(sem) == (sem.tail - sem.head) % WLEN

Ring(sem) ==
  [k \in 1 .. RingLength(sem) |-> sem.waiting[(sem.head + k - 1) % WLEN]]

\* x is ahead of y in the queue q.
Precedes(q, x, y) == \E j, k \in DOMAIN q : j < k /\ q[j] = x /\ q[k] = y

(***************************************************************************)
(* The ring of s, read from head to tail, is the list of the processes     *)
(* blocked in PE of s in the order they were blocked, so that VE wakes the *)
(* longest waiting one and never a process that does not wait for s.       *)
(***************************************************************************)
RingIsWaiters ==
  \A s \in Semas :
    LET ring == Ring(semaphore[s]) IN
    /\ Range(ring) = BlockedIn("PE", s)
    /\ \A j, k \in DOMAIN ring : j < k => Precedes(bq, ring[j], ring[k])

(***************************************************************************)
(* PE adds the process "to wait list for semaphore" (PE's comment): the    *)
(* process and nothing else, at the end.                                   *)
(***************************************************************************)
WaitAddsCurrent ==
  [][\A s \in Semas :
       bq' = Append(bq, current) /\ blockedOn'[current] = Instr("PE", s) =>
         Ring(semaphore'[s]) = Append(Ring(semaphore[s]), current)]_vars

(***************************************************************************)
(* VE takes the process at the head of the ring "off the block q": it is   *)
(* in the block queue.                                                     *)
(***************************************************************************)
HeadWaiterIsBlocked ==
  \A s \in Semas : ~ RingEmpty(s) => IsBlocked(PidOf(NextWaiting(semaphore[s])))

\* Bound: no ring has come to its last slot (99 waits at one semaphore), where
\* Enqwait goes wrong and RingIsWaiters no longer holds.
FirstLap == \A s \in Semas : semaphore[s].tail < LastSlot

\* The kernel never runs off the block queue nor into a mailbox that is not there.
NoNullDereference == status # "segv"

(***************************************************************************)
(* The round robin is fair: a ready process runs, unless the machine stops.*)
(***************************************************************************)
NoStarvation ==
  \A p \in PCBs : p \in Ready ~> (current = p \/ status # "running")
=============================================================================
