----------------------------- MODULE Semaphores -----------------------------
(***************************************************************************)
(* The semaphores of SharedMem.c: PE acquires, VE releases, SI sets the    *)
(* value.  Each has a ring of waiting PIDs, written at tail by enqwait and *)
(* read at head by deqwait.  A process that must wait is in the ring of    *)
(* the semaphore and in the block queue of the scheduler at once.          *)
(***************************************************************************)
EXTENDS Sched

CONSTANTS
  NSEM,      \* number of semaphores (100)
  WLEN       \* slots in the ring of each (100)

ASSUME SemAssumption ==
  /\ NSEM \in Nat \ {0}
  /\ WLEN \in Nat \ {0, 1}

VARIABLE semaphore

Semas == 0 .. NSEM - 1
LastSlot == WLEN - 1           \* offset of the last slot, waiting + 99
NoHolder == -1

SemRecord == [value : Nat, PID : PCBs \cup {NoHolder},
              waiting : [0 .. LastSlot -> PCBs], head : 0 .. LastSlot, tail : 0 .. LastSlot]

Holder(s) == semaphore[s].PID
RingEmpty(s) == semaphore[s].head = semaphore[s].tail

(***************************************************************************)
(* enqwait writes the PID at tail.  On the last slot, with head off the    *)
(* start, tail is reset to the start, and then advanced by the else of the *)
(* second test; with head at the start the machine exits.                  *)
(***************************************************************************)
RingFull(s) == semaphore[s].tail = LastSlot /\ semaphore[s].head = 0

\* Mutant: tail is never reset.
EnqwaitUnbounded(sem, p) ==
  [sem EXCEPT !.waiting[sem.tail] = p, !.tail = sem.tail + 1]

Enqwait(sem, p) ==
  [sem EXCEPT !.waiting[sem.tail] = p,
              !.tail = IF sem.tail = LastSlot THEN 1 ELSE sem.tail + 1]

(***************************************************************************)
(* deqwait returns a pointer to the slot at head and advances head.        *)
(***************************************************************************)
NextWaiting(sem) == sem.waiting[sem.head]

\* Mutant: head is not advanced.
DeqwaitAgain(sem) == sem

Deqwait(sem) == [sem EXCEPT !.head = IF sem.head = LastSlot THEN 0 ELSE sem.head + 1]

\* The machine calls exit(), or the instruction has no effect on the semaphores.
SemExit == Stop("exit") /\ UNCHANGED semaphore

SemContinue ==
  /\ Continue
  /\ UNCHANGED <<numPID, rq, bq, current, block, status>>

(***************************************************************************)
(* PE.  A semaphore of value 1 is taken; at value 0 the process waits; any *)
(* other value, which SI can store, is only reported.                      *)
(***************************************************************************)
\* Mutant: a semaphore that is taken is taken again.
AcquireAgain(s) ==
  /\ semaphore[s].value \in {0, 1}
  /\ semaphore' = [semaphore EXCEPT ![s].value = 0, ![s].PID = current]
  /\ SemContinue

Acquire(s) ==
  /\ semaphore[s].value = 1
  /\ semaphore' = [semaphore EXCEPT ![s].value = 0, ![s].PID = current]
  /\ SemContinue

WaitFor(s) ==
  /\ semaphore[s].value = 0
  /\ ~ RingFull(s)
  /\ semaphore' = [semaphore EXCEPT ![s] = Enqwait(@, current)]
  /\ bq' = Append(bq, current)
  /\ block' = [block EXCEPT ![current] = 1]
  /\ GiveUpSlice(Instr("PE", s))
  /\ UNCHANGED <<numPID, rq, current, status>>

PE(s) ==
  \/ s \in Semas /\ Acquire(s)
  \/ s \in Semas /\ WaitFor(s)
  \/ s \in Semas /\ semaphore[s].value = 0 /\ RingFull(s) /\ SemExit
  \/ s \in Semas /\ semaphore[s].value \notin {0, 1} /\ SemContinue /\ UNCHANGED semaphore
  \/ s \notin Semas /\ SemExit

(***************************************************************************)
(* VE.  The holder frees the semaphore, or hands it to the process at the  *)
(* head of the ring, which leaves the block queue for the ready queue.     *)
(***************************************************************************)
Free(s) ==
  /\ RingEmpty(s)
  /\ semaphore' = [semaphore EXCEPT ![s].value = 1, ![s].PID = NoHolder]
  /\ SemContinue

\* Mutant: the process leaves the block queue only.
HandOverUnready(s) ==
  LET p == NextWaiting(semaphore[s]) IN
  /\ ~ RingEmpty(s)
  /\ IsBlocked(PidOf(p))
  /\ semaphore' = [semaphore EXCEPT ![s] = [Deqwait(@) EXCEPT !.PID = p]]
  /\ bq' = BqWithout(PidOf(p))
  /\ block' = [block EXCEPT ![p] = 0]
  /\ Continue
  /\ UNCHANGED <<numPID, rq, current, status>>

HandOver(s) ==
  LET p == NextWaiting(semaphore[s]) IN
  /\ ~ RingEmpty(s)
  /\ IsBlocked(PidOf(p))
  /\ semaphore' = [semaphore EXCEPT ![s] = [Deqwait(@) EXCEPT !.PID = p]]
  /\ bq' = BqWithout(PidOf(p))
  /\ rq' = Append(rq, p)
  /\ block' = [block EXCEPT ![p] = 0]
  /\ Continue
  /\ UNCHANGED <<numPID, current, status>>

Release(s) ==
  \/ Free(s)
  \/ HandOver(s)
  \/ /\ ~ RingEmpty(s)
     /\ ~ IsBlocked(PidOf(NextWaiting(semaphore[s])))
     /\ Stop("segv")
     /\ UNCHANGED semaphore

VE(s) ==
  \/ s \notin Semas /\ SemExit
  \/ s \in Semas /\ semaphore[s].value = 1 /\ SemExit
  \/ /\ s \in Semas
     /\ semaphore[s].value # 1
     /\ \/ Holder(s) = NoHolder /\ SemContinue /\ UNCHANGED semaphore
        \/ Holder(s) = current /\ Release(s)
        \/ Holder(s) \notin {NoHolder, current} /\ SemExit

(***************************************************************************)
(* SI stores R in the value and touches neither the holder nor the ring.   *)
(***************************************************************************)
SI(s, r) ==
  \/ /\ s \in Semas
     /\ semaphore' = [semaphore EXCEPT ![s].value = r]
     /\ SemContinue
  \/ s \notin Semas /\ SemExit

\* The rings are malloc'ed; a slot is read only after it was written.
SemInit ==
  semaphore = [s \in Semas |-> [value |-> 1, PID |-> NoHolder,
                                waiting |-> [k \in 0 .. LastSlot |-> 0],
                                head |-> 0, tail |-> 0]]
=============================================================================
