-------------------------------- MODULE Mail --------------------------------
(***************************************************************************)
(* Message passing between BRAIN processes: SD and RC (Send and Rec in     *)
(* Exec_Brain.c), over the PostOffice, which has one word for every pair   *)
(* of a receiver and a sender, and over the WaitID of every PCB.           *)
(***************************************************************************)
EXTENDS Sched

CONSTANT Regs      \* the values register R may hold when it is sent or stored

\* So far below 2^32 that R + (PID << 16) does not wrap.
ASSUME RegsAssumption == \A r \in Regs : r \in Nat /\ r <= 2000000000

VARIABLES
  mailbox,   \* mailbox[d][s]: the word process s left for process d
  waitID     \* WaitID of each PCB

mailVars == <<mailbox, waitID>>

EMPTY == 255             \* 0xFF: nothing in this mailbox word
NobodyAwaited == 255     \* 0xFF in a WaitID
AnyoneAwaited == 238     \* 0xEE in a WaitID; Send tests it, nothing stores it

(***************************************************************************)
(* A message is one word: R plus the sender's PID shifted into byte2.      *)
(***************************************************************************)
Word(s, r) == r + s * 65536
\* Mutant: byte1 is taken for the source.
SourceByte1(w) == (w \div 16777216) % 256

Source(w) == (w \div 65536) % 256

(***************************************************************************)
(* Send.  The word goes into the destination's mailbox, over what was      *)
(* there.  If the destination waits for this sender it is unlinked from    *)
(* the block queue and made ready; otherwise the sender notes whom it      *)
(* waits for.  Either way the sender blocks.                               *)
(***************************************************************************)
\* Mutant: only a process that waits for anyone is woken.
AwaitedAnyone(d) == waitID[d] = AnyoneAwaited

Awaited(d) == waitID[d] \in {current, AnyoneAwaited}

\* Mutant: the destination's word of the sender's own mailbox is written.
PutInOwnMailbox(d, r) ==
  mailbox' = [mailbox EXCEPT ![current][d] = Word(current, r)]

PutInMailbox(d, r) ==
  mailbox' = [mailbox EXCEPT ![d][current] = Word(current, r)]

SendAndWake(d, r) ==
  /\ Awaited(d)
  /\ IsBlocked(d)
  /\ PutInMailbox(d, r)
  /\ bq' = Append(BqWithout(d), current)
  /\ rq' = Append(rq, d)
  /\ block' = [block EXCEPT ![d] = 0, ![current] = 1]
  /\ waitID' = [waitID EXCEPT ![d] = NobodyAwaited]
  /\ GiveUpSlice(Instr("SD", d))
  /\ UNCHANGED <<numPID, current, status>>

SendAndWait(d, r) ==
  /\ ~ Awaited(d)
  /\ PutInMailbox(d, r)
  /\ bq' = Append(bq, current)
  /\ block' = [block EXCEPT ![current] = 1]
  /\ waitID' = [waitID EXCEPT ![current] = d]
  /\ GiveUpSlice(Instr("SD", d))
  /\ UNCHANGED <<numPID, rq, current, status>>

Send(d, r) ==
  \/ /\ d \in Created
     /\ SendAndWake(d, r) \/ SendAndWait(d, r)
  \/ /\ \/ d \notin Created                \* MailBox_Start is NULL
        \/ Awaited(d) /\ ~ IsBlocked(d)    \* blockq runs off the queue
     /\ Stop("segv")
     /\ UNCHANGED mailVars

(***************************************************************************)
(* Rec.  Deliver is the part RC of a given process and RC of any process   *)
(* have in common: word s of the current process's mailbox is taken and    *)
(* the process its byte2 names is unblocked.  They differ in whose WaitID  *)
(* they reset, the parameter w.                                            *)
(***************************************************************************)
Delivered(src, s, w) ==
  /\ IsBlocked(PidOf(src))
  /\ mailbox' = [mailbox EXCEPT ![current][s] = EMPTY]
  /\ bq' = BqWithout(PidOf(src))
  /\ rq' = Append(rq, src)
  /\ block' = [block EXCEPT ![src] = 0]
  /\ waitID' = [waitID EXCEPT ![w] = NobodyAwaited]
  /\ Continue
  /\ UNCHANGED <<numPID, current, status>>

Deliver(src, s, w) ==
  \/ src \in PCBs /\ Delivered(src, s, w)
  \/ /\ src \in PCBs
     /\ ~ IsBlocked(PidOf(src))
     /\ Stop("segv")
     /\ UNCHANGED mailVars
  \/ /\ src \notin PCBs
     /\ Stop("oob")
     /\ UNCHANGED mailVars

MessageFrom(s) == mailbox[current][s] # EMPTY

\* RC of process s.  With no message the process blocks and its IC steps back.
RecFrom(s) ==
  \/ /\ MessageFrom(s)
     /\ LET src == Source(mailbox[current][s]) IN Deliver(src, s, src)
  \/ /\ ~ MessageFrom(s)
     /\ bq' = Append(bq, current)
     /\ block' = [block EXCEPT ![current] = 1]
     /\ waitID' = [waitID EXCEPT ![current] = s]
     /\ GiveUpSlice(Instr("RC", s))
     /\ UNCHANGED <<numPID, rq, current, status, mailbox>>

(***************************************************************************)
(* RCXX takes the message in the highest word of the mailbox, and is a     *)
(* no-op when there is none.  MailBox_End - MailBox_Start + 1 is 0 for the *)
(* first process: Exec_Brain computes its bounds from nPID = 0.            *)
(***************************************************************************)
Scanned == IF current = 0 THEN {} ELSE {s \in PCBs : MessageFrom(s)}

RecAny ==
  \/ \E s \in Scanned : /\ \A k \in Scanned : k <= s
                        /\ Deliver(Source(mailbox[current][s]), s, current)
  \/ /\ Scanned = {}
     /\ Continue
     /\ UNCHANGED <<numPID, rq, bq, current, block, status, mailVars>>

MailInit ==
  /\ mailbox = [d \in PCBs |-> [s \in PCBs |-> EMPTY]]
  /\ waitID = [i \in PCBs |-> IF i = 0 THEN NobodyAwaited ELSE 0]
=============================================================================
