---------------------------- MODULE KernelProofs ----------------------------
(***************************************************************************)
(* Kernel for any number of processes, semaphores and instructions.        *)
(***************************************************************************)
EXTENDS Kernel, DataLemmas

\* What is sent is an address in R: it leaves byte2 of the word to the PID.
SmallRegs == \A r \in Regs : r < 65536

(***************************************************************************)
(* The inductive invariant.  An unused PCB is in no queue and has not      *)
(* halted, so Fork may take it; a mailbox word names its sender in byte2,  *)
(* so that Rec unblocks that sender; the rings hold created processes.     *)
(***************************************************************************)
UnusedClean == \A p \in PCBs \ Created : blockedOn[p] = NoInstr

Placed == SchedTypeOK /\ EveryProcessAccounted /\ UnusedClean

MailNamesSender ==
  \A d, s \in PCBs : mailbox[d][s] # EMPTY => s \in Created /\ Source(mailbox[d][s]) = s

RingsCreated ==
  \A s \in Semas : \A k \in 0 .. LastSlot : semaphore[s].waiting[k] \in Created

IInv == /\ SmallRegs
        /\ Placed
        /\ MailTypeOK /\ MailNamesSender
        /\ SemTypeOK /\ RingsCreated

-----------------------------------------------------------------------------
(***************************************************************************)
(* The ways in which an instruction moves processes.                       *)
(***************************************************************************)
LEMMA UnlinkedEntry ==
  ASSUME Placed, NEW p \in Created, IsBlocked(p)
  PROVE  /\ PidOf(p) = p
         /\ \E k \in 1 .. Len(bq) : bq[k] = p /\ BqWithout(p) = RemoveAt(bq, k)
<1> USE DEF Placed
<1>0. numPID \in Nat /\ \A j \in Created : PidOf(j) = j
  BY SchedAssumption DEF SchedTypeOK, PidOf, Created
<1>1. \A k \in DOMAIN bq : bq[k] \in Created /\ PidOf(bq[k]) = bq[k]
  <2>1. Blocked \subseteq Created
    BY DEF EveryProcessAccounted
  <2>2. \A k \in DOMAIN bq : bq[k] \in Blocked
    BY DEF Blocked, Range
  <2> QED
    BY <1>0, <2>1, <2>2
<1>2. PICK k \in DOMAIN bq : bq[k] = p
  BY <1>1 DEF IsBlocked
<1>3. \A j \in DOMAIN bq : bq[j] = p => j = k
  BY <1>2 DEF EveryProcessAccounted, EachInOnePlace, IsInjective
<1>4. DOMAIN bq = 1 .. Len(bq) /\ Len(bq) \in Nat
  BY DEF SchedTypeOK
<1>5. FirstEntry(p) = k
  BY <1>1, <1>2, <1>3, <1>4 DEF FirstEntry
<1> QED
  BY <1>0, <1>2, <1>4, <1>5 DEF BqWithout

LEMMA Unlinked ==
  ASSUME Placed, NEW p \in Created, IsBlocked(p)
  PROVE  /\ PidOf(p) = p
         /\ p \in Blocked
         /\ BqWithout(p) \in Seq(PCBs)
         /\ IsInjective(BqWithout(p))
         /\ Range(BqWithout(p)) = Blocked \ {p}
<1>1. PidOf(p) = p
  BY UnlinkedEntry
<1>2. PICK k \in 1 .. Len(bq) : bq[k] = p /\ BqWithout(p) = RemoveAt(bq, k)
  BY UnlinkedEntry
<1>3. IsInjective(bq) /\ bq \in Seq(PCBs) /\ DOMAIN bq = 1 .. Len(bq)
  BY DEF Placed, EveryProcessAccounted, EachInOnePlace, SchedTypeOK
<1>4. /\ RemoveAt(bq, k) \in Seq(PCBs)
      /\ IsInjective(RemoveAt(bq, k))
      /\ Range(RemoveAt(bq, k)) = Range(bq) \ {bq[k]}
  BY <1>3, RemoveAtRange
<1>5. p \in Blocked
  BY <1>2, <1>3 DEF Blocked, Range
<1> QED
  BY <1>1, <1>2, <1>4, <1>5 DEF Blocked

LEMMA TickPlaced ==
  ASSUME Placed, NEW i, Fetches(i), Continue,
         UNCHANGED <<numPID, rq, bq, current, block, status>>
  PROVE  Placed'
<1> USE SchedAssumption DEF Placed
<1>1. SchedTypeOK'
  BY DEF SchedTypeOK, Continue, Fetches, PCBs, Statuses
<1>2. NoInstr # HaltInstr
  BY DEF NoInstr, HaltInstr, Instr
<1>3. Blocked' = Blocked /\ Ready' = Ready /\ Created' = Created
  BY DEF Blocked, Ready, Created
<1>4. current \in Created /\ current \notin Halted
  BY DEF EveryProcessAccounted, EachInOnePlace, Fetches
<1>5. Halted' = Halted
  BY <1>2, <1>3, <1>4 DEF Halted, Continue, SchedTypeOK, Created, PCBs
<1>6. EachInOnePlace'
  BY <1>3, <1>5 DEF EveryProcessAccounted, EachInOnePlace, Fetches
<1>7. EveryProcessAccounted'
  BY <1>3, <1>5, <1>6 DEF EveryProcessAccounted
<1>8. UnusedClean'
  BY <1>3 DEF UnusedClean, Continue, SchedTypeOK, PCBs
<1> QED
  BY <1>1, <1>7, <1>8

\* A process that fetches is created, in no queue and not halted.
LEMMA FetcherIsNowhere ==
  ASSUME Placed, NEW i, Fetches(i)
  PROVE  /\ current \in Created /\ current \in PCBs
         /\ current \notin Ready \cup Blocked \cup Halted
         /\ tdma \in Nat /\ tdma < TDMA_Setting
  BY SchedAssumption
     DEF Placed, EveryProcessAccounted, EachInOnePlace, Fetches, SchedTypeOK

\* Putting the current process to sleep in instruction i.
LEMMA SleepPlaced ==
  ASSUME Placed, NEW i \in Text, Fetches(i), i # HaltInstr,
         bq' = Append(bq, current),
         block' = [block EXCEPT ![current] = 1],
         GiveUpSlice(i),
         UNCHANGED <<numPID, rq, current, status>>
  PROVE  Placed'
<1> USE SchedAssumption DEF Placed
<1>1. /\ current \in Created /\ current \in PCBs
      /\ current \notin Ready \cup Blocked \cup Halted
  BY FetcherIsNowhere
<1>2. bq' \in Seq(PCBs) /\ Range(bq') = Range(bq) \cup {current} /\ IsInjective(bq')
  BY <1>1, AppendRange DEF SchedTypeOK, EveryProcessAccounted, EachInOnePlace, Blocked
<1>3. SchedTypeOK'
  BY <1>2 DEF SchedTypeOK, GiveUpSlice
<1>4. Blocked' = Blocked \cup {current} /\ Ready' = Ready /\ Created' = Created
  BY <1>2 DEF Blocked, Ready, Created
<1>5. Halted' = Halted
  BY <1>1, <1>4 DEF Halted, GiveUpSlice, SchedTypeOK, Created, PCBs
<1>6. tdma' = TDMA_Setting + 1 /\ ~ (tdma' < TDMA_Setting)
  BY DEF GiveUpSlice
<1>7. EachInOnePlace'
  BY <1>1, <1>2, <1>4, <1>5, <1>6 DEF EveryProcessAccounted, EachInOnePlace
<1>8. \A p \in Created : block'[p] = 1 <=> p \in Blocked' \cup Halted'
  <2> SUFFICES ASSUME NEW p \in Created
               PROVE  block'[p] = 1 <=> p \in Blocked' \cup Halted'
    OBVIOUS
  <2>1. p \in PCBs
    BY DEF Created, PCBs, SchedTypeOK
  <2>2. block'[p] = IF p = current THEN 1 ELSE block[p]
    BY <2>1 DEF SchedTypeOK
  <2> QED
    BY <2>2, <1>4, <1>5 DEF EveryProcessAccounted
<1>9. EveryProcessAccounted'
  BY <1>4, <1>5, <1>7, <1>8 DEF EveryProcessAccounted
<1>10. UnusedClean'
  BY <1>1, <1>4 DEF UnusedClean, GiveUpSlice, SchedTypeOK, PCBs
<1> QED
  BY <1>3, <1>9, <1>10

\* Making a blocked process ready, while the current one goes on.
LEMMA WakePlaced ==
  ASSUME Placed, NEW i, Fetches(i), NEW p \in Created, IsBlocked(p),
         bq' = BqWithout(p),
         rq' = Append(rq, p),
         block' = [block EXCEPT ![p] = 0],
         Continue,
         UNCHANGED <<numPID, current, status>>
  PROVE  Placed'
<1> USE SchedAssumption DEF Placed
<1>1. /\ current \in Created /\ current \in PCBs
      /\ current \notin Ready \cup Blocked \cup Halted
      /\ tdma \in Nat /\ tdma < TDMA_Setting
  BY FetcherIsNowhere
<1>2. /\ p \in Blocked /\ bq' \in Seq(PCBs) /\ IsInjective(bq')
      /\ Range(bq') = Blocked \ {p}
  BY Unlinked
<1>3. p \in PCBs /\ p # current /\ p \notin Ready /\ p \notin Halted
  BY <1>1, <1>2
     DEF EveryProcessAccounted, EachInOnePlace, Created, PCBs, SchedTypeOK
<1>4. rq' \in Seq(PCBs) /\ Range(rq') = Range(rq) \cup {p} /\ IsInjective(rq')
  BY <1>3, AppendRange DEF SchedTypeOK, EveryProcessAccounted, EachInOnePlace, Ready
<1>5. SchedTypeOK'
  BY <1>1, <1>2, <1>4 DEF SchedTypeOK, Continue
<1>6. NoInstr # HaltInstr
  BY DEF NoInstr, HaltInstr, Instr
<1>7. Blocked' = Blocked \ {p} /\ Ready' = Ready \cup {p} /\ Created' = Created
  BY <1>2, <1>4 DEF Blocked, Ready, Created
<1>8. Halted' = Halted
  BY <1>1, <1>6, <1>7 DEF Halted, Continue, SchedTypeOK, Created, PCBs
<1>9. EachInOnePlace'
  BY <1>1, <1>2, <1>3, <1>4, <1>7, <1>8 DEF EveryProcessAccounted, EachInOnePlace
<1>10. \A q \in Created : block'[q] = 1 <=> q \in Blocked' \cup Halted'
  <2> SUFFICES ASSUME NEW q \in Created
               PROVE  block'[q] = 1 <=> q \in Blocked' \cup Halted'
    OBVIOUS
  <2>1. q \in PCBs
    BY DEF Created, PCBs, SchedTypeOK
  <2>2. block'[q] = IF q = p THEN 0 ELSE block[q]
    BY <2>1 DEF SchedTypeOK
  <2> QED
    BY <2>2, <1>3, <1>7, <1>8 DEF EveryProcessAccounted
<1>11. EveryProcessAccounted'
  BY <1>2, <1>7, <1>8, <1>9, <1>10 DEF EveryProcessAccounted
<1>12. UnusedClean'
  BY <1>1, <1>7 DEF UnusedClean, Continue, SchedTypeOK, PCBs
<1> QED
  BY <1>5, <1>11, <1>12

\* Making a blocked process ready and putting the current one to sleep.
LEMMA WakeAndSleepPlaced ==
  ASSUME Placed, NEW i \in Text, Fetches(i), i # HaltInstr,
         NEW p \in Created, IsBlocked(p),
         bq' = Append(BqWithout(p), current),
         rq' = Append(rq, p),
         block' = [block EXCEPT ![p] = 0, ![current] = 1],
         GiveUpSlice(i),
         UNCHANGED <<numPID, current, status>>
  PROVE  Placed'
<1> USE SchedAssumption DEF Placed
<1>1. /\ current \in Created /\ current \in PCBs
      /\ current \notin Ready \cup Blocked \cup Halted
  BY FetcherIsNowhere
<1>2. /\ p \in Blocked /\ BqWithout(p) \in Seq(PCBs) /\ IsInjective(BqWithout(p))
      /\ Range(BqWithout(p)) = Blocked \ {p}
  BY Unlinked
<1>3. p \in PCBs /\ p # current /\ p \notin Ready /\ p \notin Halted
  BY <1>1, <1>2
     DEF EveryProcessAccounted, EachInOnePlace, Created, PCBs, SchedTypeOK
<1>4. rq' \in Seq(PCBs) /\ Range(rq') = Range(rq) \cup {p} /\ IsInjective(rq')
  BY <1>3, AppendRange DEF SchedTypeOK, EveryProcessAccounted, EachInOnePlace, Ready
<1>5. /\ bq' \in Seq(PCBs) /\ Range(bq') = (Blocked \ {p}) \cup {current}
      /\ IsInjective(bq')
  BY <1>1, <1>2, AppendRange
<1>6. SchedTypeOK'
  BY SMTT(30), <1>1, <1>4, <1>5 DEF SchedTypeOK, GiveUpSlice
<1>7. /\ Blocked' = (Blocked \ {p}) \cup {current}
      /\ Ready' = Ready \cup {p} /\ Created' = Created
  BY <1>4, <1>5 DEF Blocked, Ready, Created
<1>8. Halted' = Halted
  BY <1>1, <1>7 DEF Halted, GiveUpSlice, SchedTypeOK, Created, PCBs
<1>9. tdma' = TDMA_Setting + 1 /\ ~ (tdma' < TDMA_Setting)
  BY DEF GiveUpSlice
<1>10. EachInOnePlace'
  BY <1>1, <1>3, <1>4, <1>5, <1>7, <1>8, <1>9 DEF EveryProcessAccounted, EachInOnePlace
<1>11. \A q \in Created : block'[q] = 1 <=> q \in Blocked' \cup Halted'
  <2> SUFFICES ASSUME NEW q \in Created
               PROVE  block'[q] = 1 <=> q \in Blocked' \cup Halted'
    OBVIOUS
  <2>1. q \in PCBs
    BY DEF Created, PCBs, SchedTypeOK
  <2>2. block'[q] = IF q = current THEN 1 ELSE IF q = p THEN 0 ELSE block[q]
    BY <2>1, <1>3 DEF SchedTypeOK
  <2> QED
    BY <2>2, <1>3, <1>7, <1>8 DEF EveryProcessAccounted
<1>12. EveryProcessAccounted'
  <2>1. Created = Ready \cup Blocked \cup Halted \cup {current} /\ p \in Blocked
    BY <1>2 DEF EveryProcessAccounted
  <2>2. Created = (Ready \cup {p}) \cup ((Blocked \ {p}) \cup {current}) \cup Halted \cup {current}
    BY <2>1
  <2>3. Created' = Ready' \cup Blocked' \cup Halted' \cup {current'}
    BY <1>7, <1>8, <2>2
  <2> QED BY <1>7, <1>10, <1>11, <2>3 DEF EveryProcessAccounted
<1>13. UnusedClean'
  BY <1>1, <1>7 DEF UnusedClean, GiveUpSlice, SchedTypeOK, PCBs
<1> QED
  BY <1>6, <1>12, <1>13

LEMMA HaltPlaced ==
  ASSUME Placed, NEW i, Fetches(i), Halt
  PROVE  Placed'
<1> USE SchedAssumption DEF Placed
<1>1. /\ current \in Created /\ current \in PCBs
      /\ current \notin Ready \cup Blocked \cup Halted
  BY FetcherIsNowhere
<1>2. SchedTypeOK'
  BY DEF SchedTypeOK, Halt, GiveUpSlice
<1>3. Blocked' = Blocked /\ Ready' = Ready /\ Created' = Created
  BY DEF Blocked, Ready, Created, Halt
<1>4. Halted' = Halted \cup {current}
  BY <1>1, <1>3 DEF Halted, Halt, GiveUpSlice, SchedTypeOK, Created, PCBs
<1>5. tdma' = TDMA_Setting + 1 /\ ~ (tdma' < TDMA_Setting)
  BY DEF GiveUpSlice, Halt
<1>6. EachInOnePlace'
  BY <1>1, <1>3, <1>4, <1>5 DEF EveryProcessAccounted, EachInOnePlace, Halt
<1>7. \A q \in Created : block'[q] = 1 <=> q \in Blocked' \cup Halted'
  <2> SUFFICES ASSUME NEW q \in Created
               PROVE  block'[q] = 1 <=> q \in Blocked' \cup Halted'
    OBVIOUS
  <2>1. q \in PCBs
    BY DEF Created, PCBs, SchedTypeOK
  <2>2. block'[q] = IF q = current THEN 1 ELSE block[q]
    BY <2>1 DEF SchedTypeOK, Halt
  <2> QED
    BY <2>2, <1>3, <1>4 DEF EveryProcessAccounted
<1>8. EveryProcessAccounted'
  BY <1>1, <1>3, <1>4, <1>6, <1>7 DEF EveryProcessAccounted, Halt
<1>9. UnusedClean'
  BY <1>1, <1>3 DEF UnusedClean, Halt, GiveUpSlice, SchedTypeOK, PCBs
<1> QED
  BY <1>2, <1>8, <1>9

LEMMA ClonePlaced ==
  ASSUME Placed, NEW i, Fetches(i), MakeClone
  PROVE  Placed'
<1> USE SchedAssumption DEF Placed
<1>1. /\ current \in Created /\ current \in PCBs
      /\ current \notin Ready \cup Blocked \cup Halted
  BY FetcherIsNowhere
<1>2. /\ numPID \in PCBs \ Created /\ numPID # current
      /\ Created' = Created \cup {numPID}
  BY <1>1 DEF Created, PCBs, SchedTypeOK, MakeClone
<1>3. numPID \notin Ready \cup Blocked \cup Halted
  BY <1>2 DEF EveryProcessAccounted
<1>4. rq' \in Seq(PCBs) /\ Range(rq') = Range(rq) \cup {numPID} /\ IsInjective(rq')
  BY <1>2, <1>3, AppendRange
     DEF SchedTypeOK, EveryProcessAccounted, EachInOnePlace, Ready, MakeClone
<1>5. SchedTypeOK'
  BY <1>1, <1>4 DEF SchedTypeOK, GiveUpSlice, MakeClone
<1>6. Blocked' = Blocked /\ Ready' = Ready \cup {numPID}
  BY <1>4 DEF Blocked, Ready, MakeClone
<1>7. NoInstr # HaltInstr
  BY DEF NoInstr, HaltInstr, Instr
<1>8. \A p \in PCBs : blockedOn'[p] = IF p = current THEN NoInstr ELSE blockedOn[p]
  BY DEF SchedTypeOK, GiveUpSlice, MakeClone
<1>9. blockedOn[numPID] = NoInstr
  BY <1>2 DEF UnusedClean
<1>10. Created' \subseteq PCBs
  BY DEF Created, PCBs, SchedTypeOK, MakeClone
<1>11. Halted' = Halted
  BY <1>1, <1>2, <1>7, <1>8, <1>9, <1>10 DEF Halted
<1>12. tdma' = TDMA_Setting + 1 /\ ~ (tdma' < TDMA_Setting)
  BY DEF GiveUpSlice, MakeClone
<1>13. EachInOnePlace'
  BY <1>2, <1>3, <1>4, <1>6, <1>11, <1>12
     DEF EveryProcessAccounted, EachInOnePlace, MakeClone
<1>14. \A q \in Created' : block'[q] = 1 <=> q \in Blocked' \cup Halted'
  <2> SUFFICES ASSUME NEW q \in Created'
               PROVE  block'[q] = 1 <=> q \in Blocked' \cup Halted'
    OBVIOUS
  <2>1. block'[q] = IF q = numPID THEN 0 ELSE block[q]
    BY <1>10 DEF SchedTypeOK, MakeClone
  <2> QED
    BY <2>1, <1>2, <1>3, <1>6, <1>11 DEF EveryProcessAccounted
<1>15. EveryProcessAccounted'
  BY <1>2, <1>6, <1>11, <1>13, <1>14 DEF EveryProcessAccounted, MakeClone
<1>16. UnusedClean'
  BY <1>1, <1>2, <1>8 DEF UnusedClean
<1> QED
  BY <1>5, <1>15, <1>16

LEMMA SwitchPlaced ==
  ASSUME Placed, ContextSwitch
  PROVE  Placed'
<1> USE SchedAssumption DEF Placed
<1> DEFINE q == Requeued
<1>1. /\ current \in Created /\ current \in PCBs /\ current \notin Ready
      /\ Created \subseteq PCBs
      /\ Blocked' = Blocked /\ Halted' = Halted /\ Created' = Created
  BY DEF EveryProcessAccounted, EachInOnePlace, Created, PCBs, SchedTypeOK,
         ContextSwitch, Blocked, Halted
<1>2. /\ q \in Seq(PCBs) /\ IsInjective(q)
      /\ Range(q) = Ready \cup (IF block[current] = 0 THEN {current} ELSE {})
  <2>1. CASE block[current] = 0
    BY <1>1, <2>1, AppendRange
       DEF Requeued, EveryProcessAccounted, EachInOnePlace, Ready, SchedTypeOK
  <2>2. CASE block[current] # 0
    BY <2>2 DEF Requeued, EveryProcessAccounted, EachInOnePlace, Ready, SchedTypeOK
  <2> QED
    BY <2>1, <2>2
<1>3. block[current] # 0 <=> current \in Blocked \cup Halted
  BY <1>1 DEF EveryProcessAccounted, SchedTypeOK
<1>4. Range(q) \cap (Blocked \cup Halted) = {} /\ Range(q) \subseteq Created
  BY <1>1, <1>2, <1>3 DEF EveryProcessAccounted, EachInOnePlace
<1>5. Created = Range(q) \cup Blocked \cup Halted
  BY <1>1, <1>2, <1>3 DEF EveryProcessAccounted
<1> HIDE DEF q
<1>6. q # << >> /\ rq' = Tail(q) /\ current' = PidOf(Head(q))
  BY DEF q, ContextSwitch
<1>7. /\ Head(q) \in Range(q) /\ Tail(q) \in Seq(PCBs) /\ IsInjective(Tail(q))
      /\ Range(Tail(q)) = Range(q) \ {Head(q)}
  BY <1>2, <1>6, TailRange
<1>8. current' = Head(q) /\ Ready' = Range(q) \ {current'}
  <2>1. Head(q) \in 0 .. numPID - 1 /\ numPID \in Nat
    BY <1>4, <1>7 DEF Created, SchedTypeOK
  <2> QED
    BY <2>1, <1>6, <1>7 DEF PidOf, Ready
<1>9. SchedTypeOK'
  <2>1. current' \in PCBs /\ rq' \in Seq(PCBs)
    BY <1>1, <1>4, <1>6, <1>7, <1>8
  <2>2. tdma' = 0 /\ 0 \in 0 .. TDMA_Setting + 1
    BY DEF ContextSwitch
  <2>3. UNCHANGED <<numPID, bq, block, blockedOn, status>>
    BY DEF ContextSwitch
  <2> QED
    BY <2>1, <2>2, <2>3 DEF SchedTypeOK, PCBs
<1>10. EachInOnePlace'
  BY <1>1, <1>4, <1>6, <1>7, <1>8
     DEF EveryProcessAccounted, EachInOnePlace, ContextSwitch
<1>11. EveryProcessAccounted'
  BY <1>1, <1>5, <1>7, <1>8, <1>10 DEF EveryProcessAccounted, ContextSwitch
<1>12. UnusedClean'
  BY <1>1 DEF UnusedClean, ContextSwitch
<1> QED
  BY <1>9, <1>11, <1>12
-----------------------------------------------------------------------------
(***************************************************************************)
(* The instructions, one lemma for each component's part of the invariant. *)
(***************************************************************************)
LEMMA StopPlaced ==
  ASSUME Placed, NEW how \in Statuses, Stop(how)
  PROVE  Placed'
<1>1. UNCHANGED <<numPID, rq, bq, current, tdma, block, blockedOn>> /\ status' \in Statuses
  BY DEF Stop
<1>2. SchedTypeOK'
  BY <1>1 DEF Placed, SchedTypeOK
<1>3. /\ Ready' = Ready /\ Blocked' = Blocked /\ Halted' = Halted
      /\ Created' = Created
  BY <1>1 DEF Ready, Blocked, Halted, Created
<1>4. EachInOnePlace'
  BY <1>1, <1>3 DEF Placed, EveryProcessAccounted, EachInOnePlace
<1>5. EveryProcessAccounted'
  BY <1>1, <1>3, <1>4 DEF Placed, EveryProcessAccounted
<1>6. UnusedClean'
  BY <1>1, <1>3 DEF Placed, UnusedClean
<1> QED
  BY <1>2, <1>5, <1>6 DEF Placed

LEMMA PidOfCreated ==
  ASSUME Placed, NEW p \in Created
  PROVE  PidOf(p) = p
  BY DEF Placed, SchedTypeOK, PidOf, Created

\* An instruction is determined by its operation and operand.
LEMMA InstrOfText ==
  ASSUME NEW i \in Text
  PROVE  i = Instr(i.op, i.arg) /\ i.arg \in Nat
  BY TextAssumption DEF Instr

\* A small R leaves the PID in byte2.
LEMMA WordNamesSender ==
  ASSUME SmallRegs, NEW r \in Regs, NEW p \in PCBs
  PROVE  Word(p, r) \in Nat /\ Source(Word(p, r)) = p
<1>1. r \in Nat /\ r < 65536
  BY RegsAssumption DEF SmallRegs
<1>2. p \in Nat /\ p < 256
  <2>1. NPROC \in Nat /\ NPROC <= 100
    BY SchedAssumption
  <2> QED
    BY <2>1 DEF PCBs
<1>3. r + p * 65536 \in Nat
  BY <1>1, <1>2
<1>4. (r + p * 65536) \div 65536 = p
  BY <1>1, <1>2
<1>5. p % 256 = p
  BY <1>2
<1> QED
  BY <1>3, <1>4, <1>5 DEF Word, Source

LEMMA SendInv ==
  ASSUME IInv, NEW i \in Text, Fetches(i), i.op = "SD", NEW r \in Regs, Send(i.arg, r)
  PROVE  Placed' /\ MailTypeOK' /\ MailNamesSender'
<1> DEFINE d == i.arg
<1>1. i = Instr("SD", d) /\ d \in PCBs /\ i # HaltInstr
  BY InstrOfText, OperandAssumption DEF Instr, HaltInstr
<1>2. current \in Created /\ current \in PCBs /\ Placed
  BY FetcherIsNowhere DEF IInv
<1>3. Word(current, r) \in Nat /\ Source(Word(current, r)) = current
  BY <1>2, WordNamesSender DEF IInv
<1>4. ASSUME PutInMailbox(d, r), Created' = Created
      PROVE  /\ mailbox' \in [PCBs -> [PCBs -> Nat]]
             /\ MailNamesSender'
  BY <1>1, <1>2, <1>3, <1>4
     DEF IInv, MailTypeOK, MailNamesSender, PutInMailbox
<1>5. CASE d \in Created /\ SendAndWake(d, r)
  <2>2. Placed'
    BY <1>1, <1>2, <1>5, WakeAndSleepPlaced DEF SendAndWake
  <2>3. waitID' \in [PCBs -> PCBs \cup {NobodyAwaited}]
    BY <1>5 DEF SendAndWake, IInv, MailTypeOK
  <2>4. PutInMailbox(d, r) /\ Created' = Created
    BY <1>5 DEF SendAndWake, Created
  <2> QED
    BY <1>4, <2>2, <2>3, <2>4 DEF MailTypeOK, PCBs
<1>6. CASE d \in Created /\ SendAndWait(d, r)
  <2>1. Placed'
    BY <1>1, <1>2, <1>6, SleepPlaced DEF SendAndWait
  <2>2. waitID' \in [PCBs -> PCBs \cup {NobodyAwaited}]
    BY <1>1, <1>6 DEF SendAndWait, IInv, MailTypeOK
  <2>3. PutInMailbox(d, r) /\ Created' = Created
    BY <1>6 DEF SendAndWait, Created
  <2> QED
    BY <1>4, <2>1, <2>2, <2>3 DEF MailTypeOK, PCBs
<1>7. CASE Stop("segv") /\ UNCHANGED mailVars
  <2>1. Placed' /\ Created' = Created
    BY <1>2, <1>7, StopPlaced DEF Statuses, Stop, Created
  <2> QED
    BY <1>7, <2>1 DEF IInv, mailVars, MailTypeOK, MailNamesSender, PCBs
<1> QED
  BY <1>5, <1>6, <1>7 DEF Send

LEMMA DeliverInv ==
  ASSUME IInv, NEW i, Fetches(i), NEW s \in PCBs, MessageFrom(s), NEW w \in PCBs,
         Deliver(Source(mailbox[current][s]), s, w)
  PROVE  Placed' /\ MailTypeOK' /\ MailNamesSender'
<1> DEFINE src == Source(mailbox[current][s])
<1>1. current \in Created /\ current \in PCBs /\ Placed
  BY FetcherIsNowhere DEF IInv
<1>2. src = s /\ s \in Created
  BY <1>1 DEF IInv, MailNamesSender, MessageFrom
<1> HIDE DEF src
<1>3. PidOf(s) = s
  BY <1>1, <1>2, PidOfCreated
<1>4. CASE Delivered(s, s, w)
  <2>1. Placed'
    BY <1>1, <1>2, <1>3, <1>4, WakePlaced DEF Delivered
  <2>2. MailTypeOK'
    BY <1>1, <1>4
       DEF Delivered, IInv, MailTypeOK, EMPTY, NobodyAwaited, PCBs
  <2>3. Created' = Created
    BY <1>4 DEF Delivered, Created
  <2>4. MailNamesSender'
    BY <1>1, <1>4, <2>3 DEF Delivered, IInv, MailTypeOK, MailNamesSender, PCBs
  <2> QED
    BY <2>1, <2>2, <2>4
<1>5. ASSUME NEW how \in Statuses, Stop(how), UNCHANGED mailVars
      PROVE  Placed' /\ MailTypeOK' /\ MailNamesSender'
  <2>1. Placed' /\ Created' = Created
    BY <1>1, <1>5, StopPlaced DEF Stop, Created
  <2> QED
    BY <1>5, <2>1 DEF IInv, mailVars, MailTypeOK, MailNamesSender, PCBs
<1> QED
  BY <1>2, <1>4, <1>5 DEF Deliver, src, Statuses

LEMMA RecInv ==
  ASSUME IInv, NEW i \in Text, Fetches(i),
         (i.op = "RC" /\ RecFrom(i.arg)) \/ (i.op = "RX" /\ RecAny)
  PROVE  Placed' /\ MailTypeOK' /\ MailNamesSender'
<1>1. current \in Created /\ current \in PCBs /\ Placed
  BY FetcherIsNowhere DEF IInv
<1>2. CASE i.op = "RC" /\ RecFrom(i.arg)
  <2> DEFINE s == i.arg
  <2>1. i = Instr("RC", s) /\ s \in PCBs /\ i # HaltInstr
    BY <1>2, InstrOfText, OperandAssumption DEF Instr, HaltInstr
  <2>2. CASE MessageFrom(s)
    <3>1. Source(mailbox[current][s]) \in PCBs
      BY <1>1, <2>1, <2>2 DEF IInv, MailNamesSender, MessageFrom
    <3> QED
      BY <1>2, <2>1, <2>2, <3>1, DeliverInv DEF RecFrom
  <2>3. CASE ~ MessageFrom(s)
    <3>1. Placed'
      BY <1>1, <1>2, <2>1, <2>3, SleepPlaced DEF RecFrom
    <3>2. MailTypeOK'
      BY <1>2, <2>1, <2>3 DEF RecFrom, IInv, MailTypeOK, PCBs
    <3>3. MailNamesSender'
      BY <1>2, <2>3 DEF RecFrom, IInv, MailNamesSender, Created, PCBs
    <3> QED
      BY <3>1, <3>2, <3>3
  <2> QED
    BY <2>2, <2>3
<1>3. CASE i.op = "RX" /\ RecAny
  <2>1. CASE Scanned # {}
    <3>1. PICK s \in Scanned : Deliver(Source(mailbox[current][s]), s, current)
      BY <1>3, <2>1 DEF RecAny
    <3> QED
      BY <1>1, <3>1, DeliverInv DEF Scanned
  <2>2. CASE Scanned = {}
    <3>1. Placed'
      BY <1>1, <1>3, <2>2, TickPlaced DEF RecAny
    <3> QED
      BY <1>3, <2>2, <3>1
         DEF RecAny, IInv, mailVars, MailTypeOK, MailNamesSender, Created, PCBs
  <2> QED
    BY <2>1, <2>2
<1> QED
  BY <1>2, <1>3

\* The part of the invariant that is about the semaphores.
SemInv == SemTypeOK /\ RingsCreated

LEMMA SemUnchanged ==
  ASSUME SemInv, UNCHANGED semaphore, Created \subseteq Created'
  PROVE  SemInv'
  BY DEF SemInv, SemTypeOK, RingsCreated, Semas, SemRecord, PCBs, LastSlot

\* Writing a created process at the tail keeps the ring well formed.
LEMMA EnqwaitType ==
  ASSUME NEW sem \in SemRecord, NEW p \in PCBs, ~ (sem.tail = LastSlot /\ sem.head = 0)
  PROVE  /\ Enqwait(sem, p) \in SemRecord
         /\ \A k \in 0 .. LastSlot : \/ Enqwait(sem, p).waiting[k] = sem.waiting[k]
                                     \/ Enqwait(sem, p).waiting[k] = p
<1>1. LastSlot \in Nat /\ LastSlot >= 1
  BY SemAssumption DEF LastSlot
<1>2. (IF sem.tail = LastSlot THEN 1 ELSE sem.tail + 1) \in 0 .. LastSlot
  BY <1>1 DEF SemRecord
<1>3. Enqwait(sem, p) \in SemRecord
  BY <1>1, <1>2 DEF Enqwait, SemRecord
<1>4. Enqwait(sem, p).waiting = [sem.waiting EXCEPT ![sem.tail] = p]
  BY <1>1 DEF Enqwait, SemRecord
<1>5. \A k \in 0 .. LastSlot : [sem.waiting EXCEPT ![sem.tail] = p][k] \in {sem.waiting[k], p}
  BY <1>1 DEF SemRecord
<1> QED
  BY <1>3, <1>4, <1>5

\* Taking the head of the ring and making it the holder.
LEMMA DeqwaitType ==
  ASSUME NEW sem \in SemRecord
  PROVE  /\ NextWaiting(sem) \in PCBs
         /\ [Deqwait(sem) EXCEPT !.PID = NextWaiting(sem)] \in SemRecord
         /\ [Deqwait(sem) EXCEPT !.PID = NextWaiting(sem)].waiting = sem.waiting
<1>1. LastSlot \in Nat /\ LastSlot >= 1
  BY SemAssumption DEF LastSlot
<1>2. NextWaiting(sem) \in PCBs
  BY DEF NextWaiting, SemRecord
<1>3. (IF sem.head = LastSlot THEN 0 ELSE sem.head + 1) \in 0 .. LastSlot
  BY <1>1 DEF SemRecord
<1> HIDE DEF NextWaiting
<1>4. [Deqwait(sem) EXCEPT !.PID = NextWaiting(sem)] \in SemRecord
  BY <1>1, <1>2, <1>3 DEF Deqwait, SemRecord
<1>5. [Deqwait(sem) EXCEPT !.PID = NextWaiting(sem)].waiting = sem.waiting
  BY <1>1, <1>2 DEF Deqwait, SemRecord
<1> QED
  BY <1>2, <1>4, <1>5

\* A new value and holder of one semaphore.
LEMMA SemWritten ==
  ASSUME SemTypeOK, NEW s \in Semas, NEW v \in Nat, NEW h \in PCBs \cup {NoHolder},
         semaphore' = [semaphore EXCEPT ![s].value = v, ![s].PID = h]
  PROVE  SemTypeOK'
<1>1. semaphore[s] \in SemRecord /\ semaphore \in [Semas -> SemRecord]
  BY DEF SemTypeOK
<1>2. [semaphore[s] EXCEPT !.value = v] \in SemRecord
  BY <1>1 DEF SemRecord
<1>3. [[semaphore[s] EXCEPT !.value = v] EXCEPT !.PID = h] \in SemRecord
  BY <1>2 DEF SemRecord
<1>4. semaphore' = [semaphore EXCEPT ![s] = [[semaphore[s] EXCEPT !.value = v] EXCEPT !.PID = h]]
  BY <1>1
<1> QED BY <1>1, <1>3, <1>4 DEF SemTypeOK

LEMMA PEInv ==
  ASSUME IInv, NEW i \in Text, Fetches(i), i.op = "PE", PE(i.arg)
  PROVE  Placed' /\ SemInv'
<1> DEFINE s == i.arg
<1>1. i = Instr("PE", s) /\ i # HaltInstr
  BY InstrOfText DEF Instr, HaltInstr
<1>2. current \in Created /\ current \in PCBs /\ Placed /\ SemInv
  BY FetcherIsNowhere DEF IInv, SemInv
<1>3. CASE s \in Semas /\ Acquire(s)
  <2>1. Placed'
    BY <1>2, <1>3, TickPlaced DEF Acquire, SemContinue
  <2>2. SemTypeOK'
    BY <1>2, <1>3, SemWritten DEF Acquire, SemInv
  <2>3. RingsCreated'
    BY <1>2, <1>3
       DEF Acquire, SemContinue, SemInv, SemTypeOK, SemRecord, RingsCreated, Created
  <2> QED
    BY <2>1, <2>2, <2>3 DEF SemInv
<1>4. CASE s \in Semas /\ WaitFor(s)
  <2>1. Placed'
    BY <1>1, <1>2, <1>4, SleepPlaced DEF WaitFor
  <2>2. semaphore[s] \in SemRecord /\ ~ RingFull(s)
    BY <1>2, <1>4 DEF WaitFor, SemInv, SemTypeOK
  <2>3. /\ Enqwait(semaphore[s], current) \in SemRecord
        /\ \A k \in 0 .. LastSlot :
             \/ Enqwait(semaphore[s], current).waiting[k] = semaphore[s].waiting[k]
             \/ Enqwait(semaphore[s], current).waiting[k] = current
    BY <1>2, <2>2, EnqwaitType DEF RingFull
  <2>4. semaphore' = [semaphore EXCEPT ![s] = Enqwait(semaphore[s], current)]
    BY <1>4 DEF WaitFor
  <2>5. SemTypeOK'
    BY <1>2, <2>3, <2>4 DEF SemInv, SemTypeOK, SemRecord, PCBs
  <2>6. Created' = Created
    BY <1>4 DEF WaitFor, Created
  <2>7. RingsCreated'
    BY <1>2, <2>3, <2>4, <2>6 DEF SemInv, SemTypeOK, RingsCreated
  <2> QED
    BY <2>1, <2>5, <2>7 DEF SemInv
<1>5. CASE SemExit
  BY <1>2, <1>5, StopPlaced, SemUnchanged DEF SemExit, Stop, Statuses, Created
<1>6. CASE SemContinue /\ UNCHANGED semaphore
  BY <1>2, <1>6, TickPlaced, SemUnchanged DEF SemContinue, Created
<1> QED
  BY <1>3, <1>4, <1>5, <1>6 DEF PE

LEMMA VEInv ==
  ASSUME IInv, NEW i \in Text, Fetches(i), i.op = "VE", VE(i.arg)
  PROVE  Placed' /\ SemInv'
<1> DEFINE s == i.arg
<1>1. Placed /\ SemInv
  BY DEF IInv, SemInv
<1>2. CASE s \in Semas /\ Free(s)
  <2>1. Placed'
    BY <1>1, <1>2, TickPlaced DEF Free, SemContinue
  <2>2. SemTypeOK'
    BY <1>1, <1>2, SemWritten DEF Free, SemInv
  <2>3. RingsCreated'
    BY <1>1, <1>2
       DEF Free, SemContinue, SemInv, SemTypeOK, SemRecord, RingsCreated, Created
  <2> QED
    BY <2>1, <2>2, <2>3 DEF SemInv
<1>3. CASE s \in Semas /\ HandOver(s)
  <2> DEFINE p == NextWaiting(semaphore[s])
             woken == [Deqwait(semaphore[s]) EXCEPT !.PID = p]
  <2>1. semaphore[s] \in SemRecord
    BY <1>1, <1>3 DEF SemInv, SemTypeOK
  <2>2. woken \in SemRecord /\ woken.waiting = semaphore[s].waiting
    BY <2>1, DeqwaitType
  <2>3. p \in Created
    <3>1. semaphore[s].head \in 0 .. LastSlot
      BY <2>1 DEF SemRecord
    <3> QED
      BY <1>1, <1>3, <3>1 DEF NextWaiting, SemInv, RingsCreated
  <2> HIDE DEF p
  <2>4. PidOf(p) = p
    BY <1>1, <2>3, PidOfCreated
  <2>5. Placed'
    BY <1>1, <1>3, <2>3, <2>4, WakePlaced DEF HandOver, p
  <2>6. semaphore' = [semaphore EXCEPT ![s] = woken]
    BY <1>3 DEF HandOver, p
  <2> HIDE DEF woken
  <2>7. SemTypeOK'
    BY <1>1, <2>2, <2>6 DEF SemInv, SemTypeOK, SemRecord, PCBs
  <2>8. Created' = Created
    BY <1>3 DEF HandOver, Created
  <2>9. RingsCreated'
    BY <1>1, <2>2, <2>6, <2>8 DEF SemInv, SemTypeOK, RingsCreated
  <2> QED
    BY <2>5, <2>7, <2>9 DEF SemInv
<1>4. ASSUME NEW how \in Statuses, Stop(how), UNCHANGED semaphore
      PROVE  Placed' /\ SemInv'
  BY <1>1, <1>4, StopPlaced, SemUnchanged DEF Stop, Created
<1>5. CASE SemContinue /\ UNCHANGED semaphore
  BY <1>1, <1>5, TickPlaced, SemUnchanged DEF SemContinue, Created
<1> QED
  BY <1>2, <1>3, <1>4, <1>5 DEF VE, Release, SemExit, Statuses

LEMMA SIInv ==
  ASSUME IInv, NEW i \in Text, Fetches(i), NEW r \in Regs, SI(i.arg, r)
  PROVE  Placed' /\ SemInv'
<1> DEFINE s == i.arg
<1>1. Placed /\ SemInv /\ r \in Nat
  BY RegsAssumption DEF IInv, SemInv
<1>2. CASE s \in Semas /\ semaphore' = [semaphore EXCEPT ![s].value = r] /\ SemContinue
  <2>1. Placed'
    BY <1>1, <1>2, TickPlaced DEF SemContinue
  <2>2. SemTypeOK'
    BY <1>1, <1>2 DEF SemInv, SemTypeOK, SemRecord, PCBs
  <2>3. RingsCreated'
    BY <1>1, <1>2 DEF SemContinue, SemInv, SemTypeOK, SemRecord, RingsCreated, Created
  <2> QED
    BY <2>1, <2>2, <2>3 DEF SemInv
<1>3. CASE SemExit
  BY <1>1, <1>3, StopPlaced, SemUnchanged DEF SemExit, Stop, Statuses, Created
<1> QED
  BY <1>2, <1>3 DEF SI
-----------------------------------------------------------------------------
(***************************************************************************)
(* The initial state and the steps of the main loop.                       *)
(***************************************************************************)
LEMMA InitIInv ==
  ASSUME SmallRegs, Init
  PROVE  IInv
<1> USE SchedAssumption DEF Init, SchedInit, MailInit, SemInit
<1>1. SchedTypeOK
  BY DEF SchedTypeOK, PCBs, Statuses
<1>2. /\ Ready = {} /\ Blocked = {} /\ Created = {0} /\ 0 \in PCBs
      /\ Created \subseteq PCBs
  BY DEF Ready, Blocked, Range, Created, PCBs
<1>3. Halted = {}
  BY <1>2 DEF Halted, NoInstr, HaltInstr, Instr
<1>4. EveryProcessAccounted
  BY <1>2, <1>3 DEF EveryProcessAccounted, EachInOnePlace, IsInjective
<1>5. UnusedClean
  BY DEF UnusedClean
<1>6. MailTypeOK /\ MailNamesSender
  BY <1>2 DEF MailTypeOK, MailNamesSender, EMPTY, NobodyAwaited
<1>7. SemTypeOK
  <2>1. /\ 0 \in 0 .. LastSlot /\ 0 \in PCBs /\ NoHolder \in PCBs \cup {NoHolder}
        /\ 1 \in Nat
    BY <1>2, SemAssumption DEF LastSlot
  <2> QED
    BY <2>1 DEF SemTypeOK, SemRecord
<1>8. RingsCreated
  BY <1>2 DEF RingsCreated
<1> QED
  BY <1>1, <1>4, <1>5, <1>6, <1>7, <1>8 DEF IInv, Placed

\* A step that leaves mailboxes or semaphores alone keeps what is said of them.
LEMMA MailUnchanged ==
  ASSUME IInv, UNCHANGED mailVars, Created \subseteq Created'
  PROVE  MailTypeOK' /\ MailNamesSender'
  BY DEF IInv, mailVars, MailTypeOK, MailNamesSender, PCBs

LEMMA InstructionInv ==
  ASSUME IInv, NEW i \in Text, Fetches(i), Instruction(i)
  PROVE  IInv'
<1> DEFINE Mail == MailTypeOK' /\ MailNamesSender'
<1>1. SmallRegs' /\ Placed /\ SemInv
  BY DEF IInv, SmallRegs, SemInv
<1>2. CASE Tick
  <2>1. Placed' /\ Created' = Created
    BY <1>1, <1>2, TickPlaced DEF Tick, Created
  <2> QED
    BY <1>1, <1>2, <2>1, MailUnchanged, SemUnchanged DEF Tick, mailVars, IInv, SemInv
<1>3. ASSUME NEW how \in Statuses, Abort(how)
      PROVE  IInv'
  <2>1. Placed' /\ Created' = Created
    BY <1>1, <1>3, StopPlaced DEF Abort, Stop, Created
  <2> QED
    BY <1>1, <1>3, <2>1, MailUnchanged, SemUnchanged DEF Abort, IInv, SemInv
<1>4. CASE Halt
  <2>1. Placed' /\ Created' = Created
    BY <1>1, <1>4, HaltPlaced DEF Halt, Created
  <2> QED
    BY <1>1, <1>4, <2>1, MailUnchanged, SemUnchanged DEF Halt, IInv, SemInv
<1>5. CASE MakeClone
  <2>1. Placed'
    BY <1>1, <1>5, ClonePlaced
  <2>2. Created \subseteq Created'
    BY <1>1, <1>5, SchedAssumption DEF MakeClone, Created, Placed, SchedTypeOK
  <2>3. waitID' \in [PCBs -> PCBs \cup {NobodyAwaited}]
    BY <1>5 DEF MakeClone, IInv, MailTypeOK
  <2>4. MailTypeOK' /\ MailNamesSender'
    BY <1>5, <2>2, <2>3 DEF MakeClone, IInv, MailTypeOK, MailNamesSender, PCBs
  <2> QED
    BY <1>1, <1>5, <2>1, <2>2, <2>4, SemUnchanged DEF MakeClone, IInv, SemInv
<1>6. CASE i.op = "SD" /\ (\E r \in Regs : Send(i.arg, r)) /\ UNCHANGED semaphore
  <2>1. Placed' /\ Mail
    BY <1>6, SendInv
  <2>2. Created' = Created
    BY <1>6 DEF Send, SendAndWake, SendAndWait, Stop, Created
  <2> QED
    BY <1>1, <1>6, <2>1, <2>2, SemUnchanged DEF IInv, SemInv
<1>7. CASE /\ (i.op = "RC" /\ RecFrom(i.arg)) \/ (i.op = "RX" /\ RecAny)
           /\ UNCHANGED semaphore
  <2>1. Placed' /\ Mail
    BY <1>7, RecInv
  <2>2. Created' = Created
    BY <1>7 DEF RecFrom, RecAny, Deliver, Delivered, Stop, Created
  <2> QED
    BY <1>1, <1>7, <2>1, <2>2, SemUnchanged DEF IInv, SemInv
<1>8. CASE i.op = "PE" /\ PE(i.arg) /\ UNCHANGED mailVars
  <2>1. Placed' /\ SemInv'
    BY <1>8, PEInv
  <2>2. Created' = Created
    BY <1>8 DEF PE, Acquire, WaitFor, SemContinue, SemExit, Stop, Created
  <2> QED
    BY <1>1, <1>8, <2>1, <2>2, MailUnchanged DEF IInv, SemInv
<1>9. CASE i.op = "VE" /\ VE(i.arg) /\ UNCHANGED mailVars
  <2>1. Placed' /\ SemInv'
    BY <1>9, VEInv
  <2>2. Created' = Created
    BY <1>9 DEF VE, Release, Free, HandOver, SemContinue, SemExit, Stop, Created
  <2> QED
    BY <1>1, <1>9, <2>1, <2>2, MailUnchanged DEF IInv, SemInv
<1>10. CASE i.op = "SI" /\ (\E r \in Regs : SI(i.arg, r)) /\ UNCHANGED mailVars
  <2>1. Placed' /\ SemInv'
    BY <1>10, SIInv
  <2>2. Created' = Created
    BY <1>10 DEF SI, SemContinue, SemExit, Stop, Created
  <2> QED
    BY <1>1, <1>10, <2>1, <2>2, MailUnchanged DEF IInv, SemInv
<1>11. {"exit", "fpe", "oob"} \subseteq Statuses
  BY DEF Statuses
<1>12. CASE Divide \/ Fork \/ Exec \/ SharedWord(i.arg)
  BY <1>2, <1>3, <1>5, <1>11, <1>12 DEF Divide, Fork, Exec, OutOfMemory, SharedWord
<1> QED
  BY <1>2, <1>4, <1>6, <1>7, <1>8, <1>9, <1>10, <1>12 DEF Instruction

LEMMA NextIInv ==
  ASSUME IInv, [Next]_vars
  PROVE  IInv'
<1>1. SmallRegs' /\ Placed /\ SemInv
  BY DEF IInv, SmallRegs, SemInv
<1>2. CASE Step
  BY <1>2, InstructionInv DEF Step
<1>3. CASE SliceEnd
  <2>1. CASE ContextSwitch
    BY <1>1, <1>3, <2>1, SwitchPlaced, MailUnchanged, SemUnchanged
       DEF SliceEnd, ContextSwitch, Created, IInv, SemInv
  <2>2. CASE NothingReady
    <3>1. Stop("exit") /\ "exit" \in Statuses
      BY <2>2 DEF NothingReady, Stop, Statuses
    <3> QED
      BY <1>1, <1>3, <3>1, StopPlaced, MailUnchanged, SemUnchanged
         DEF SliceEnd, Stop, Created, IInv, SemInv
  <2> QED
    BY <1>3, <2>1, <2>2 DEF SliceEnd
<1>4. CASE UNCHANGED vars
  <2>1. /\ UNCHANGED <<numPID, rq, bq, current, tdma, block, blockedOn, status>>
        /\ UNCHANGED mailVars /\ UNCHANGED semaphore
    BY <1>4 DEF vars, schedVars
  <2>2. Placed'
    BY <1>1, <2>1
       DEF Placed, SchedTypeOK, EveryProcessAccounted, EachInOnePlace, UnusedClean,
           Ready, Blocked, Halted, Created
  <2> QED
    BY <1>1, <2>1, <2>2, MailUnchanged, SemUnchanged DEF Created, IInv, SemInv
<1> QED
  BY <1>2, <1>3, <1>4 DEF Next, Stopped

(***************************************************************************)
(* For any sizes, any instructions and any time slice: the variables keep  *)
(* their types, and no process is lost, queued twice or left with a Block  *)
(* flag that contradicts the queue it is in, whatever the programs do, as  *)
(* long as what they send is an address below 65536.                       *)
(***************************************************************************)
THEOREM KernelTyping == SmallRegs /\ Spec => []TypeOK
<1>1. SmallRegs /\ Init => IInv
  BY InitIInv
<1>2. IInv /\ [Next]_vars => IInv'
  BY NextIInv
<1>3. IInv => TypeOK
  BY DEF IInv, Placed, TypeOK
<1> QED
  BY <1>1, <1>2, <1>3, PTL DEF Spec

THEOREM KernelAccounting == SmallRegs /\ Spec => []EveryProcessAccounted
<1>1. SmallRegs /\ Init => IInv
  BY InitIInv
<1>2. IInv /\ [Next]_vars => IInv'
  BY NextIInv
<1>3. IInv => EveryProcessAccounted
  BY DEF IInv, Placed
<1> QED
  BY <1>1, <1>2, <1>3, PTL DEF Spec
-----------------------------------------------------------------------------
(***************************************************************************)
(* No lost wakeup and no orphaned sender.                                  *)
(***************************************************************************)
\* The first process does not send 255, which is the mark of an empty mailbox.
NoEmptyMessage == EMPTY \notin Regs

MailInv == NoEmptyMessage /\ SleeperHasNoMail /\ SenderHasMailOut

-----------------------------------------------------------------------------
\* Where a step leaves every process that stays or comes to be blocked.
StaysBlocked(p) == p \in Blocked /\ blockedOn'[p] = blockedOn[p]

(***************************************************************************)
(* A step that writes no mailbox keeps the invariant if it blocks nobody   *)
(* in SD or RC and changes the WaitID of no blocked process.               *)
(***************************************************************************)
LEMMA NoMailStep ==
  ASSUME MailInv, mailbox' = mailbox,
         \A p \in Blocked' : \/ StaysBlocked(p) /\ waitID'[p] = waitID[p]
                             \/ blockedOn'[p].op \notin {"SD", "RC"}
  PROVE  MailInv'
  BY DEF MailInv, NoEmptyMessage, SleeperHasNoMail, SenderHasMailOut, StaysBlocked,
         BlockedIn, Instr, PCBs

\* What a process that gives up its slice, or goes on, leaves in blockedOn.
LEMMA InstrLeft ==
  ASSUME IInv, NEW i
  PROVE  /\ GiveUpSlice(i) => \A p \in PCBs :
              blockedOn'[p] = IF p = current THEN i ELSE blockedOn[p]
         /\ Continue => \A p \in PCBs :
              blockedOn'[p] = IF p = current THEN NoInstr ELSE blockedOn[p]
  BY DEF IInv, Placed, SchedTypeOK, GiveUpSlice, Continue

LEMMA AppendBlocked ==
  ASSUME IInv, NEW q \in Seq(PCBs), bq' = Append(q, current)
  PROVE  Blocked' = Range(q) \cup {current}
  BY AppendRange DEF IInv, Placed, SchedTypeOK, Blocked

LEMMA BlockedArePCBs ==
  ASSUME IInv
  PROVE  Blocked \subseteq PCBs
  BY DEF IInv, Placed, SchedTypeOK, Blocked, Range

LEMMA SendMail ==
  ASSUME IInv, MailInv, NEW i \in Text, Fetches(i), i.op = "SD",
         NEW r \in Regs, Send(i.arg, r)
  PROVE  MailInv'
<1> DEFINE d == i.arg
<1>1. i = Instr("SD", d) /\ d \in PCBs
  BY InstrOfText, OperandAssumption DEF Instr
<1>2. /\ current \in PCBs /\ current \notin Blocked /\ Placed
      /\ bq \in Seq(PCBs) /\ Blocked \subseteq PCBs
  BY FetcherIsNowhere, BlockedArePCBs DEF IInv, Placed, SchedTypeOK
<1>3. Word(current, r) # EMPTY
  <2>1. r \in Nat /\ r # 255 /\ current \in Nat
    BY <1>2, RegsAssumption DEF MailInv, NoEmptyMessage, EMPTY, PCBs
  <2> QED
    BY <2>1 DEF Word, EMPTY
<1>4. ASSUME PutInMailbox(d, r), GiveUpSlice(i),
             NEW stay \in SUBSET Blocked, Blocked' = stay \cup {current},
             \A p \in stay : waitID'[p] = waitID[p],
             d \in stay => waitID[d] # current
      PROVE  MailInv'
  <2>1. \A p, s \in PCBs : mailbox'[p][s] = IF p = d /\ s = current
                                            THEN Word(current, r) ELSE mailbox[p][s]
    BY <1>1, <1>2, <1>4 DEF PutInMailbox, IInv, MailTypeOK
  <2>2. \A p \in PCBs : blockedOn'[p] = IF p = current THEN i ELSE blockedOn[p]
    BY <1>4, InstrLeft
  <2>3. SleeperHasNoMail'
    <3> SUFFICES ASSUME NEW p \in PCBs, NEW s \in PCBs, p \in BlockedIn("RC", s)'
                 PROVE  mailbox'[p][s] = EMPTY /\ waitID'[p] = s
      BY DEF SleeperHasNoMail, PCBs
    <3>1. p # current /\ p \in stay /\ p \in BlockedIn("RC", s)
      BY <1>1, <1>4, <2>2 DEF BlockedIn, Instr
    <3>2. mailbox[p][s] = EMPTY /\ waitID[p] = s
      BY <3>1 DEF MailInv, SleeperHasNoMail
    <3> QED
      BY <1>4, <2>1, <3>1, <3>2
  <2>4. SenderHasMailOut'
    <3> SUFFICES ASSUME NEW p \in PCBs, NEW e \in PCBs, p \in BlockedIn("SD", e)'
                 PROVE  mailbox'[e][p] # EMPTY
      BY DEF SenderHasMailOut, PCBs
    <3>1. CASE p = current
      BY <1>1, <1>3, <2>1, <2>2, <3>1 DEF BlockedIn, Instr
    <3>2. CASE p # current
      <4>1. p \in BlockedIn("SD", e)
        BY <1>4, <2>2, <3>2 DEF BlockedIn
      <4> QED
        BY <2>1, <3>2, <4>1 DEF MailInv, SenderHasMailOut
    <3> QED
      BY <3>1, <3>2
  <2> QED
    BY <2>3, <2>4 DEF MailInv, NoEmptyMessage
<1>5. CASE d \in Created /\ SendAndWake(d, r)
  <2>1. /\ BqWithout(d) \in Seq(PCBs) /\ Range(BqWithout(d)) = Blocked \ {d}
    BY <1>2, <1>5, Unlinked DEF SendAndWake
  <2>2. Blocked' = (Blocked \ {d}) \cup {current}
    BY <1>5, <2>1, AppendBlocked DEF SendAndWake
  <2>3. \A p \in Blocked \ {d} : waitID'[p] = waitID[p]
    BY <1>2, <1>5 DEF SendAndWake, IInv, MailTypeOK
  <2>4. PutInMailbox(d, r) /\ GiveUpSlice(i)
    BY <1>1, <1>5 DEF SendAndWake
  <2> QED
    BY <1>4, <2>2, <2>3, <2>4
<1>6. CASE d \in Created /\ SendAndWait(d, r)
  <2>1. Blocked' = Blocked \cup {current}
    BY <1>2, <1>6, AppendBlocked DEF SendAndWait, Blocked
  <2>2. \A p \in Blocked : waitID'[p] = waitID[p]
    BY <1>2, <1>6 DEF SendAndWait, IInv, MailTypeOK
  <2>3. PutInMailbox(d, r) /\ GiveUpSlice(i) /\ waitID[d] # current
    BY <1>1, <1>6 DEF SendAndWait, Awaited
  <2> QED
    BY <1>4, <2>1, <2>2, <2>3
<1>7. CASE Stop("segv") /\ UNCHANGED mailVars
  BY <1>7, NoMailStep DEF Stop, mailVars, StaysBlocked, Blocked
<1> QED
  BY <1>5, <1>6, <1>7 DEF Send

LEMMA DeliverMail ==
  ASSUME IInv, MailInv, NEW i, Fetches(i), NEW s \in PCBs, MessageFrom(s),
         NEW w \in {s, current}, Deliver(Source(mailbox[current][s]), s, w)
  PROVE  MailInv'
<1>1. /\ current \in PCBs /\ current \notin Blocked /\ Placed
      /\ Blocked \subseteq PCBs
  BY FetcherIsNowhere, BlockedArePCBs DEF IInv
<1>2. Source(mailbox[current][s]) = s /\ s \in Created
  BY <1>1 DEF IInv, MailNamesSender, MessageFrom
<1>3. CASE Delivered(s, s, w)
  <2>1. PidOf(s) = s
    BY <1>1, <1>2, PidOfCreated
  <2>2. Blocked' = Blocked \ {s}
    BY <1>1, <1>2, <1>3, <2>1, Unlinked DEF Delivered, Blocked
  <2>3. \A p, q \in PCBs : mailbox'[p][q] = IF p = current /\ q = s
                                            THEN EMPTY ELSE mailbox[p][q]
    BY <1>1, <1>3 DEF Delivered, IInv, MailTypeOK
  <2>4. \A p \in Blocked' : /\ p \in PCBs /\ p # s /\ p # current
                            /\ blockedOn'[p] = blockedOn[p]
                            /\ waitID'[p] = waitID[p]
    <3>1. \A p \in PCBs : p # current => blockedOn'[p] = blockedOn[p]
      BY <1>3, InstrLeft DEF Delivered
    <3>2. \A p \in PCBs : p \notin {s, current} => waitID'[p] = waitID[p]
      BY <1>1, <1>3 DEF Delivered, IInv, MailTypeOK
    <3> QED
      BY <1>1, <2>2, <3>1, <3>2
  <2>5. SleeperHasNoMail'
    <3> SUFFICES ASSUME NEW p \in PCBs, NEW q \in PCBs, p \in BlockedIn("RC", q)'
                 PROVE  mailbox'[p][q] = EMPTY /\ waitID'[p] = q
      BY DEF SleeperHasNoMail, PCBs
    <3>1. p \in Blocked' /\ p \in BlockedIn("RC", q)
      BY <2>2, <2>4 DEF BlockedIn
    <3> QED
      BY <2>3, <2>4, <3>1 DEF MailInv, SleeperHasNoMail
  <2>6. SenderHasMailOut'
    <3> SUFFICES ASSUME NEW p \in PCBs, NEW e \in PCBs, p \in BlockedIn("SD", e)'
                 PROVE  mailbox'[e][p] # EMPTY
      BY DEF SenderHasMailOut, PCBs
    <3>1. p \in Blocked' /\ p \in BlockedIn("SD", e)
      BY <2>2, <2>4 DEF BlockedIn
    <3> QED
      BY <2>3, <2>4, <3>1 DEF MailInv, SenderHasMailOut
  <2> QED
    BY <2>5, <2>6 DEF MailInv, NoEmptyMessage
<1>4. ASSUME NEW how, Stop(how), UNCHANGED mailVars
      PROVE  MailInv'
  BY <1>4, NoMailStep DEF Stop, mailVars, StaysBlocked, Blocked
<1> QED
  BY <1>2, <1>3, <1>4 DEF Deliver

LEMMA RecMail ==
  ASSUME IInv, MailInv, NEW i \in Text, Fetches(i),
         (i.op = "RC" /\ RecFrom(i.arg)) \/ (i.op = "RX" /\ RecAny)
  PROVE  MailInv'
<1>1. /\ current \in PCBs /\ current \notin Blocked
      /\ bq \in Seq(PCBs) /\ Blocked \subseteq PCBs
  BY FetcherIsNowhere, BlockedArePCBs DEF IInv, Placed, SchedTypeOK
<1>2. CASE i.op = "RC" /\ RecFrom(i.arg)
  <2> DEFINE s == i.arg
  <2>1. i = Instr("RC", s) /\ s \in PCBs
    BY <1>2, InstrOfText, OperandAssumption DEF Instr
  <2>2. CASE MessageFrom(s)
    <3>1. Source(mailbox[current][s]) = s
      BY <1>1, <2>1, <2>2 DEF IInv, MailNamesSender, MessageFrom
    <3> QED
      BY <1>2, <2>1, <2>2, <3>1, DeliverMail DEF RecFrom
  <2>3. CASE ~ MessageFrom(s)
    <3>1. /\ mailbox' = mailbox /\ mailbox[current][s] = EMPTY
          /\ Blocked' = Blocked \cup {current}
          /\ \A p \in PCBs : blockedOn'[p] = IF p = current THEN i ELSE blockedOn[p]
          /\ \A p \in PCBs : waitID'[p] = IF p = current THEN s ELSE waitID[p]
      BY <1>1, <1>2, <2>1, <2>3, AppendBlocked, InstrLeft
         DEF RecFrom, MessageFrom, IInv, MailTypeOK, Blocked
    <3> QED
      BY <1>1, <2>1, <3>1
         DEF MailInv, NoEmptyMessage, SleeperHasNoMail, SenderHasMailOut, BlockedIn,
             Instr, PCBs
  <2> QED
    BY <2>2, <2>3
<1>3. CASE i.op = "RX" /\ RecAny
  <2>1. CASE \E s \in Scanned : Deliver(Source(mailbox[current][s]), s, current)
    BY <2>1, DeliverMail DEF Scanned
  <2>2. CASE Continue /\ UNCHANGED <<bq, mailVars>>
    BY <1>1, <2>2, NoMailStep, InstrLeft DEF mailVars, StaysBlocked, Blocked
  <2> QED
    BY <1>3, <2>1, <2>2 DEF RecAny
<1> QED
  BY <1>2, <1>3
LEMMA OtherMail ==
  ASSUME IInv, MailInv, NEW i \in Text, Fetches(i), Instruction(i),
         i.op \notin {"SD", "RC", "RX"}
  PROVE  MailInv'
<1>1. /\ current \in PCBs /\ current \notin Blocked /\ Placed
      /\ bq \in Seq(PCBs) /\ Blocked \subseteq PCBs
  BY FetcherIsNowhere, BlockedArePCBs DEF IInv, Placed, SchedTypeOK
<1>2. ASSUME mailbox' = mailbox, \A p \in Blocked : waitID'[p] = waitID[p],
             Blocked' \subseteq Blocked,
             Continue \/ GiveUpSlice(NoInstr) \/ GiveUpSlice(HaltInstr)
      PROVE  MailInv'
  <2>1. \A p \in Blocked' : blockedOn'[p] = blockedOn[p]
    BY <1>1, <1>2, InstrLeft
  <2> QED
    BY <1>2, <2>1, NoMailStep DEF StaysBlocked
<1>3. ASSUME NEW how, Stop(how), UNCHANGED mailVars
      PROVE  MailInv'
  BY <1>3, NoMailStep DEF Stop, mailVars, StaysBlocked, Blocked
<1>4. CASE Tick
  BY <1>2, <1>4 DEF Tick, mailVars, Blocked
<1>5. CASE Halt
  BY <1>2, <1>5 DEF Halt, mailVars, Blocked
<1>6. CASE MakeClone
  <2>1. numPID \notin Blocked
    BY <1>1 DEF Placed, EveryProcessAccounted, SchedTypeOK, Created
  <2>2. \A p \in Blocked : waitID'[p] = waitID[p]
    BY <1>1, <1>6, <2>1 DEF MakeClone, IInv, MailTypeOK
  <2> QED
    BY <1>2, <1>6, <2>2 DEF MakeClone, Blocked
<1>7. CASE i.op = "PE" /\ PE(i.arg) /\ UNCHANGED mailVars
  <2>1. CASE SemContinue
    BY <1>2, <1>7, <2>1 DEF SemContinue, mailVars, Blocked
  <2>2. CASE SemExit
    BY <1>3, <1>7, <2>2 DEF SemExit
  <2>3. CASE WaitFor(i.arg)
    <3>1. i = Instr("PE", i.arg)
      BY <1>7, InstrOfText
    <3>2. Blocked' = Blocked \cup {current}
      BY <1>1, <2>3, AppendBlocked DEF WaitFor, Blocked
    <3>3. \A p \in PCBs : blockedOn'[p] = IF p = current THEN i ELSE blockedOn[p]
      BY <2>3, <3>1, InstrLeft DEF WaitFor
    <3> QED
      BY <1>1, <1>7, <3>2, <3>3, NoMailStep DEF StaysBlocked, mailVars
  <2> QED
    BY <1>7, <2>1, <2>2, <2>3 DEF PE, Acquire
<1>8. CASE i.op = "VE" /\ VE(i.arg) /\ UNCHANGED mailVars
  <2>1. CASE SemContinue
    BY <1>2, <1>8, <2>1 DEF SemContinue, mailVars, Blocked
  <2>2. CASE Stop("exit") \/ Stop("segv")
    BY <1>3, <1>8, <2>2
  <2>3. CASE i.arg \in Semas /\ HandOver(i.arg)
    <3> DEFINE p == NextWaiting(semaphore[i.arg])
    <3>1. semaphore[i.arg] \in SemRecord
      BY <2>3 DEF IInv, SemTypeOK
    <3>2. p \in Created
      BY <2>3, <3>1 DEF IInv, RingsCreated, NextWaiting, SemRecord
    <3> HIDE DEF p
    <3>3. PidOf(p) = p
      BY <1>1, <3>2, PidOfCreated
    <3>4. Blocked' = Blocked \ {p} /\ Continue
      BY <1>1, <2>3, <3>2, <3>3, Unlinked DEF HandOver, p, Blocked
    <3> QED
      BY <1>2, <1>8, <3>4 DEF mailVars
  <2> QED
    BY <1>8, <2>1, <2>2, <2>3 DEF VE, Release, Free, SemExit
<1>9. CASE i.op = "SI" /\ (\E r \in Regs : SI(i.arg, r)) /\ UNCHANGED mailVars
  <2>1. CASE SemContinue
    BY <1>2, <1>9, <2>1 DEF SemContinue, mailVars, Blocked
  <2>2. CASE SemExit
    BY <1>3, <1>9, <2>2 DEF SemExit
  <2> QED
    BY <1>9, <2>1, <2>2 DEF SI
<1>10. CASE Divide \/ Fork \/ Exec \/ SharedWord(i.arg)
  BY <1>3, <1>4, <1>6, <1>10 DEF Divide, Fork, Exec, OutOfMemory, SharedWord, Abort, mailVars
<1> QED
  BY <1>4, <1>5, <1>7, <1>8, <1>9, <1>10 DEF Instruction

LEMMA NextMailInv ==
  ASSUME IInv, MailInv, [Next]_vars
  PROVE  MailInv'
<1>1. ASSUME NEW i \in Text, Fetches(i), Instruction(i)
      PROVE  MailInv'
  <2>1. CASE i.op = "SD"
    BY <1>1, <2>1, SendMail DEF Instruction
  <2>2. CASE i.op \in {"RC", "RX"}
    BY <1>1, <2>2, RecMail DEF Instruction
  <2>3. CASE i.op \notin {"SD", "RC", "RX"}
    BY <1>1, <2>3, OtherMail
  <2> QED
    BY <2>1, <2>2, <2>3
<1>2. CASE SliceEnd
  BY <1>2, NoMailStep
     DEF SliceEnd, ContextSwitch, NothingReady, mailVars, StaysBlocked, Blocked
<1>3. CASE UNCHANGED vars
  BY <1>3, NoMailStep DEF vars, schedVars, mailVars, StaysBlocked, Blocked
<1> QED
  BY <1>1, <1>2, <1>3 DEF Next, Step, Stopped

LEMMA InitMailInv ==
  ASSUME NoEmptyMessage, Init
  PROVE  MailInv
<1>1. Blocked = {}
  BY DEF Init, SchedInit, Blocked, Range
<1> QED
  BY <1>1 DEF MailInv, SleeperHasNoMail, SenderHasMailOut, BlockedIn

-----------------------------------------------------------------------------
(***************************************************************************)
(* No lost wakeup: a process never sleeps in RC of s while a message from  *)
(* s lies in its mailbox, nor without s knowing whom to wake.  Send writes *)
(* the mailbox before it tests WaitID, Rec tests it before it sets WaitID. *)
(***************************************************************************)
THEOREM NoLostWakeup == SmallRegs /\ NoEmptyMessage /\ Spec => []SleeperHasNoMail
<1>1. SmallRegs /\ NoEmptyMessage /\ Init => IInv /\ MailInv
  BY InitIInv, InitMailInv
<1>2. IInv /\ MailInv /\ [Next]_vars => IInv' /\ MailInv'
  BY NextIInv, NextMailInv
<1>3. MailInv => SleeperHasNoMail
  BY DEF MailInv
<1> QED
  BY <1>1, <1>2, <1>3, PTL DEF Spec

(***************************************************************************)
(* No orphaned sender: what a blocked sender waits for is still in the     *)
(* mailbox of its receiver; Rec takes the message and releases its sender  *)
(* together, and no other process overwrites or takes it.                  *)
(***************************************************************************)
THEOREM NoOrphanedSender == SmallRegs /\ NoEmptyMessage /\ Spec => []SenderHasMailOut
<1>1. SmallRegs /\ NoEmptyMessage /\ Init => IInv /\ MailInv
  BY InitIInv, InitMailInv
<1>2. IInv /\ MailInv /\ [Next]_vars => IInv' /\ MailInv'
  BY NextIInv, NextMailInv
<1>3. MailInv => SenderHasMailOut
  BY DEF MailInv
<1> QED
  BY <1>1, <1>2, <1>3, PTL DEF Spec

-----------------------------------------------------------------------------
\* What is put in a mailbox is a message.
LEMMA PutIsMessage ==
  ASSUME IInv, MailInv, NEW i, Fetches(i), NEW e \in PCBs, NEW r \in Regs, PutInMailbox(e, r),
         NEW d \in PCBs, NEW s \in PCBs, mailbox[d][s] # EMPTY
  PROVE  mailbox'[d][s] # EMPTY
<1>1. current \in PCBs
  BY FetcherIsNowhere DEF IInv
<1>2. mailbox'[d][s] \in {mailbox[d][s], Word(current, r)}
  BY <1>1 DEF PutInMailbox, IInv, MailTypeOK
<1>3. r \in Nat /\ r # 255 /\ current \in Nat
  BY <1>1, RegsAssumption DEF MailInv, NoEmptyMessage, EMPTY, PCBs
<1>4. Word(current, r) # EMPTY
  BY <1>3 DEF Word, EMPTY
<1> QED
  BY <1>2, <1>4

\* Deliver takes the word of the process it unblocks, or none.
LEMMA DeliverReleases ==
  ASSUME IInv, NEW i, Fetches(i), NEW k \in PCBs, MessageFrom(k), NEW w,
         Deliver(Source(mailbox[current][k]), k, w),
         NEW d \in PCBs, NEW s \in PCBs, mailbox[d][s] # EMPTY, mailbox'[d][s] = EMPTY
  PROVE  s \notin Blocked'
<1>1. current \in PCBs /\ Placed
  BY FetcherIsNowhere DEF IInv
<1>2. Source(mailbox[current][k]) = k /\ k \in Created
  BY <1>1 DEF IInv, MailNamesSender, MessageFrom
<1>3. CASE Delivered(k, k, w)
  <2>1. s = k
    BY <1>1, <1>3 DEF Delivered, IInv, MailTypeOK
  <2>2. PidOf(k) = k
    BY <1>1, <1>2, PidOfCreated
  <2>3. Blocked' = Blocked \ {k}
    BY <1>1, <1>2, <1>3, <2>2, Unlinked DEF Delivered, Blocked
  <2> QED
    BY <2>1, <2>3
<1>4. CASE UNCHANGED mailVars
  BY <1>4 DEF mailVars
<1> QED
  BY <1>2, <1>3, <1>4 DEF Deliver

LEMMA TakenIsReleased ==
  ASSUME IInv, MailInv, [Next]_vars,
         NEW d \in PCBs, NEW s \in PCBs, mailbox[d][s] # EMPTY, mailbox'[d][s] = EMPTY
  PROVE  s \notin Blocked'
<1>1. CASE mailbox' = mailbox
  BY <1>1
<1>2. ASSUME NEW i \in Text, Fetches(i), Instruction(i)
      PROVE  s \notin Blocked'
  <2>1. CASE i.op = "SD"
    <3>1. PICK r \in Regs : Send(i.arg, r)
      BY <1>2, <2>1 DEF Instruction
    <3>2. PutInMailbox(i.arg, r) \/ UNCHANGED mailVars
      BY <3>1 DEF Send, SendAndWake, SendAndWait
    <3>3. i.arg \in PCBs
      BY <2>1, OperandAssumption
    <3>4. CASE PutInMailbox(i.arg, r)
      BY <1>2, <3>3, <3>4, PutIsMessage
    <3> QED
      BY <1>1, <3>2, <3>4 DEF mailVars
  <2>2. CASE i.op = "RC"
    <3>1. i.arg \in PCBs /\ RecFrom(i.arg)
      BY <1>2, <2>2, OperandAssumption DEF Instruction
    <3>2. CASE ~ MessageFrom(i.arg)
      BY <1>1, <3>1, <3>2 DEF RecFrom
    <3>3. CASE MessageFrom(i.arg)
      BY <1>2, <3>1, <3>3, DeliverReleases DEF RecFrom
    <3> QED
      BY <3>2, <3>3
  <2>3. CASE i.op = "RX"
    <3>1. CASE UNCHANGED mailVars
      BY <1>1, <3>1 DEF mailVars
    <3>2. CASE \E k \in Scanned : Deliver(Source(mailbox[current][k]), k, current)
      BY <1>2, <3>2, DeliverReleases DEF Scanned
    <3> QED
      BY <1>2, <2>3, <3>1, <3>2 DEF Instruction, RecAny
  <2>4. CASE i.op \notin {"SD", "RC", "RX"}
    <3>1. mailbox' = mailbox
      BY <1>2, <2>4 DEF Instruction, Tick, Divide, Abort, Halt, Fork, MakeClone, Exec, OutOfMemory,
                        SharedWord, mailVars
    <3> QED
      BY <1>1, <3>1
  <2> QED
    BY <2>1, <2>2, <2>3, <2>4
<1>3. CASE SliceEnd \/ UNCHANGED vars
  BY <1>1, <1>3 DEF SliceEnd, vars, mailVars
<1> QED
  BY <1>2, <1>3 DEF Next, Step, Stopped

(***************************************************************************)
(* Whoever takes a message releases the process that sent it: the PID that *)
(* Rec pulls out of the word is that of the mailbox word it was found in,  *)
(* and blockq and readyq are called with it.                               *)
(***************************************************************************)
THEOREM TakersRelease == SmallRegs /\ NoEmptyMessage /\ Spec => ReleasesSender
<1>1. SmallRegs /\ NoEmptyMessage /\ Init => IInv /\ MailInv
  BY InitIInv, InitMailInv
<1>2. IInv /\ MailInv /\ [Next]_vars => IInv' /\ MailInv'
  BY NextIInv, NextMailInv
<1>3. IInv /\ MailInv /\ [Next]_vars =>
        [\A d, s \in PCBs :
           mailbox[d][s] # EMPTY /\ mailbox'[d][s] = EMPTY => s \notin Blocked']_vars
  BY TakenIsReleased
<1> QED
  BY <1>1, <1>2, <1>3, PTL DEF Spec, ReleasesSender
=============================================================================
