---------------------------- MODULE PoliteProofs ----------------------------
(***************************************************************************)
(* What the discipline of Polite gives, for any number of processes and    *)
(* semaphores: the rings list the processes that wait, no instruction runs *)
(* off a queue, and SD and RC are a rendezvous.                            *)
(***************************************************************************)
EXTENDS Polite, KernelProofs

-----------------------------------------------------------------------------
(***************************************************************************)
(* The inductive invariant.  A message in a mailbox means that its sender  *)
(* is blocked in SD, and a WaitID that names a process means that its      *)
(* owner is blocked in RC from it or SD to it: so Send wakes nobody who    *)
(* waits for something else, and Rec finds the sender it releases.         *)
(***************************************************************************)
MessageMeansSending ==
  \A d, p \in PCBs : mailbox[d][p] # EMPTY => p \in BlockedIn("SD", d)

WaitIDIsTrue ==
  \A p \in Created :
    waitID[p] # NobodyAwaited =>
      p \in BlockedIn("RC", waitID[p]) \cup BlockedIn("SD", waitID[p])

\* The slots of the ring from head up to tail.
Slots(s) == semaphore[s].head .. semaphore[s].tail - 1

RingLists(s) ==
  /\ semaphore[s].head <= semaphore[s].tail
  /\ \A k \in Slots(s) : semaphore[s].waiting[k] \in BlockedIn("PE", s)
  /\ \A p \in BlockedIn("PE", s) : \E k \in Slots(s) : semaphore[s].waiting[k] = p
  /\ \A j, k \in Slots(s) :
       j < k => Precedes(bq, semaphore[s].waiting[j], semaphore[s].waiting[k])

PoliteInv ==
  /\ IInv
  /\ FirstLap
  /\ MessageMeansSending
  /\ WaitIDIsTrue
  /\ \A s \in Semas : RingLists(s)
  /\ NoNullDereference

\* What the step leaves of the ring of s.
SameRing(s) ==
  /\ semaphore'[s].head = semaphore[s].head
  /\ semaphore'[s].tail = semaphore[s].tail
  /\ semaphore'[s].waiting = semaphore[s].waiting

-----------------------------------------------------------------------------
(***************************************************************************)
(* The order of a queue.                                                   *)
(***************************************************************************)
LEMMA AppendPrecedes ==
  ASSUME NEW S, NEW q \in Seq(S), NEW e \in S
  PROVE  /\ \A x, y : Precedes(q, x, y) => Precedes(Append(q, e), x, y)
         /\ \A x \in Range(q) : Precedes(Append(q, e), x, e)
<1>1. /\ DOMAIN Append(q, e) = 1 .. Len(q) + 1 /\ DOMAIN q = 1 .. Len(q)
      /\ Len(q) \in Nat /\ Append(q, e)[Len(q) + 1] = e
      /\ \A j \in 1 .. Len(q) : Append(q, e)[j] = q[j] /\ j \in 1 .. Len(q) + 1
      /\ \A j \in 1 .. Len(q) : j < Len(q) + 1
  OBVIOUS
<1> QED BY <1>1 DEF Precedes, Range

LEMMA RemoveAtPrecedes ==
  ASSUME NEW S, NEW q \in Seq(S), NEW k \in 1 .. Len(q), NEW x, NEW y,
         Precedes(q, x, y), x # q[k], y # q[k]
  PROVE  Precedes(RemoveAt(q, k), x, y)
<1>1. PICK i \in 1 .. Len(q), j \in 1 .. Len(q) : i < j /\ q[i] = x /\ q[j] = y
  BY DEF Precedes
<1>2. /\ RemoveAt(q, k) \in Seq(S) /\ Len(RemoveAt(q, k)) = Len(q) - 1
      /\ \A m \in 1 .. Len(q) - 1 : RemoveAt(q, k)[m] = IF m < k THEN q[m] ELSE q[m + 1]
  BY RemoveAtEntries
<1> DEFINE new(m) == IF m < k THEN m ELSE m - 1
           rest == RemoveAt(q, k)
           n == Len(q)
<1>3. i # k /\ j # k
  BY <1>1
<1>4. n \in Nat /\ k \in 1 .. n /\ i \in 1 .. n /\ j \in 1 .. n
  BY <1>1
<1>5. /\ rest \in Seq(S) /\ Len(rest) = n - 1
      /\ \A m \in 1 .. n - 1 : rest[m] = IF m < k THEN q[m] ELSE q[m + 1]
  BY <1>2
<1> HIDE DEF rest, n
<1>6. ASSUME NEW m \in 1 .. n, m # k
      PROVE  new(m) \in DOMAIN rest /\ rest[new(m)] = q[m]
  <2>1. CASE m < k
    <3>1. m \in 1 .. n - 1
      BY <1>4, <2>1
    <3> QED BY <1>5, <2>1, <3>1
  <2>2. CASE m > k
    <3>1. m - 1 \in 1 .. n - 1 /\ ~ (m - 1 < k) /\ (m - 1) + 1 = m /\ ~ (m < k)
      BY <1>4, <2>2
    <3> QED BY <1>5, <3>1
  <2> QED BY <1>4, <1>6, <2>1, <2>2
<1>7. new(i) < new(j)
  BY <1>1, <1>3, <1>4
<1>8. new(i) \in DOMAIN rest /\ new(j) \in DOMAIN rest /\ rest[new(i)] = x /\ rest[new(j)] = y
  BY <1>1, <1>3, <1>4, <1>6
<1> QED BY <1>7, <1>8 DEF Precedes, rest

LEMMA UnlinkedOrder ==
  ASSUME Placed, NEW p \in Created, IsBlocked(p), NEW x, NEW y, x # p, y # p,
         Precedes(bq, x, y)
  PROVE  Precedes(BqWithout(p), x, y)
<1>1. PICK k \in 1 .. Len(bq) : bq[k] = p /\ BqWithout(p) = RemoveAt(bq, k)
  BY UnlinkedEntry
<1>2. bq \in Seq(PCBs)
  BY DEF Placed, SchedTypeOK
<1> QED BY <1>1, <1>2, RemoveAtPrecedes

-----------------------------------------------------------------------------
(***************************************************************************)
(* Who is blocked in what after a process went to sleep in i, after w was  *)
(* woken, and after both.                                                  *)
(***************************************************************************)
LEMMA Fetcher ==
  ASSUME PoliteInv, NEW i \in Text, Fetches(i)
  PROVE  /\ current \in Created /\ current \in PCBs /\ current \notin Blocked /\ Placed
         /\ bq \in Seq(PCBs) /\ Blocked \subseteq PCBs /\ i = Instr(i.op, i.arg)
         /\ waitID[current] = NobodyAwaited
         /\ \A d \in PCBs : mailbox[d][current] = EMPTY
<1>1. /\ current \in Created /\ current \in PCBs /\ current \notin Blocked /\ Placed
      /\ bq \in Seq(PCBs) /\ Blocked \subseteq PCBs
  BY FetcherIsNowhere, BlockedArePCBs DEF PoliteInv, IInv, Placed, SchedTypeOK
<1>2. waitID[current] = NobodyAwaited
  BY <1>1 DEF PoliteInv, WaitIDIsTrue, BlockedIn
<1>3. \A d \in PCBs : mailbox[d][current] = EMPTY
  BY <1>1 DEF PoliteInv, MessageMeansSending, BlockedIn
<1> QED BY <1>1, <1>2, <1>3, InstrOfText

LEMMA FellAsleep ==
  ASSUME PoliteInv, NEW i \in Text, Fetches(i), GiveUpSlice(i), NEW gone,
         Blocked' = (Blocked \ gone) \cup {current}
  PROVE  \A op, a : BlockedIn(op, a)' =
                      (BlockedIn(op, a) \ gone) \cup {p \in {current} : i = Instr(op, a)}
<1>1. /\ current \in PCBs /\ current \notin Blocked /\ Blocked \subseteq PCBs
      /\ \A p \in PCBs : blockedOn'[p] = IF p = current THEN i ELSE blockedOn[p]
  BY Fetcher, InstrLeft DEF PoliteInv
<1> QED BY <1>1 DEF BlockedIn

LEMMA WokeUp ==
  ASSUME PoliteInv, NEW i \in Text, Fetches(i), Continue, NEW w, Blocked' = Blocked \ {w}
  PROVE  \A op, a : BlockedIn(op, a)' = BlockedIn(op, a) \ {w}
<1>1. /\ current \in PCBs /\ current \notin Blocked /\ Blocked \subseteq PCBs
      /\ \A p \in PCBs : blockedOn'[p] = IF p = current THEN NoInstr ELSE blockedOn[p]
  BY Fetcher, InstrLeft DEF PoliteInv
<1> QED BY <1>1 DEF BlockedIn

LEMMA BlockedOnOne ==
  ASSUME NEW p, NEW op, NEW a, NEW other, NEW b, p \in BlockedIn(op, a), p \in BlockedIn(other, b)
  PROVE  op = other /\ a = b
BY DEF BlockedIn, Instr

(***************************************************************************)
(* A ring lists its waiters still when neither changes and the waiters     *)
(* keep their order.                                                       *)
(***************************************************************************)
LEMMA RingKept ==
  ASSUME NEW s \in Semas, RingLists(s), SameRing(s), BlockedIn("PE", s)' = BlockedIn("PE", s),
         \A x, y \in BlockedIn("PE", s) : Precedes(bq, x, y) => Precedes(bq', x, y)
  PROVE  RingLists(s)'
BY DEF RingLists, SameRing, Slots

-----------------------------------------------------------------------------
(***************************************************************************)
(* The steps.  First those that move nobody in or out of the block queue.  *)
(***************************************************************************)
LEMMA QuietKeeps ==
  ASSUME PoliteInv, IInv', FirstLap', mailbox' = mailbox, bq' = bq,
         \A p \in Blocked : blockedOn'[p] = blockedOn[p],
         \A p \in Created' : \/ waitID'[p] = NobodyAwaited
                             \/ p \in Created /\ waitID'[p] = waitID[p],
         \A s \in Semas : SameRing(s),
         status' # "segv"
  PROVE  PoliteInv'
<1>1. \A op, a : BlockedIn(op, a)' = BlockedIn(op, a)
  BY DEF BlockedIn, Blocked
<1>2. MessageMeansSending'
  BY <1>1 DEF PoliteInv, MessageMeansSending, PCBs
<1>3. WaitIDIsTrue'
  BY <1>1 DEF PoliteInv, WaitIDIsTrue
<1>4. \A s \in Semas : RingLists(s)'
  BY <1>1, RingKept DEF PoliteInv
<1> QED BY <1>2, <1>3, <1>4 DEF PoliteInv, NoNullDereference, Semas

\* PE that waits: the process is the last of the queue and of the ring.
LEMMA WaitForRing ==
  ASSUME PoliteInv, NEW s \in Semas, WaitFor(s), FirstLap'
  PROVE  LET old == semaphore[s]
             new == semaphore'[s]
         IN  /\ new.head = old.head /\ new.tail = old.tail + 1
             /\ new.waiting[old.tail] = current
             /\ \A k \in Slots(s) : new.waiting[k] = old.waiting[k]
             /\ \A t \in Semas \ {s} : semaphore'[t] = semaphore[t]
<1>1. /\ semaphore \in [Semas -> SemRecord] /\ semaphore[s] \in SemRecord
      /\ LastSlot \in Nat
  BY SemAssumption DEF PoliteInv, IInv, SemTypeOK, LastSlot
<1>2. semaphore' = [semaphore EXCEPT ![s] = Enqwait(semaphore[s], current)]
  BY DEF WaitFor
<1>3. semaphore[s].tail < LastSlot
  BY DEF PoliteInv, FirstLap
<1>4. /\ Enqwait(semaphore[s], current).head = semaphore[s].head
      /\ Enqwait(semaphore[s], current).tail = semaphore[s].tail + 1
      /\ Enqwait(semaphore[s], current).waiting =
           [semaphore[s].waiting EXCEPT ![semaphore[s].tail] = current]
  BY <1>1, <1>3 DEF Enqwait, SemRecord
<1>5. semaphore[s].waiting \in [0 .. LastSlot -> PCBs] /\ semaphore[s].tail \in 0 .. LastSlot
      /\ semaphore[s].head \in 0 .. LastSlot
  BY <1>1 DEF SemRecord
<1>6. \A k \in Slots(s) : k \in 0 .. LastSlot /\ k # semaphore[s].tail
  <2> DEFINE h == semaphore[s].head
             t == semaphore[s].tail
  <2>1. LastSlot \in Nat /\ h \in 0 .. LastSlot /\ t \in 0 .. LastSlot
    BY <1>1, <1>5
  <2> HIDE DEF h, t
  <2>2. \A k \in h .. t - 1 : k \in 0 .. LastSlot /\ k # t
    BY <2>1
  <2> QED BY <2>2 DEF Slots, h, t
<1>7. semaphore'[s] = Enqwait(semaphore[s], current)
  BY <1>1, <1>2
<1>8. \A t \in Semas \ {s} : semaphore'[t] = semaphore[t]
  BY <1>1, <1>2
<1>9. /\ semaphore'[s].waiting[semaphore[s].tail] = current
      /\ \A k \in Slots(s) : semaphore'[s].waiting[k] = semaphore[s].waiting[k]
  BY <1>4, <1>5, <1>6, <1>7
<1> QED BY <1>4, <1>7, <1>8, <1>9

LEMMA WaitForKeeps ==
  ASSUME PoliteInv, NEW i \in Text, Fetches(i), i.op = "PE", i.arg \in Semas, WaitFor(i.arg),
         UNCHANGED mailVars, IInv', FirstLap'
  PROVE  PoliteInv'
<1> DEFINE s == i.arg
           old == semaphore[s]
           new == semaphore'[s]
<1>1. /\ current \in Created /\ current \in PCBs /\ current \notin Blocked /\ Placed
      /\ bq \in Seq(PCBs) /\ Blocked \subseteq PCBs /\ i = Instr("PE", s)
      /\ waitID[current] = NobodyAwaited
  BY Fetcher
<1>2. Blocked' = Blocked \cup {current} /\ bq' = Append(bq, current) /\ GiveUpSlice(i)
  BY <1>1, AppendBlocked DEF WaitFor, PoliteInv, Blocked
<1>3. \A op, a : BlockedIn(op, a)' = BlockedIn(op, a) \cup {p \in {current} : i = Instr(op, a)}
  <2>1. Blocked' = (Blocked \ {}) \cup {current}
    BY <1>2
  <2>2. \A op, a : BlockedIn(op, a)' = (BlockedIn(op, a) \ {}) \cup {p \in {current} : i = Instr(op, a)}
    BY <1>2, <2>1, FellAsleep
  <2> QED BY <2>2
<1>4. MessageMeansSending'
  BY <1>3 DEF PoliteInv, MessageMeansSending, PCBs, mailVars
<1>5. WaitIDIsTrue'
  BY <1>3 DEF PoliteInv, WaitIDIsTrue, mailVars, Created, WaitFor
<1>6. /\ \A x, y : Precedes(bq, x, y) => Precedes(bq', x, y)
      /\ \A x \in Blocked : Precedes(bq', x, current)
  BY <1>1, <1>2, AppendPrecedes DEF Blocked
<1>7. ASSUME NEW t \in Semas, t # s PROVE RingLists(t)'
  <2>1. SameRing(t)
    BY <1>7, WaitForRing DEF SameRing
  <2>2. BlockedIn("PE", t)' = BlockedIn("PE", t)
    <3>1. i # Instr("PE", t)
      BY <1>1, <1>7 DEF Instr
    <3> QED BY <1>3, <3>1
  <2> QED BY <1>6, <2>1, <2>2, RingKept DEF PoliteInv
<1>8. RingLists(s)'
  <2>1. /\ new.head = old.head /\ new.tail = old.tail + 1 /\ new.waiting[old.tail] = current
        /\ \A k \in Slots(s) : new.waiting[k] = old.waiting[k]
    BY WaitForRing
  <2>2. old.head \in Nat /\ old.tail \in Nat /\ old.head <= old.tail
    BY DEF PoliteInv, IInv, SemTypeOK, SemRecord, RingLists
  <2>3. Slots(s)' = Slots(s) \cup {old.tail} /\ \A k \in Slots(s) : k < old.tail
    BY <2>1, <2>2 DEF Slots
  <2>4. BlockedIn("PE", s)' = BlockedIn("PE", s) \cup {current}
    BY <1>1, <1>3
  <2>5. BlockedIn("PE", s) \subseteq Blocked
    BY DEF BlockedIn
  <2>6. RingLists(s)
    BY DEF PoliteInv
  <2>7. \A k \in Slots(s)' : new.waiting[k] \in BlockedIn("PE", s)'
    BY <2>1, <2>3, <2>4, <2>6 DEF RingLists
  <2>8. \A p \in BlockedIn("PE", s)' : \E k \in Slots(s)' : new.waiting[k] = p
    BY <2>1, <2>3, <2>4, <2>6 DEF RingLists
  <2>9. ASSUME NEW j \in Slots(s)', NEW k \in Slots(s)', j < k
        PROVE  Precedes(bq', new.waiting[j], new.waiting[k])
    <3>1. j \in Slots(s)
      BY <2>2, <2>3, <2>9 DEF Slots
    <3>2. CASE k \in Slots(s)
      BY <1>6, <2>1, <2>6, <2>9, <3>1, <3>2 DEF RingLists
    <3>3. CASE k = old.tail
      BY <1>6, <2>1, <2>5, <2>6, <3>1, <3>3 DEF RingLists
    <3> QED BY <2>3, <3>2, <3>3
  <2>10. new.head <= new.tail
    BY <2>1, <2>2
  <2> QED BY <2>7, <2>8, <2>9, <2>10 DEF RingLists
<1>9. NoNullDereference'
  BY DEF PoliteInv, NoNullDereference, WaitFor
<1> QED BY <1>4, <1>5, <1>7, <1>8, <1>9 DEF PoliteInv, Semas

\* A process went to sleep in SD or RC, and a process that was blocked in one
\* of them was perhaps woken before that.
LEMMA RingsAfterSleep ==
  ASSUME PoliteInv, NEW i \in Text, Fetches(i), i.op # "PE", GiveUpSlice(i),
         semaphore' = semaphore, bq' = Append(bq, current)
  PROVE  \A s \in Semas : RingLists(s)'
<1>1. /\ bq \in Seq(PCBs) /\ current \in PCBs /\ i = Instr(i.op, i.arg)
  BY Fetcher
<1>2. Blocked' = (Blocked \ {}) \cup {current}
  BY <1>1, AppendBlocked DEF PoliteInv, Blocked
<1>3. \A op, a : BlockedIn(op, a)' = (BlockedIn(op, a) \ {}) \cup {p \in {current} : i = Instr(op, a)}
  BY <1>2, FellAsleep
<1> SUFFICES ASSUME NEW s \in Semas PROVE RingLists(s)'
  OBVIOUS
<1>4. i # Instr("PE", s)
  BY <1>1 DEF Instr
<1>5. BlockedIn("PE", s)' = BlockedIn("PE", s)
  BY <1>3, <1>4
<1>6. \A x, y : Precedes(bq, x, y) => Precedes(bq', x, y)
  BY <1>1, AppendPrecedes
<1> QED BY <1>5, <1>6, RingKept DEF PoliteInv, SameRing

LEMMA RingsAfterWake ==
  ASSUME PoliteInv, NEW i \in Text, Fetches(i), Continue, NEW w \in Created, w \in Blocked,
         IsBlocked(w), bq' = BqWithout(w), NEW s \in Semas, SameRing(s), w \notin BlockedIn("PE", s)
  PROVE  RingLists(s)'
<1>1. Blocked' = Blocked \ {w}
  BY Unlinked DEF PoliteInv, IInv, Blocked
<1>2. BlockedIn("PE", s)' = BlockedIn("PE", s)
  BY <1>1, WokeUp
<1>3. \A x, y \in BlockedIn("PE", s) : Precedes(bq, x, y) => Precedes(bq', x, y)
  BY UnlinkedOrder DEF PoliteInv, IInv
<1> QED BY <1>2, <1>3, RingKept DEF PoliteInv

LEMMA RingsAfterWakeAndSleep ==
  ASSUME PoliteInv, NEW i \in Text, Fetches(i), i.op # "PE", GiveUpSlice(i),
         NEW w \in Created, w \in Blocked, IsBlocked(w),
         \A s \in Semas : w \notin BlockedIn("PE", s),
         semaphore' = semaphore, bq' = Append(BqWithout(w), current)
  PROVE  \A s \in Semas : RingLists(s)'
<1>1. current \in PCBs /\ i = Instr(i.op, i.arg) /\ Placed
  BY Fetcher
<1>2. BqWithout(w) \in Seq(PCBs) /\ Range(BqWithout(w)) = Blocked \ {w}
  BY <1>1, Unlinked
<1>3. Blocked' = (Blocked \ {w}) \cup {current}
  BY <1>2, AppendBlocked DEF PoliteInv
<1>4. \A op, a : BlockedIn(op, a)' = (BlockedIn(op, a) \ {w}) \cup {p \in {current} : i = Instr(op, a)}
  BY <1>3, FellAsleep
<1> SUFFICES ASSUME NEW s \in Semas PROVE RingLists(s)'
  OBVIOUS
<1>5. i # Instr("PE", s)
  BY <1>1 DEF Instr
<1>6. BlockedIn("PE", s)' = BlockedIn("PE", s)
  BY <1>4, <1>5
<1>7. \A x, y \in BlockedIn("PE", s) : Precedes(bq, x, y) => Precedes(bq', x, y)
  <2> SUFFICES ASSUME NEW x \in BlockedIn("PE", s), NEW y \in BlockedIn("PE", s), Precedes(bq, x, y)
               PROVE  Precedes(bq', x, y)
    OBVIOUS
  <2>1. Precedes(BqWithout(w), x, y)
    BY <1>1, UnlinkedOrder
  <2> QED BY <1>1, <1>2, <2>1, AppendPrecedes
<1> QED BY <1>6, <1>7, RingKept DEF PoliteInv, SameRing

\* RC that waits.
LEMMA RecSleepKeeps ==
  ASSUME PoliteInv, NEW i \in Text, Fetches(i), i.op = "RC", RecFrom(i.arg), ~ MessageFrom(i.arg),
         semaphore' = semaphore, IInv', FirstLap'
  PROVE  PoliteInv'
<1>1. /\ current \in PCBs /\ current \notin Blocked /\ bq \in Seq(PCBs) /\ i = Instr("RC", i.arg)
      /\ i.arg \in PCBs
  BY Fetcher, OperandAssumption
<1>2. /\ bq' = Append(bq, current) /\ GiveUpSlice(i) /\ mailbox' = mailbox
      /\ waitID' = [waitID EXCEPT ![current] = i.arg] /\ numPID' = numPID /\ status' = status
  BY <1>1 DEF RecFrom
<1>3. Blocked' = (Blocked \ {}) \cup {current}
  BY <1>1, <1>2, AppendBlocked DEF PoliteInv, Blocked
<1>4. \A op, a : BlockedIn(op, a)' = (BlockedIn(op, a) \ {}) \cup {p \in {current} : i = Instr(op, a)}
  BY <1>2, <1>3, FellAsleep
<1>5. MessageMeansSending'
  BY <1>2, <1>4 DEF PoliteInv, MessageMeansSending, PCBs
<1>6. \A p \in Created : waitID'[p] = IF p = current THEN i.arg ELSE waitID[p]
  BY <1>1, <1>2 DEF PoliteInv, IInv, MailTypeOK, Placed, SchedTypeOK, Created, PCBs
<1>7. WaitIDIsTrue'
  BY <1>1, <1>2, <1>4, <1>6 DEF PoliteInv, WaitIDIsTrue, Created
<1>8. \A s \in Semas : RingLists(s)'
  BY <1>1, <1>2, RingsAfterSleep
<1> QED BY <1>2, <1>5, <1>7, <1>8 DEF PoliteInv, NoNullDereference, Semas

\* SD, to a process that does not wait for it and to one that does.
LEMMA Mailed ==
  ASSUME PoliteInv, NEW d \in PCBs, NEW r \in Regs, PutInMailbox(d, r), current \in PCBs
  PROVE  \A e, p \in PCBs : mailbox'[e][p] = IF e = d /\ p = current
                                             THEN Word(current, r) ELSE mailbox[e][p]
BY DEF PutInMailbox, PoliteInv, IInv, MailTypeOK

LEMMA SendSleepKeeps ==
  ASSUME PoliteInv, NEW i \in Text, Fetches(i), i.op = "SD", NEW r \in Regs,
         SendAndWait(i.arg, r), semaphore' = semaphore, IInv', FirstLap'
  PROVE  PoliteInv'
<1> DEFINE d == i.arg
<1>1. /\ current \in PCBs /\ current \notin Blocked /\ bq \in Seq(PCBs) /\ i = Instr("SD", d)
      /\ d \in PCBs
  BY Fetcher, OperandAssumption
<1>2. /\ bq' = Append(bq, current) /\ GiveUpSlice(i) /\ PutInMailbox(d, r)
      /\ waitID' = [waitID EXCEPT ![current] = d] /\ numPID' = numPID /\ status' = status
  BY <1>1 DEF SendAndWait
<1>3. Blocked' = (Blocked \ {}) \cup {current}
  BY <1>1, <1>2, AppendBlocked DEF PoliteInv, Blocked
<1>4. \A op, a : BlockedIn(op, a)' = (BlockedIn(op, a) \ {}) \cup {p \in {current} : i = Instr(op, a)}
  BY <1>2, <1>3, FellAsleep
<1>5. MessageMeansSending'
  <2>1. \A e, p \in PCBs : (e = d /\ p = current) \/ mailbox'[e][p] = mailbox[e][p]
    BY <1>1, <1>2, Mailed
  <2>2. current \in BlockedIn("SD", d)'
    BY <1>1, <1>4
  <2>3. \A e, p \in PCBs : p \in BlockedIn("SD", e) => p \in BlockedIn("SD", e)'
    BY <1>4
  <2> QED BY <2>1, <2>2, <2>3 DEF PoliteInv, MessageMeansSending, PCBs
<1>6. \A p \in Created : waitID'[p] = IF p = current THEN d ELSE waitID[p]
  BY SMTT(20), <1>1, <1>2 DEF PoliteInv, IInv, MailTypeOK, Placed, SchedTypeOK, Created, PCBs
<1>7. WaitIDIsTrue'
  BY <1>1, <1>2, <1>4, <1>6 DEF PoliteInv, WaitIDIsTrue, Created
<1>8. \A s \in Semas : RingLists(s)'
  BY <1>1, <1>2, RingsAfterSleep
<1> QED BY <1>2, <1>5, <1>7, <1>8 DEF PoliteInv, NoNullDereference, Semas

\* Politeness: the process that SD wakes is in RC from the sender.
LEMMA WokenReceives ==
  ASSUME PoliteInv, NEW d \in Created, d \notin BlockedIn("SD", current), current \in PCBs, Awaited(d)
  PROVE  d \in BlockedIn("RC", current) /\ IsBlocked(d)
<1>1. current # NobodyAwaited /\ AnyoneAwaited \notin PCBs \cup {NobodyAwaited}
  BY SchedAssumption DEF PCBs, NobodyAwaited, AnyoneAwaited
<1>2. d \in PCBs /\ waitID[d] \in PCBs \cup {NobodyAwaited}
  BY SMTT(20), SchedAssumption DEF PoliteInv, IInv, MailTypeOK, Placed, SchedTypeOK, Created, PCBs
<1>3. waitID[d] = current
  BY <1>1, <1>2 DEF Awaited
<1>4. d \in BlockedIn("RC", current)
  BY <1>1, <1>3 DEF PoliteInv, WaitIDIsTrue
<1>5. PidOf(d) = d
  BY PidOfCreated DEF PoliteInv, IInv
<1> QED BY <1>4, <1>5 DEF BlockedIn, Blocked, Range, IsBlocked

LEMMA SendWakeKeeps ==
  ASSUME PoliteInv, NEW i \in Text, Fetches(i), i.op = "SD", NEW r \in Regs,
         i.arg \in Created, i.arg \notin BlockedIn("SD", current),
         SendAndWake(i.arg, r), semaphore' = semaphore, IInv', FirstLap'
  PROVE  PoliteInv'
<1> DEFINE d == i.arg
<1>1. /\ current \in PCBs /\ current \notin Blocked /\ Placed /\ i = Instr("SD", d)
      /\ waitID[current] = NobodyAwaited /\ d \in PCBs
  BY Fetcher, OperandAssumption
<1>2. d \in BlockedIn("RC", current) /\ IsBlocked(d)
  BY <1>1, WokenReceives DEF SendAndWake
<1>3. /\ bq' = Append(BqWithout(d), current) /\ GiveUpSlice(i) /\ PutInMailbox(d, r)
      /\ waitID' = [waitID EXCEPT ![d] = NobodyAwaited] /\ numPID' = numPID /\ status' = status
  BY <1>1 DEF SendAndWake
<1>4. d \in Blocked /\ d # current
  BY <1>1, <1>2 DEF BlockedIn
<1>5. Blocked' = (Blocked \ {d}) \cup {current}
  <2>1. BqWithout(d) \in Seq(PCBs) /\ Range(BqWithout(d)) = Blocked \ {d}
    BY <1>1, <1>2, Unlinked
  <2> QED BY <1>3, <2>1, AppendBlocked DEF PoliteInv
<1>6. \A op, a : BlockedIn(op, a)' = (BlockedIn(op, a) \ {d}) \cup {p \in {current} : i = Instr(op, a)}
  BY <1>3, <1>5, FellAsleep
<1>7. MessageMeansSending'
  <2>1. \A e, p \in PCBs : (e = d /\ p = current) \/ mailbox'[e][p] = mailbox[e][p]
    BY <1>1, <1>3, Mailed
  <2>2. current \in BlockedIn("SD", d)'
    BY <1>1, <1>6
  <2>3. \A e : d \notin BlockedIn("SD", e)
    BY <1>2, BlockedOnOne
  <2>4. \A e, p \in PCBs : p \in BlockedIn("SD", e) => p \in BlockedIn("SD", e)'
    BY <1>6, <2>3
  <2> QED BY <2>1, <2>2, <2>4 DEF PoliteInv, MessageMeansSending, PCBs
<1>8. \A p \in Created : waitID'[p] = IF p = d THEN NobodyAwaited ELSE waitID[p]
  BY SMTT(20), <1>1, <1>3 DEF PoliteInv, IInv, MailTypeOK, Placed, SchedTypeOK, Created, PCBs
<1>9. WaitIDIsTrue'
  BY <1>1, <1>3, <1>6, <1>8 DEF PoliteInv, WaitIDIsTrue, Created
<1>10. \A s \in Semas : RingLists(s)'
  <2>1. \A s \in Semas : d \notin BlockedIn("PE", s)
    BY <1>2, BlockedOnOne
  <2> QED BY <1>1, <1>2, <1>3, <1>4, <2>1, RingsAfterWakeAndSleep
<1> QED BY <1>3, <1>7, <1>9, <1>10 DEF PoliteInv, NoNullDereference, Semas

(***************************************************************************)
(* RC that finds a message.  The process it releases is blocked in SD to   *)
(* the one that receives.                                                  *)
(***************************************************************************)
LEMMA ReleasedSends ==
  ASSUME PoliteInv, NEW i \in Text, Fetches(i), NEW s \in PCBs, MessageFrom(s)
  PROVE  /\ Source(mailbox[current][s]) = s /\ s \in Created /\ PidOf(s) = s
         /\ s \in BlockedIn("SD", current) /\ s \in Blocked /\ IsBlocked(s)
<1>1. current \in PCBs /\ Placed
  BY Fetcher
<1>2. Source(mailbox[current][s]) = s /\ s \in Created
  BY <1>1 DEF PoliteInv, IInv, MailNamesSender, MessageFrom
<1>3. PidOf(s) = s
  BY <1>1, <1>2, PidOfCreated
<1>4. s \in BlockedIn("SD", current)
  BY <1>1 DEF PoliteInv, MessageMeansSending, MessageFrom
<1> QED BY <1>2, <1>3, <1>4 DEF BlockedIn, Blocked, Range, IsBlocked

LEMMA DeliverKeeps ==
  ASSUME PoliteInv, NEW i \in Text, Fetches(i), NEW s \in PCBs, MessageFrom(s),
         Deliver(Source(mailbox[current][s]), s, s), semaphore' = semaphore, IInv', FirstLap'
  PROVE  PoliteInv'
<1>1. /\ current \in PCBs /\ current \notin Blocked /\ Placed
  BY Fetcher
<1>2. /\ Source(mailbox[current][s]) = s /\ s \in Created /\ PidOf(s) = s
      /\ s \in BlockedIn("SD", current) /\ s \in Blocked /\ IsBlocked(s)
  BY ReleasedSends
<1>3. Delivered(s, s, s)
  BY <1>2 DEF Deliver
<1>4. /\ bq' = BqWithout(s) /\ Continue /\ waitID' = [waitID EXCEPT ![s] = NobodyAwaited]
      /\ mailbox' = [mailbox EXCEPT ![current][s] = EMPTY] /\ numPID' = numPID /\ status' = status
  BY <1>2, <1>3 DEF Delivered
<1>5. Blocked' = Blocked \ {s}
  BY <1>1, <1>2, <1>4, Unlinked DEF Blocked
<1>6. \A op, a : BlockedIn(op, a)' = BlockedIn(op, a) \ {s}
  BY <1>4, <1>5, WokeUp
<1>7. MessageMeansSending'
  <2> SUFFICES ASSUME NEW d \in PCBs, NEW p \in PCBs, mailbox'[d][p] # EMPTY
               PROVE  p \in BlockedIn("SD", d)'
    BY DEF MessageMeansSending, PCBs
  <2>1. mailbox'[d][p] = IF d = current /\ p = s THEN EMPTY ELSE mailbox[d][p]
    BY <1>1, <1>4 DEF PoliteInv, IInv, MailTypeOK
  <2>2. p \in BlockedIn("SD", d)
    BY <2>1 DEF PoliteInv, MessageMeansSending
  <2>3. p # s
    BY <1>2, <2>1, <2>2, BlockedOnOne
  <2> QED BY <1>6, <2>2, <2>3
<1>8. \A p \in Created : waitID'[p] = IF p = s THEN NobodyAwaited ELSE waitID[p]
  BY <1>1, <1>4 DEF PoliteInv, IInv, MailTypeOK, Placed, SchedTypeOK, Created, PCBs
<1>9. WaitIDIsTrue'
  BY <1>4, <1>6, <1>8 DEF PoliteInv, WaitIDIsTrue, Created
<1>10. \A t \in Semas : RingLists(t)'
  <2>1. \A t \in Semas : s \notin BlockedIn("PE", t)
    BY <1>2, BlockedOnOne
  <2> QED BY <1>2, <1>4, <2>1, RingsAfterWake DEF SameRing
<1> QED BY <1>4, <1>7, <1>9, <1>10 DEF PoliteInv, NoNullDereference, Semas

(***************************************************************************)
(* VE that hands the semaphore over.  The process it takes from the ring   *)
(* waits for that semaphore.                                               *)
(***************************************************************************)
LEMMA HeadWaits ==
  ASSUME PoliteInv, NEW s \in Semas, ~ RingEmpty(s)
  PROVE  /\ semaphore[s].head \in Slots(s)
         /\ NextWaiting(semaphore[s]) \in BlockedIn("PE", s)
         /\ NextWaiting(semaphore[s]) \in Created /\ NextWaiting(semaphore[s]) \in Blocked
         /\ PidOf(NextWaiting(semaphore[s])) = NextWaiting(semaphore[s])
         /\ IsBlocked(NextWaiting(semaphore[s]))
<1>1. /\ semaphore[s].head \in Nat /\ semaphore[s].tail \in Nat
      /\ semaphore[s].head <= semaphore[s].tail
  BY SemAssumption DEF PoliteInv, IInv, SemTypeOK, SemRecord, RingLists, LastSlot
<1>2. semaphore[s].head \in Slots(s)
  BY <1>1 DEF Slots, RingEmpty
<1>3. NextWaiting(semaphore[s]) \in BlockedIn("PE", s)
  BY <1>2 DEF PoliteInv, RingLists, NextWaiting
<1>4. NextWaiting(semaphore[s]) \in Blocked /\ Blocked \subseteq Created
  BY <1>3 DEF BlockedIn, PoliteInv, IInv, Placed, EveryProcessAccounted
<1>5. PidOf(NextWaiting(semaphore[s])) = NextWaiting(semaphore[s])
  BY <1>4, PidOfCreated DEF PoliteInv, IInv
<1> QED BY <1>2, <1>3, <1>4, <1>5 DEF Blocked, Range, IsBlocked

LEMMA HandOverKeeps ==
  ASSUME PoliteInv, NEW i \in Text, Fetches(i), NEW s \in Semas, HandOver(s),
         UNCHANGED mailVars, IInv', FirstLap'
  PROVE  PoliteInv'
<1> DEFINE w == NextWaiting(semaphore[s])
           old == semaphore[s]
           new == semaphore'[s]
<1>1. ~ RingEmpty(s) /\ Placed /\ IsInjective(bq)
  BY DEF HandOver, PoliteInv, IInv, Placed, EveryProcessAccounted, EachInOnePlace
<1>2. /\ old.head \in Slots(s) /\ w \in BlockedIn("PE", s) /\ w \in Created /\ w \in Blocked
      /\ PidOf(w) = w /\ IsBlocked(w)
  BY <1>1, HeadWaits
<1>3. /\ bq' = BqWithout(w) /\ Continue /\ numPID' = numPID /\ status' = status
      /\ mailbox' = mailbox /\ waitID' = waitID
      /\ semaphore' = [semaphore EXCEPT ![s] = [Deqwait(@) EXCEPT !.PID = w]]
  BY <1>2 DEF HandOver, mailVars
<1>4. w = old.waiting[old.head]
  BY DEF NextWaiting
<1> HIDE DEF w
<1>5. Blocked' = Blocked \ {w}
  BY <1>1, <1>2, <1>3, Unlinked DEF Blocked
<1>6. \A op, a : BlockedIn(op, a)' = BlockedIn(op, a) \ {w}
  BY <1>3, <1>5, WokeUp
<1>7. MessageMeansSending'
  <2>1. \A d : w \notin BlockedIn("SD", d)
    BY <1>2, BlockedOnOne
  <2> QED BY <1>3, <1>6, <2>1 DEF PoliteInv, MessageMeansSending, PCBs
<1>8. WaitIDIsTrue'
  <2>1. \A d : w \notin BlockedIn("SD", d) /\ w \notin BlockedIn("RC", d)
    BY <1>2, BlockedOnOne
  <2> QED BY <1>3, <1>6, <2>1 DEF PoliteInv, WaitIDIsTrue, Created
<1>9. /\ semaphore \in [Semas -> SemRecord] /\ old \in SemRecord
      /\ LastSlot \in Nat /\ old.tail < LastSlot
  BY SemAssumption DEF PoliteInv, IInv, SemTypeOK, LastSlot, FirstLap
<1>10. old.head \in Nat /\ old.tail \in Nat /\ old.head < old.tail
  BY <1>2, <1>9 DEF SemRecord, Slots
<1>11. new.head = old.head + 1 /\ new.tail = old.tail /\ new.waiting = old.waiting
  <2>1. /\ [Deqwait(old) EXCEPT !.PID = w].head = old.head + 1
        /\ [Deqwait(old) EXCEPT !.PID = w].tail = old.tail
        /\ [Deqwait(old) EXCEPT !.PID = w].waiting = old.waiting
    BY <1>9, <1>10 DEF Deqwait, SemRecord
  <2> QED BY <1>3, <1>9, <2>1
<1>12. ASSUME NEW t \in Semas, t # s PROVE RingLists(t)'
  <2>1. SameRing(t)
    BY <1>3, <1>9, <1>12 DEF SameRing
  <2>2. w \notin BlockedIn("PE", t)
    BY <1>2, <1>12, BlockedOnOne
  <2> QED BY <1>2, <1>3, <2>1, <2>2, RingsAfterWake
<1>13. RingLists(s)'
  <2>1. RingLists(s)
    BY DEF PoliteInv
  <2>2. Slots(s)' = Slots(s) \ {old.head} /\ \A k \in Slots(s)' : old.head < k
    BY <1>10, <1>11 DEF Slots
  <2>3. \A k \in Slots(s)' : old.waiting[k] # w
    <3> SUFFICES ASSUME NEW k \in Slots(s)' PROVE old.waiting[k] # w
      OBVIOUS
    <3>1. Precedes(bq, w, old.waiting[k])
      BY <1>2, <1>4, <2>1, <2>2 DEF RingLists
    <3>2. \A a, b \in DOMAIN bq : bq[a] = bq[b] => a = b
      BY <1>1 DEF IsInjective
    <3>3. DOMAIN bq \subseteq Int
      BY DEF PoliteInv, IInv, Placed, SchedTypeOK
    <3> QED BY <3>1, <3>2, <3>3 DEF Precedes
  <2>4. new.head <= new.tail
    BY <1>10, <1>11
  <2>5. \A k \in Slots(s)' : new.waiting[k] \in BlockedIn("PE", s)'
    BY <1>6, <1>11, <2>1, <2>2, <2>3 DEF RingLists
  <2>6. \A p \in BlockedIn("PE", s)' : \E k \in Slots(s)' : new.waiting[k] = p
    BY <1>4, <1>6, <1>11, <2>1, <2>2 DEF RingLists
  <2>7. \A j, k \in Slots(s)' : j < k => Precedes(bq', new.waiting[j], new.waiting[k])
    <3> SUFFICES ASSUME NEW j \in Slots(s)', NEW k \in Slots(s)', j < k
                 PROVE  Precedes(bq', new.waiting[j], new.waiting[k])
      OBVIOUS
    <3>1. Precedes(bq, old.waiting[j], old.waiting[k])
      BY <2>1, <2>2 DEF RingLists
    <3> QED BY <1>1, <1>2, <1>3, <1>11, <2>3, <3>1, UnlinkedOrder
  <2> QED BY <2>4, <2>5, <2>6, <2>7 DEF RingLists
<1> QED BY <1>3, <1>7, <1>8, <1>12, <1>13 DEF PoliteInv, NoNullDereference, Semas

-----------------------------------------------------------------------------
(***************************************************************************)
(* Every step of a polite program, and the start.                          *)
(***************************************************************************)
\* An instruction that leaves the queue of the blocked alone, and the semaphores
\* but for their value and holder.
LEMMA StaysAwake ==
  ASSUME PoliteInv, NEW i \in Text, Fetches(i), IInv', FirstLap', UNCHANGED <<mailVars, bq>>,
         numPID' = numPID, status' # "segv", \A s \in Semas : SameRing(s),
         Continue \/ GiveUpSlice(HaltInstr) \/ blockedOn' = blockedOn
  PROVE  PoliteInv'
<1>1. current \in PCBs /\ current \notin Blocked /\ Blocked \subseteq PCBs
  BY Fetcher
<1>2. \A p \in Blocked : blockedOn'[p] = blockedOn[p]
  BY <1>1, InstrLeft DEF PoliteInv
<1> QED BY <1>2, QuietKeeps DEF mailVars, Created

LEMMA CloneKeeps ==
  ASSUME PoliteInv, NEW i \in Text, Fetches(i), IInv', FirstLap', MakeClone
  PROVE  PoliteInv'
<1>1. current \in PCBs /\ current \notin Blocked /\ Blocked \subseteq PCBs
  BY Fetcher
<1>2. \A p \in Blocked : blockedOn'[p] = blockedOn[p]
  BY <1>1, InstrLeft DEF PoliteInv, MakeClone
<1>3. \A p \in Created' : \/ waitID'[p] = NobodyAwaited
                          \/ p \in Created /\ waitID'[p] = waitID[p]
  <2>1. numPID \in Nat /\ numPID' = numPID + 1 /\ numPID < NPROC /\ NPROC \in Nat
    BY SchedAssumption DEF MakeClone, PoliteInv, IInv, Placed, SchedTypeOK
  <2>2. \A p \in Created' : p \in PCBs /\ (p = numPID \/ p \in Created)
    BY <2>1 DEF Created, PCBs
  <2>3. \A p \in PCBs : waitID'[p] = IF p = numPID THEN NobodyAwaited ELSE waitID[p]
    BY DEF MakeClone, PoliteInv, IInv, MailTypeOK
  <2> QED BY <2>2, <2>3
<1>4. status' # "segv" /\ mailbox' = mailbox /\ bq' = bq /\ semaphore' = semaphore
  BY DEF MakeClone, PoliteInv, NoNullDereference
<1> QED BY <1>2, <1>3, <1>4, QuietKeeps DEF SameRing

LEMMA PEKeeps ==
  ASSUME PoliteInv, NEW i \in Text, Fetches(i), IInv', FirstLap', i.op = "PE", PE(i.arg),
         UNCHANGED mailVars
  PROVE  PoliteInv'
<1> DEFINE s == i.arg
<1>1. semaphore \in [Semas -> SemRecord] /\ status = "running"
  BY DEF PoliteInv, IInv, SemTypeOK, Fetches
<1>2. CASE s \in Semas /\ Acquire(s)
  <2>1. \A t \in Semas : SameRing(t)
    BY <1>1, <1>2 DEF Acquire, SameRing, SemRecord
  <2> QED BY <1>1, <1>2, <2>1, StaysAwake DEF Acquire, SemContinue
<1>3. CASE s \in Semas /\ WaitFor(s)
  BY <1>3, WaitForKeeps
<1>4. CASE SemExit
  BY <1>4, StaysAwake DEF SemExit, Stop, SameRing
<1>5. CASE SemContinue /\ UNCHANGED semaphore
  BY <1>1, <1>5, StaysAwake DEF SemContinue, SameRing
<1> QED BY <1>2, <1>3, <1>4, <1>5 DEF PE

LEMMA VEKeeps ==
  ASSUME PoliteInv, NEW i \in Text, Fetches(i), IInv', FirstLap', VE(i.arg), UNCHANGED mailVars
  PROVE  PoliteInv'
<1> DEFINE s == i.arg
<1>1. semaphore \in [Semas -> SemRecord] /\ status = "running"
  BY DEF PoliteInv, IInv, SemTypeOK, Fetches
<1>2. CASE s \in Semas /\ Free(s)
  <2>1. \A t \in Semas : SameRing(t)
    BY <1>1, <1>2 DEF Free, SameRing, SemRecord
  <2> QED BY <1>1, <1>2, <2>1, StaysAwake DEF Free, SemContinue
<1>3. CASE s \in Semas /\ HandOver(s)
  BY <1>3, HandOverKeeps
<1>4. CASE SemExit
  BY <1>4, StaysAwake DEF SemExit, Stop, SameRing
<1>5. CASE SemContinue /\ UNCHANGED semaphore
  BY <1>1, <1>5, StaysAwake DEF SemContinue, SameRing
<1>6. ASSUME s \in Semas, ~ RingEmpty(s), ~ IsBlocked(PidOf(NextWaiting(semaphore[s])))
      PROVE  FALSE
  BY <1>6, HeadWaits
<1> QED BY <1>2, <1>3, <1>4, <1>5, <1>6 DEF VE, Release

LEMMA SIKeeps ==
  ASSUME PoliteInv, NEW i \in Text, Fetches(i), IInv', FirstLap', NEW r \in Regs, SI(i.arg, r),
         UNCHANGED mailVars
  PROVE  PoliteInv'
<1> DEFINE s == i.arg
<1>1. semaphore \in [Semas -> SemRecord] /\ status = "running"
  BY DEF PoliteInv, IInv, SemTypeOK, Fetches
<1>2. CASE s \in Semas /\ semaphore' = [semaphore EXCEPT ![s].value = r] /\ SemContinue
  <2>1. \A t \in Semas : SameRing(t)
    BY <1>1, <1>2 DEF SameRing, SemRecord
  <2> QED BY <1>1, <1>2, <2>1, StaysAwake DEF SemContinue
<1>3. CASE SemExit
  BY <1>3, StaysAwake DEF SemExit, Stop, SameRing
<1> QED BY <1>2, <1>3 DEF SI

LEMMA SDKeeps ==
  ASSUME PoliteInv, NEW i \in Text, Fetches(i), IInv', FirstLap', i.op = "SD",
         SendsPolitely(i.arg), NEW r \in Regs, Send(i.arg, r), UNCHANGED semaphore
  PROVE  PoliteInv'
<1> DEFINE d == i.arg
<1>1. current \in PCBs /\ d \in Created /\ d \notin BlockedIn("SD", current)
  BY Fetcher DEF SendsPolitely
<1>2. CASE SendAndWake(d, r)
  BY <1>1, <1>2, SendWakeKeeps
<1>3. CASE SendAndWait(d, r)
  BY <1>3, SendSleepKeeps
<1>4. ASSUME Awaited(d), ~ IsBlocked(d) PROVE FALSE
  BY <1>1, <1>4, WokenReceives
<1> QED BY <1>1, <1>2, <1>3, <1>4 DEF Send

LEMMA RCKeeps ==
  ASSUME PoliteInv, NEW i \in Text, Fetches(i), IInv', FirstLap', i.op = "RC",
         RecFrom(i.arg), UNCHANGED semaphore
  PROVE  PoliteInv'
<1> DEFINE s == i.arg
<1>1. s \in PCBs
  BY OperandAssumption
<1>2. CASE ~ MessageFrom(s)
  BY <1>2, RecSleepKeeps
<1>3. CASE MessageFrom(s)
  <2>1. Source(mailbox[current][s]) = s
    BY <1>1, <1>3, ReleasedSends
  <2>2. Deliver(Source(mailbox[current][s]), s, s)
    BY <1>3, <2>1 DEF RecFrom
  <2> QED BY <1>1, <1>3, <2>2, DeliverKeeps
<1> QED BY <1>2, <1>3

LEMMA InstructionKeeps ==
  ASSUME PoliteInv, NEW i \in Text, Fetches(i), IInv', FirstLap', i.op # "RX",
         i.op = "SD" => SendsPolitely(i.arg), Instruction(i)
  PROVE  PoliteInv'
<1>1. status = "running"
  BY DEF Fetches
<1>2. ASSUME NEW how, how # "segv", Abort(how) PROVE PoliteInv'
  BY <1>2, StaysAwake DEF Abort, Stop, SameRing
<1>3. CASE Tick
  BY <1>1, <1>3, StaysAwake DEF Tick, SameRing
<1>4. CASE Halt
  BY <1>1, <1>4, StaysAwake DEF Halt, SameRing
<1>5. CASE Divide \/ SharedWord(i.arg) \/ Fork \/ Exec
  BY <1>2, <1>3, <1>5, CloneKeeps DEF Divide, SharedWord, Fork, Exec, OutOfMemory
<1>6. CASE i.op = "SD" /\ \E r \in Regs : Send(i.arg, r) /\ UNCHANGED semaphore
  BY <1>6, SDKeeps
<1>7. CASE i.op = "RC" /\ RecFrom(i.arg) /\ UNCHANGED semaphore
  BY <1>7, RCKeeps
<1>8. CASE i.op = "PE" /\ PE(i.arg) /\ UNCHANGED mailVars
  BY <1>8, PEKeeps
<1>9. CASE VE(i.arg) /\ UNCHANGED mailVars
  BY <1>9, VEKeeps
<1>10. CASE (\E r \in Regs : SI(i.arg, r)) /\ UNCHANGED mailVars
  BY <1>10, SIKeeps
<1> QED BY <1>3, <1>4, <1>5, <1>6, <1>7, <1>8, <1>9, <1>10 DEF Instruction

LEMMA NextPolite ==
  ASSUME PoliteInv, FirstLap', [PoliteNext]_vars
  PROVE  PoliteInv'
<1>1. [Next]_vars
  BY DEF PoliteNext, PoliteStep, Next, Step
<1>2. IInv'
  BY <1>1, NextIInv DEF PoliteInv
<1>3. CASE PoliteStep
  BY <1>2, <1>3, InstructionKeeps DEF PoliteStep
<1>4. CASE SliceEnd
  <2>1. UNCHANGED <<mailVars, semaphore, bq, blockedOn, numPID>> /\ status' # "segv"
    BY <1>4 DEF SliceEnd, ContextSwitch, NothingReady
  <2> QED BY <1>2, <2>1, QuietKeeps DEF mailVars, Created, SameRing
<1>5. CASE UNCHANGED vars
  BY <1>2, <1>5, QuietKeeps
     DEF vars, schedVars, mailVars, Created, SameRing, PoliteInv, NoNullDereference
<1> QED BY <1>3, <1>4, <1>5 DEF PoliteNext, Stopped

LEMMA InitPolite ==
  ASSUME SmallRegs, Init
  PROVE  PoliteInv
<1>1. IInv
  BY InitIInv
<1>2. bq = <<>> /\ Blocked = {} /\ numPID = 1 /\ status = "running"
  BY DEF Init, SchedInit, Blocked, Range
<1>3. \A op, a : BlockedIn(op, a) = {}
  BY <1>2 DEF BlockedIn
<1>4. \A s \in Semas : semaphore[s].head = 0 /\ semaphore[s].tail = 0
  BY DEF Init, SemInit
<1>5. FirstLap
  BY <1>4, SemAssumption DEF FirstLap, LastSlot
<1>6. MessageMeansSending
  BY DEF Init, MailInit, MessageMeansSending
<1>7. WaitIDIsTrue
  BY <1>2, SchedAssumption DEF Init, MailInit, WaitIDIsTrue, Created, PCBs
<1>8. \A s \in Semas : RingLists(s)
  BY <1>3, <1>4 DEF RingLists, Slots
<1> QED BY <1>1, <1>2, <1>5, <1>6, <1>7, <1>8 DEF PoliteInv, NoNullDereference

-----------------------------------------------------------------------------
(***************************************************************************)
(* In the first lap of a ring its slots need no wrapping.                  *)
(***************************************************************************)
LEMMA SmallMod ==
  ASSUME NEW n \in Nat, NEW m \in Nat, m < n
  PROVE  m % n = m
<1>1. m = 0 * n + m /\ m \in 0 .. n - 1 /\ n \in Nat \ {0}
  OBVIOUS
<1> QED BY <1>1, DivUnique

LEMMA RingOf ==
  ASSUME NEW sem, sem.head \in Nat, sem.tail \in Nat, sem.head <= sem.tail, sem.tail < WLEN
  PROVE  Ring(sem) = [k \in 1 .. sem.tail - sem.head |-> sem.waiting[sem.head + k - 1]]
<1>1. PICK h \in Nat, t \in Nat : h = sem.head /\ t = sem.tail /\ h <= t /\ t < WLEN
  OBVIOUS
<1>2. WLEN \in Nat
  BY SemAssumption
<1>3. t - h \in Nat /\ t - h < WLEN
  BY <1>1, <1>2
<1>4. \A k \in 1 .. t - h : h + k - 1 \in Nat /\ h + k - 1 < WLEN
  BY <1>1, <1>2
<1>5. (t - h) % WLEN = t - h
  BY <1>2, <1>3, SmallMod
<1>6. \A k \in 1 .. t - h : (h + k - 1) % WLEN = h + k - 1
  BY <1>2, <1>4, SmallMod
<1> QED BY <1>1, <1>5, <1>6 DEF Ring, RingLength

LEMMA RingFromLists ==
  ASSUME PoliteInv
  PROVE  RingIsWaiters
<1> SUFFICES ASSUME NEW s \in Semas
             PROVE  LET ring == Ring(semaphore[s]) IN
                    /\ Range(ring) = BlockedIn("PE", s)
                    /\ \A j, k \in DOMAIN ring : j < k => Precedes(bq, ring[j], ring[k])
  BY DEF RingIsWaiters
<1> DEFINE sem == semaphore[s]
           ring == Ring(sem)
<1>1. /\ WLEN \in Nat /\ sem.head \in Nat /\ sem.tail \in Nat /\ sem.tail < WLEN
      /\ sem.head <= sem.tail
  BY SemAssumption DEF PoliteInv, IInv, SemTypeOK, SemRecord, LastSlot, FirstLap, RingLists
<1>2. ring = [k \in 1 .. sem.tail - sem.head |-> sem.waiting[sem.head + k - 1]]
  BY <1>1, RingOf
<1>3. /\ DOMAIN ring = 1 .. sem.tail - sem.head
      /\ \A k \in DOMAIN ring : /\ ring[k] = sem.waiting[sem.head + k - 1]
                                /\ sem.head + k - 1 \in Slots(s)
      /\ \A m \in Slots(s) : /\ m - sem.head + 1 \in DOMAIN ring
                             /\ ring[m - sem.head + 1] = sem.waiting[m]
  <2>1. /\ DOMAIN ring = 1 .. sem.tail - sem.head
        /\ \A k \in DOMAIN ring : ring[k] = sem.waiting[sem.head + k - 1]
    BY <1>2
  <2>2. /\ \A k \in 1 .. sem.tail - sem.head : sem.head + k - 1 \in Slots(s)
        /\ \A m \in Slots(s) : /\ m - sem.head + 1 \in 1 .. sem.tail - sem.head
                               /\ sem.head + (m - sem.head + 1) - 1 = m
    BY <1>1 DEF Slots
  <2> QED BY <2>1, <2>2
<1>4. RingLists(s)
  BY DEF PoliteInv
<1> HIDE DEF ring
<1>5. Range(ring) = BlockedIn("PE", s)
  BY <1>3, <1>4 DEF RingLists, Range
<1>6. ASSUME NEW j \in DOMAIN ring, NEW k \in DOMAIN ring, j < k
      PROVE  Precedes(bq, ring[j], ring[k])
  <2>1. sem.head + j - 1 < sem.head + k - 1
    BY <1>1, <1>3, <1>6
  <2> QED BY <1>3, <1>4, <2>1 DEF RingLists
<1> QED BY <1>5, <1>6 DEF ring

(***************************************************************************)
(* Whoever leaves the block queue.                                         *)
(***************************************************************************)
LEMMA LeavesByVE ==
  ASSUME PoliteInv, NEW i \in Text, Fetches(i), Instruction(i), i.op # "RX",
         i.op = "SD" => SendsPolitely(i.arg),
         NEW p \in PCBs, NEW s \in Semas, p \in BlockedIn("PE", s), p \notin Blocked'
  PROVE  i.arg \in Semas /\ HandOver(i.arg) /\ p = NextWaiting(semaphore[i.arg])
<1>1. /\ current \in PCBs /\ current \notin Blocked /\ Placed /\ bq \in Seq(PCBs)
      /\ p \in Blocked
  BY Fetcher DEF BlockedIn
<1>2. bq' # bq /\ bq' # Append(bq, current)
  <2>1. bq' = Append(bq, current) => Blocked' = Blocked \cup {current}
    BY <1>1, AppendBlocked DEF PoliteInv, Blocked
  <2> QED BY <1>1, <2>1 DEF Blocked
<1>3. CASE i.op = "SD"
  <2>1. PICK r \in Regs : Send(i.arg, r)
    BY <1>3 DEF Instruction
  <2>2. i.arg \in Created /\ i.arg \notin BlockedIn("SD", current) /\ SendAndWake(i.arg, r)
    BY <1>2, <1>3, <2>1 DEF Send, SendsPolitely, SendAndWait, Stop
  <2>3. i.arg \in BlockedIn("RC", current) /\ IsBlocked(i.arg)
    BY <1>1, <2>2, WokenReceives DEF SendAndWake
  <2>4. p # i.arg
    BY <2>3, BlockedOnOne
  <2>5. /\ BqWithout(i.arg) \in Seq(PCBs) /\ Range(BqWithout(i.arg)) = Blocked \ {i.arg}
    BY <1>1, <2>2, <2>3, Unlinked
  <2>6. Blocked' = (Blocked \ {i.arg}) \cup {current}
    BY <2>2, <2>5, AppendBlocked DEF SendAndWake, PoliteInv
  <2> QED BY <1>1, <2>4, <2>6
<1>4. CASE i.op = "RC"
  <2>1. RecFrom(i.arg) /\ i.arg \in PCBs
    BY <1>4, OperandAssumption DEF Instruction
  <2>2. MessageFrom(i.arg)
    BY <1>2, <2>1 DEF RecFrom
  <2>3. /\ Source(mailbox[current][i.arg]) = i.arg /\ i.arg \in Created /\ PidOf(i.arg) = i.arg
        /\ i.arg \in BlockedIn("SD", current) /\ IsBlocked(i.arg)
    BY <2>1, <2>2, ReleasedSends
  <2>4. p # i.arg
    BY <2>3, BlockedOnOne
  <2>5. bq' = BqWithout(i.arg)
    BY <1>2, <2>1, <2>2, <2>3 DEF RecFrom, Deliver, Delivered, Stop
  <2> QED BY <1>1, <2>3, <2>4, <2>5, Unlinked DEF Blocked
<1>5. CASE i.op = "VE"
  <2>1. i.arg \in Semas /\ HandOver(i.arg)
    BY <1>2, <1>5
       DEF Instruction, VE, Release, Free, SemExit, SemContinue, Stop
  <2>2. /\ NextWaiting(semaphore[i.arg]) \in Created
        /\ PidOf(NextWaiting(semaphore[i.arg])) = NextWaiting(semaphore[i.arg])
        /\ IsBlocked(NextWaiting(semaphore[i.arg]))
    BY <2>1, HeadWaits DEF HandOver
  <2>3. Blocked' = Blocked \ {NextWaiting(semaphore[i.arg])}
    BY <1>1, <2>1, <2>2, Unlinked DEF HandOver, Blocked
  <2> QED BY <1>1, <2>1, <2>3
<1>6. CASE i.op \notin {"SD", "RC", "RX", "VE"}
  BY <1>2, <1>6
     DEF Instruction, Tick, Divide, Halt, Fork, MakeClone, Exec, OutOfMemory, SharedWord, Abort, PE, Acquire,
         WaitFor, SI, SemExit, SemContinue, Stop
<1> QED BY <1>3, <1>4, <1>5, <1>6

LEMMA LeavesAsHolder ==
  ASSUME PoliteInv, [PoliteNext]_vars,
         NEW p \in PCBs, NEW s \in Semas, p \in BlockedIn("PE", s), p \notin Blocked'
  PROVE  semaphore'[s].PID = p
<1>1. bq' # bq
  BY DEF Blocked, BlockedIn
<1>2. PICK i \in Text : /\ i.op # "RX" /\ Fetches(i) /\ Instruction(i)
                        /\ i.op = "SD" => SendsPolitely(i.arg)
  BY <1>1 DEF PoliteNext, PoliteStep, SliceEnd, ContextSwitch, NothingReady, Stopped, vars,
              schedVars
<1>3. i.arg \in Semas /\ HandOver(i.arg) /\ p = NextWaiting(semaphore[i.arg])
  BY <1>2, LeavesByVE
<1>4. p \in BlockedIn("PE", i.arg)
  BY <1>3, HeadWaits DEF HandOver
<1>5. i.arg = s
  BY <1>4, BlockedOnOne
<1>6. semaphore[s] \in SemRecord /\ semaphore \in [Semas -> SemRecord]
  BY DEF PoliteInv, IInv, SemTypeOK
<1>7. semaphore' = [semaphore EXCEPT ![s] = [Deqwait(semaphore[s]) EXCEPT !.PID = p]]
  BY <1>3, <1>5 DEF HandOver
<1>8. [Deqwait(semaphore[s]) EXCEPT !.PID = p].PID = p
  BY <1>6 DEF Deqwait, SemRecord
<1> QED BY <1>6, <1>7, <1>8

-----------------------------------------------------------------------------
(***************************************************************************)
(* The ring of a semaphore lists exactly the processes that wait for it,   *)
(* in the order in which PE blocked them, until 99 have waited there: tail *)
(* is then at the last slot, and the next enqwait goes wrong.              *)
(***************************************************************************)
THEOREM RingsListWaiters == SmallRegs /\ PoliteSpec /\ []FirstLap => []RingIsWaiters
<1>1. SmallRegs /\ Init => PoliteInv
  BY InitPolite
<1>2. PoliteInv /\ FirstLap' /\ [PoliteNext]_vars => PoliteInv'
  BY NextPolite
<1>3. PoliteInv => RingIsWaiters
  BY RingFromLists
<1> QED BY <1>1, <1>2, <1>3, PTL DEF PoliteSpec

(***************************************************************************)
(* blockq never walks off the block queue and no message goes to a mailbox *)
(* that is not there: Send finds whom it wakes, Rec whom it releases and   *)
(* VE whom it hands the semaphore to.                                      *)
(***************************************************************************)
THEOREM QueuesHold == SmallRegs /\ PoliteSpec /\ []FirstLap => []NoNullDereference
<1>1. SmallRegs /\ Init => PoliteInv
  BY InitPolite
<1>2. PoliteInv /\ FirstLap' /\ [PoliteNext]_vars => PoliteInv'
  BY NextPolite
<1>3. PoliteInv => NoNullDereference
  BY DEF PoliteInv
<1> QED BY <1>1, <1>2, <1>3, PTL DEF PoliteSpec

(***************************************************************************)
(* A process blocked in PE leaves the block queue only by the VE that      *)
(* makes it the holder: neither Send nor Rec wakes it on the way.          *)
(***************************************************************************)
THEOREM WaitersBecomeHolders == SmallRegs /\ PoliteSpec /\ []FirstLap => PEReturnsToHolder
<1>1. SmallRegs /\ Init => PoliteInv
  BY InitPolite
<1>2. PoliteInv /\ FirstLap' /\ [PoliteNext]_vars => PoliteInv'
  BY NextPolite
<1>3. PoliteInv /\ [PoliteNext]_vars =>
        [\A p \in PCBs, s \in Semas :
           p \in BlockedIn("PE", s) /\ p \notin Blocked' => semaphore'[s].PID = p]_vars
  BY LeavesAsHolder
<1> QED BY <1>1, <1>2, <1>3, PTL DEF PoliteSpec, PEReturnsToHolder

-----------------------------------------------------------------------------
(***************************************************************************)
(* The refinement.  What a process waits for, in the terms of Rendezvous.  *)
(***************************************************************************)
TalkOf(p) == IF blockedOn[p].op = "SD" /\ p \in Blocked THEN Synchronous!Sending(blockedOn[p].arg)
             ELSE IF blockedOn[p].op = "RC" THEN Synchronous!Receiving(blockedOn[p].arg)
             ELSE Synchronous!Idle

LEMMA TalkIsTalkOf ==
  /\ Talk = [p \in PCBs |-> TalkOf(p)]
  /\ Talk' = [p \in PCBs |-> TalkOf(p)']
BY DEF Talk, TalkOf, PCBs, Synchronous!Sending, Synchronous!Receiving, Synchronous!Idle

LEMMA TalkMoves ==
  ASSUME NEW q \in PCBs, NEW t, \A p \in PCBs : TalkOf(p)' = IF p = q THEN t ELSE TalkOf(p)
  PROVE  Talk' = [Talk EXCEPT ![q] = t]
BY TalkIsTalkOf

LEMMA TalkUnchanged ==
  ASSUME UNCHANGED <<bq, blockedOn>>
  PROVE  Talk' = Talk
BY DEF Talk, Blocked, PCBs

\* Who fetches an instruction other than RC is idle.
LEMMA FetcherIsIdle ==
  ASSUME PoliteInv, NEW i \in Text, Fetches(i), i.op # "RC" \/ blockedOn[current].op # "RC"
  PROVE  \A p \in PCBs : p = current => TalkOf(p) = Synchronous!Idle
BY Fetcher DEF TalkOf, Fetches

\* An instruction that is not about messages.
LEMMA TalkStill ==
  ASSUME PoliteInv, NEW i \in Text, Fetches(i), i.op # "RC",
         \A p \in PCBs \ {current} : blockedOn'[p] = blockedOn[p],
         blockedOn'[current].op \notin {"SD", "RC"},
         \A p \in PCBs \ {current} : blockedOn[p].op = "SD" => (p \in Blocked <=> p \in Blocked')
  PROVE  Talk' = Talk
<1>1. \A p \in PCBs : p = current => TalkOf(p) = Synchronous!Idle
  BY FetcherIsIdle
<1>2. \A p \in PCBs : p = current => TalkOf(p)' = Synchronous!Idle
  BY DEF TalkOf
<1>3. \A p \in PCBs : p # current => TalkOf(p)' = TalkOf(p)
  BY DEF TalkOf
<1>4. \A p \in PCBs : TalkOf(p)' = TalkOf(p)
  BY <1>1, <1>2, <1>3
<1> QED BY <1>4, TalkIsTalkOf

\* SD starts to send, whether or not it wakes a process that receives.
LEMMA SendStarts ==
  ASSUME PoliteInv, NEW i \in Text, Fetches(i), i.op = "SD", GiveUpSlice(i), current \in Blocked',
         \A p \in PCBs \ {current} : blockedOn[p].op = "SD" => (p \in Blocked <=> p \in Blocked')
  PROVE  Synchronous!StartSend(current, i.arg)
<1>1. current \in PCBs /\ current \notin Blocked
  BY Fetcher
<1>2. \A p \in PCBs : blockedOn'[p] = IF p = current THEN i ELSE blockedOn[p]
  BY InstrLeft DEF PoliteInv
<1>3. Talk[current] = Synchronous!Idle
  BY <1>1, FetcherIsIdle, TalkIsTalkOf
<1>4. \A p \in PCBs : p = current => TalkOf(p)' = Synchronous!Sending(i.arg)
  BY <1>2 DEF TalkOf
<1>5. \A p \in PCBs : p # current => TalkOf(p)' = TalkOf(p)
  BY <1>2 DEF TalkOf
<1>6. Talk' = [Talk EXCEPT ![current] = Synchronous!Sending(i.arg)]
  BY <1>1, <1>4, <1>5, TalkMoves
<1> QED BY <1>3, <1>6 DEF Synchronous!StartSend

LEMMA SDTalks ==
  ASSUME PoliteInv, NEW i \in Text, Fetches(i), i.op = "SD",
         SendsPolitely(i.arg), NEW r \in Regs, Send(i.arg, r)
  PROVE  Synchronous!StartSend(current, i.arg)
<1> DEFINE d == i.arg
<1>1. current \in PCBs /\ d \in Created /\ d \notin BlockedIn("SD", current) /\ Placed
      /\ bq \in Seq(PCBs) /\ i = Instr("SD", d)
  BY Fetcher DEF SendsPolitely
<1>2. CASE SendAndWake(d, r)
  <2>1. d \in BlockedIn("RC", current) /\ IsBlocked(d)
    BY <1>1, <1>2, WokenReceives DEF SendAndWake
  <2>2. blockedOn[d].op # "SD"
    BY <2>1 DEF BlockedIn, Instr
  <2>3. BqWithout(d) \in Seq(PCBs) /\ Range(BqWithout(d)) = Blocked \ {d}
    BY <1>1, <2>1, Unlinked
  <2>4. Blocked' = (Blocked \ {d}) \cup {current} /\ GiveUpSlice(i)
    BY <1>1, <1>2, <2>3, AppendBlocked DEF SendAndWake, PoliteInv
  <2> QED BY <2>2, <2>4, SendStarts
<1>3. CASE SendAndWait(d, r)
  <2>1. Blocked' = Blocked \cup {current} /\ GiveUpSlice(i)
    BY <1>1, <1>3, AppendBlocked DEF SendAndWait, PoliteInv, Blocked
  <2> QED BY <2>1, SendStarts
<1>4. ASSUME Awaited(d), ~ IsBlocked(d) PROVE FALSE
  BY <1>1, <1>4, WokenReceives
<1> QED BY <1>1, <1>2, <1>3, <1>4 DEF Send

\* RC starts to receive, or goes on waiting, or takes the message.
LEMMA ReceiveStarts ==
  ASSUME PoliteInv, NEW i \in Text, Fetches(i), i.op = "RC", RecFrom(i.arg), ~ MessageFrom(i.arg)
  PROVE  Talk' = Talk \/ Synchronous!StartReceive(current, i.arg)
<1> DEFINE s == i.arg
<1>1. current \in PCBs /\ current \notin Blocked /\ bq \in Seq(PCBs) /\ i = Instr("RC", s)
  BY Fetcher
<1>2. Blocked' = Blocked \cup {current} /\ GiveUpSlice(i)
  BY <1>1, AppendBlocked DEF RecFrom, PoliteInv, Blocked
<1>3. \A p \in PCBs : blockedOn'[p] = IF p = current THEN i ELSE blockedOn[p]
  BY <1>2, InstrLeft DEF PoliteInv
<1>4. \A p \in PCBs : p = current => TalkOf(p)' = Synchronous!Receiving(s)
  BY <1>3 DEF TalkOf
<1>5. \A p \in PCBs : p # current => TalkOf(p)' = TalkOf(p)
  BY <1>2, <1>3 DEF TalkOf
<1>6. Talk' = [Talk EXCEPT ![current] = Synchronous!Receiving(s)]
  BY <1>1, <1>4, <1>5, TalkMoves
<1>7. CASE blockedOn[current].op = "RC"
  <2>1. blockedOn[current] = i
    BY <1>7 DEF Fetches
  <2>2. \A p \in PCBs : p = current => TalkOf(p) = Synchronous!Receiving(s)
    BY <1>1, <2>1 DEF TalkOf
  <2>3. \A p \in PCBs : TalkOf(p)' = TalkOf(p)
    BY <1>4, <1>5, <2>2
  <2> QED BY <2>3, TalkIsTalkOf
<1>8. CASE blockedOn[current].op # "RC"
  <2>1. Talk[current] = Synchronous!Idle
    BY <1>1, <1>8, FetcherIsIdle, TalkIsTalkOf
  <2> QED BY <1>6, <2>1 DEF Synchronous!StartReceive
<1> QED BY <1>7, <1>8

LEMMA ReceiveMeets ==
  ASSUME PoliteInv, NEW i \in Text, Fetches(i), i.op = "RC", RecFrom(i.arg), MessageFrom(i.arg)
  PROVE  Synchronous!Meet(i.arg, current)
<1> DEFINE s == i.arg
<1>1. current \in PCBs /\ current \notin Blocked /\ Placed /\ s \in PCBs
  BY Fetcher, OperandAssumption
<1>2. /\ Source(mailbox[current][s]) = s /\ s \in Created /\ PidOf(s) = s
      /\ s \in BlockedIn("SD", current) /\ s \in Blocked /\ IsBlocked(s)
  BY <1>1, ReleasedSends
<1>3. Delivered(s, s, s)
  BY <1>1, <1>2 DEF RecFrom, Deliver
<1>4. Blocked' = Blocked \ {s} /\ Continue
  BY <1>1, <1>2, <1>3, Unlinked DEF Delivered, Blocked
<1>5. \A p \in PCBs : blockedOn'[p] = IF p = current THEN NoInstr ELSE blockedOn[p]
  BY <1>4, InstrLeft DEF PoliteInv
<1>6. blockedOn[s] = Instr("SD", current) /\ s # current
  BY <1>1, <1>2 DEF BlockedIn
<1>7. Talk[s] = Synchronous!Sending(current)
  BY <1>1, <1>2, <1>6, TalkIsTalkOf DEF TalkOf, Instr
<1>8. Talk[current] \in {Synchronous!Idle, Synchronous!Receiving(s)}
  BY <1>1, TalkIsTalkOf DEF TalkOf, Fetches
<1>9. \A p \in PCBs : p = current => TalkOf(p)' = Synchronous!Idle
  BY <1>5 DEF TalkOf, NoInstr, Instr
<1>10. \A p \in PCBs : p = s => TalkOf(p)' = Synchronous!Idle
  BY <1>4, <1>5, <1>6 DEF TalkOf, Instr
<1>11. \A p \in PCBs : p # current /\ p # s => TalkOf(p)' = TalkOf(p)
  BY <1>4, <1>5 DEF TalkOf
<1>12. Talk' = [Talk EXCEPT ![s] = Synchronous!Idle, ![current] = Synchronous!Idle]
  BY <1>1, <1>6, <1>9, <1>10, <1>11, TalkIsTalkOf
<1> QED BY <1>7, <1>8, <1>12 DEF Synchronous!Meet

\* Nothing else starts, ends or breaks a conversation.
LEMMA OthersAreSilent ==
  ASSUME PoliteInv, NEW i \in Text, Fetches(i), i.op \notin {"SD", "RC", "RX"}, Instruction(i)
  PROVE  Talk' = Talk
<1>1. current \in PCBs /\ current \notin Blocked /\ Placed /\ bq \in Seq(PCBs)
      /\ i = Instr(i.op, i.arg)
  BY Fetcher
<1>2. ASSUME bq' = bq, Continue \/ GiveUpSlice(NoInstr) \/ GiveUpSlice(HaltInstr)
      PROVE  Talk' = Talk
  <2>1. /\ \A p \in PCBs \ {current} : blockedOn'[p] = blockedOn[p]
        /\ blockedOn'[current].op \notin {"SD", "RC"}
    BY <1>1, <1>2, InstrLeft DEF PoliteInv, NoInstr, HaltInstr, Instr
  <2> QED BY <1>2, <2>1, TalkStill DEF Blocked
<1>3. ASSUME NEW how, Stop(how) PROVE Talk' = Talk
  BY <1>3, TalkUnchanged DEF Stop
<1>4. CASE Tick \/ Halt \/ MakeClone \/ SemContinue
  BY <1>2, <1>4 DEF Tick, Halt, MakeClone, SemContinue
<1>5. CASE SemExit \/ \E how : Abort(how)
  BY <1>3, <1>5 DEF SemExit, Abort
<1>6. CASE i.op = "PE" /\ WaitFor(i.arg)
  <2>1. GiveUpSlice(i) /\ Blocked' = Blocked \cup {current}
    BY <1>1, <1>6, AppendBlocked DEF WaitFor, PoliteInv, Blocked
  <2>2. \A p \in PCBs : blockedOn'[p] = IF p = current THEN i ELSE blockedOn[p]
    BY <2>1, InstrLeft DEF PoliteInv
  <2> QED BY <1>1, <1>6, <2>1, <2>2, TalkStill
<1>7. CASE i.arg \in Semas /\ HandOver(i.arg)
  <2> DEFINE w == NextWaiting(semaphore[i.arg])
  <2>1. w \in BlockedIn("PE", i.arg) /\ w \in Created /\ PidOf(w) = w /\ IsBlocked(w)
    BY <1>7, HeadWaits DEF HandOver
  <2>2. bq' = BqWithout(w) /\ Continue
    BY <1>7, <2>1 DEF HandOver
  <2> HIDE DEF w
  <2>3. Blocked' = Blocked \ {w}
    BY <1>1, <2>1, <2>2, Unlinked DEF Blocked
  <2>4. blockedOn[w].op # "SD"
    BY <2>1 DEF BlockedIn, Instr
  <2>5. \A p \in PCBs : blockedOn'[p] = IF p = current THEN NoInstr ELSE blockedOn[p]
    BY <2>2, InstrLeft DEF PoliteInv
  <2> QED BY <1>1, <2>3, <2>4, <2>5, TalkStill DEF NoInstr, Instr
<1>8. CASE i.op = "VE" /\ VE(i.arg)
  <2>1. SemExit \/ SemContinue \/ (i.arg \in Semas /\ HandOver(i.arg)) \/ Stop("segv")
    BY <1>8 DEF VE, Release, Free
  <2> QED BY <1>3, <1>4, <1>5, <1>7, <2>1
<1>9. CASE i.op = "PE" /\ PE(i.arg)
  <2>1. SemExit \/ SemContinue \/ WaitFor(i.arg)
    BY <1>9 DEF PE, Acquire
  <2> QED BY <1>4, <1>5, <1>6, <1>9, <2>1
<1>10. CASE i.op = "SI" /\ \E r \in Regs : SI(i.arg, r)
  <2>1. SemExit \/ SemContinue
    BY <1>10 DEF SI
  <2> QED BY <1>4, <1>5, <2>1
<1>11. CASE Divide \/ Fork \/ Exec \/ SharedWord(i.arg)
  BY <1>4, <1>5, <1>11 DEF Divide, Fork, Exec, OutOfMemory, SharedWord
<1> QED BY <1>4, <1>8, <1>9, <1>10, <1>11 DEF Instruction

LEMMA StepTalks ==
  ASSUME PoliteInv, [PoliteNext]_vars
  PROVE  [Synchronous!Next]_Talk
<1>1. ASSUME NEW i \in Text, Fetches(i), i.op # "RX", i.op = "SD" => SendsPolitely(i.arg),
             Instruction(i)
      PROVE  [Synchronous!Next]_Talk
  <2>1. current \in PCBs /\ (i.op \in {"SD", "RC"} => i.arg \in PCBs)
    BY <1>1, Fetcher, OperandAssumption
  <2>2. CASE i.op = "SD"
    <3>1. Synchronous!StartSend(current, i.arg)
      BY <1>1, <2>2, SDTalks DEF Instruction
    <3> QED BY <2>1, <2>2, <3>1 DEF Synchronous!Next
  <2>3. CASE i.op = "RC"
    <3>1. RecFrom(i.arg)
      BY <1>1, <2>3 DEF Instruction
    <3>2. CASE MessageFrom(i.arg)
      BY <1>1, <2>1, <2>3, <3>1, <3>2, ReceiveMeets DEF Synchronous!Next
    <3>3. CASE ~ MessageFrom(i.arg)
      BY <1>1, <2>1, <2>3, <3>1, <3>3, ReceiveStarts DEF Synchronous!Next
    <3> QED BY <3>2, <3>3
  <2>4. CASE i.op \notin {"SD", "RC"}
    BY <1>1, <2>4, OthersAreSilent
  <2> QED BY <2>2, <2>3, <2>4
<1>2. CASE SliceEnd \/ UNCHANGED vars
  BY <1>2, TalkUnchanged DEF SliceEnd, ContextSwitch, NothingReady, vars, schedVars
<1> QED BY <1>1, <1>2 DEF PoliteNext, PoliteStep, Stopped

LEMMA InitTalks ==
  ASSUME Init
  PROVE  Synchronous!Init
<1>1. \A p \in PCBs : TalkOf(p) = Synchronous!Idle
  BY DEF Init, SchedInit, TalkOf, NoInstr, Instr
<1> QED BY <1>1, TalkIsTalkOf DEF Synchronous!Init

(***************************************************************************)
(* SD and RC are a rendezvous: every step of a polite program is a step of *)
(* Rendezvous or none.  In particular a sender stays in SD until its       *)
(* receiver took the message, which happens only while the receiver is     *)
(* idle or receiving from it.                                              *)
(***************************************************************************)
THEOREM MessagesAreSynchronous == SmallRegs /\ PoliteSpec /\ []FirstLap => ImplementsRendezvous
<1>1. SmallRegs /\ Init => PoliteInv /\ Synchronous!Init
  BY InitPolite, InitTalks
<1>2. PoliteInv /\ FirstLap' /\ [PoliteNext]_vars => PoliteInv'
  BY NextPolite
<1>3. PoliteInv /\ [PoliteNext]_vars => [Synchronous!Next]_Talk
  BY StepTalks
<1> QED BY <1>1, <1>2, <1>3, PTL DEF PoliteSpec, ImplementsRendezvous, Synchronous!Spec

-----------------------------------------------------------------------------
(***************************************************************************)
(* PE and VE as a fair lock.                                               *)
(***************************************************************************)
\* The entries of f from h up to the one before t.
Slice(f, h, t) == [k \in 1 .. t - h |-> f[h + k - 1]]

LEMMA SliceTail ==
  ASSUME NEW f, NEW h \in Nat, NEW t \in Nat, h < t
  PROVE  Slice(f, h + 1, t) = Tail(Slice(f, h, t))
<1> DEFINE slice == [k \in 1 .. t - h |-> f[h + k - 1]]
           S     == {f[k] : k \in h .. t - 1}
<1>1. \A k \in 1 .. t - h : h + k - 1 \in h .. t - 1
  OBVIOUS
<1>2. t - h \in Nat /\ t - h # 0 /\ \A k \in 1 .. t - h : f[h + k - 1] \in S
  BY <1>1
<1>3. slice \in Seq(S) /\ Len(slice) = t - h /\ slice # << >>
  BY <1>2
<1>4. \A k \in 1 .. t - (h + 1) : k + 1 \in 1 .. t - h /\ slice[k + 1] = f[h + 1 + k - 1]
  BY <1>2
<1> HIDE DEF slice
<1>5. /\ Tail(slice) \in Seq(S) /\ Len(Tail(slice)) = t - (h + 1)
      /\ \A k \in 1 .. t - (h + 1) : Tail(slice)[k] = slice[k + 1]
  BY <1>2, <1>3
<1>6. Tail(slice) = [k \in 1 .. t - (h + 1) |-> Tail(slice)[k]]
  <2> DEFINE rest == Tail(slice)
             n == t - (h + 1)
  <2>1. rest \in Seq(S) /\ Len(rest) = n
    BY <1>5
  <2> HIDE DEF rest, n
  <2>2. rest = [k \in 1 .. n |-> rest[k]]
    BY <2>1
  <2> QED BY <2>2 DEF rest, n
<1> QED BY <1>4, <1>5, <1>6 DEF slice, Slice

LEMMA Lining ==
  ASSUME PoliteInv, NEW s \in Semas
  PROVE  /\ semaphore \in [Semas -> SemRecord] /\ semaphore[s] \in SemRecord
         /\ semaphore[s].head \in Nat /\ semaphore[s].tail \in Nat /\ LastSlot \in Nat
         /\ semaphore[s].head <= semaphore[s].tail /\ semaphore[s].tail < LastSlot
         /\ semaphore[s].waiting \in [0 .. LastSlot -> PCBs]
         /\ Lines[s] = [k \in 1 .. semaphore[s].tail - semaphore[s].head |->
                          semaphore[s].waiting[semaphore[s].head + k - 1]]
         /\ Lines[s] \in Seq(PCBs)
         /\ Range(Lines[s]) = BlockedIn("PE", s)
<1> DEFINE sem == semaphore[s]
<1>1. /\ semaphore \in [Semas -> SemRecord] /\ sem \in SemRecord
      /\ sem.head \in 0 .. LastSlot /\ sem.tail \in 0 .. LastSlot /\ LastSlot \in Nat
      /\ sem.head <= sem.tail /\ sem.tail < LastSlot
      /\ sem.waiting \in [0 .. LastSlot -> PCBs]
  BY SemAssumption DEF PoliteInv, IInv, SemTypeOK, SemRecord, LastSlot, FirstLap, RingLists
<1>2. sem.tail < WLEN
  BY <1>1, SemAssumption DEF LastSlot
<1>3. Lines[s] = [k \in 1 .. sem.tail - sem.head |-> sem.waiting[sem.head + k - 1]]
  BY <1>1, <1>2, RingOf DEF Lines
<1>4. \A k \in 1 .. sem.tail - sem.head : sem.head + k - 1 \in 0 .. LastSlot
  BY <1>1
<1>5. Lines[s] \in Seq(PCBs)
  <2> DEFINE n == sem.tail - sem.head
             entry(k) == sem.waiting[sem.head + k - 1]
  <2>1. n \in Nat /\ \A k \in 1 .. n : entry(k) \in PCBs
    BY <1>1, <1>4
  <2> HIDE DEF n, entry
  <2>2. [k \in 1 .. n |-> entry(k)] \in Seq(PCBs)
    BY <2>1
  <2> QED BY <1>3, <2>2 DEF n, entry
<1>6. Range(Lines[s]) = BlockedIn("PE", s)
  BY RingFromLists DEF RingIsWaiters, Lines
<1> QED BY <1>1, <1>3, <1>5, <1>6

LEMMA WaitingAreBlocked ==
  ASSUME PoliteInv, NEW p, p \notin Blocked
  PROVE  ~ Lock!Waiting(p)
<1>1. \A s \in Semas : Range(Lines[s]) \subseteq Blocked
  BY Lining DEF BlockedIn
<1> QED BY <1>1 DEF Lock!Waiting, Lock!Range, Range

LEMMA LocksKept ==
  ASSUME \A s \in Semas : SameRing(s) /\ semaphore'[s].PID = semaphore[s].PID
  PROVE  Owners' = Owners /\ Lines' = Lines
BY DEF SameRing, Owners, Lines, Holder, Ring, RingLength, Semas

LEMMA PELocks ==
  ASSUME PoliteInv, FirstLap', ValuesTell, NEW i \in Text, Fetches(i), i.op = "PE", PE(i.arg)
  PROVE  (\E s \in Semas : Lock!Take(s) \/ Lock!Join(s)) \/ UNCHANGED <<Owners, Lines>>
<1> DEFINE s == i.arg
<1>1. current \in PCBs /\ semaphore \in [Semas -> SemRecord]
  BY Fetcher DEF PoliteInv, IInv, SemTypeOK
<1>2. CASE s \in Semas /\ Acquire(s)
  <2>1. Owners[s] = NoHolder
    BY <1>2 DEF Acquire, ValuesTell, Owners
  <2>2. \A t \in Semas : SameRing(t) /\ semaphore'[t].PID = IF t = s THEN current ELSE semaphore[t].PID
    BY <1>1, <1>2 DEF Acquire, SameRing, SemRecord
  <2>3. Owners' = [Owners EXCEPT ![s] = current]
    BY <2>2 DEF Owners, Holder, Semas
  <2>4. Lines' = Lines
    BY <2>2 DEF SameRing, Lines, Ring, RingLength, Semas
  <2>5. Lock!Take(s)
    BY <2>1, <2>3, <2>4 DEF Lock!Take
  <2> QED BY <1>2, <2>5
<1>3. CASE s \in Semas /\ WaitFor(s)
  <2> DEFINE old == semaphore[s]
             new == semaphore'[s]
  <2>1. /\ new.head = old.head /\ new.tail = old.tail + 1
        /\ new.waiting[old.tail] = current
        /\ \A k \in Slots(s) : new.waiting[k] = old.waiting[k]
        /\ \A t \in Semas \ {s} : semaphore'[t] = semaphore[t]
    BY <1>3, WaitForRing
  <2>2. new.PID = old.PID
    BY <1>1, <1>3 DEF WaitFor, Enqwait, SemRecord
  <2>3. Owners' = Owners
    BY <2>1, <2>2 DEF Owners, Holder, Semas
  <2>4. Owners[s] # NoHolder
    BY <1>3 DEF WaitFor, ValuesTell, Owners
  <2>5. /\ old.head \in Nat /\ old.tail \in Nat /\ old.head <= old.tail /\ old.tail < LastSlot
        /\ LastSlot \in Nat /\ Lines[s] \in Seq(PCBs)
        /\ Lines[s] = [k \in 1 .. old.tail - old.head |-> old.waiting[old.head + k - 1]]
    BY <1>3, Lining
  <2>6. Ring(new) = [k \in 1 .. new.tail - new.head |-> new.waiting[new.head + k - 1]]
    <3>1. new.tail < WLEN
      <4>1. new.tail <= LastSlot
        BY <1>3, <2>1, <2>5
      <4> QED BY <4>1, <2>1, <2>5, SemAssumption DEF LastSlot
    <3> HIDE DEF new, old
    <3>2. new.head \in Nat /\ new.tail \in Nat /\ new.head <= new.tail
      BY <2>1, <2>5
    <3> QED BY <3>1, <3>2, RingOf
  <2>7. \A k \in 1 .. old.tail - old.head : old.head + k - 1 \in Slots(s)
    BY <2>5 DEF Slots
  <2> HIDE DEF new, old
  <2>8. Ring(new) = Append(Lines[s], current)
    <3>1. Len(Lines[s]) = old.tail - old.head /\ DOMAIN Ring(new) = 1 .. old.tail - old.head + 1
      BY <2>1, <2>5, <2>6
    <3>2. \A k \in 1 .. old.tail - old.head : Ring(new)[k] = Lines[s][k]
      BY <2>1, <2>5, <2>6, <2>7
    <3>3. Ring(new)[old.tail - old.head + 1] = current
      <4>1. PICK h \in Nat, t \in Nat : /\ h <= t /\ h = old.head /\ t = old.tail
                                        /\ h = new.head /\ t + 1 = new.tail
        BY <2>1, <2>5
      <4>2. t - h + 1 \in 1 .. (t + 1) - h /\ h + (t - h + 1) - 1 = t
        BY <4>1
      <4>3. Ring(new) = [k \in 1 .. (t + 1) - h |-> new.waiting[h + k - 1]]
        BY <2>6, <4>1
      <4>4. Ring(new)[t - h + 1] = new.waiting[t]
        BY <4>2, <4>3
      <4> QED BY <2>1, <4>1, <4>4
    <3>4. DOMAIN Append(Lines[s], current) = 1 .. Len(Lines[s]) + 1
          /\ \A k \in 1 .. Len(Lines[s]) : Append(Lines[s], current)[k] = Lines[s][k]
          /\ Append(Lines[s], current)[Len(Lines[s]) + 1] = current
      BY <2>5
    <3>5. \A k \in 1 .. old.tail - old.head + 1 : Ring(new)[k] = Append(Lines[s], current)[k]
      BY <2>5, <3>1, <3>2, <3>3, <3>4
    <3>6. Ring(new) = [k \in DOMAIN Ring(new) |-> Ring(new)[k]]
      BY <2>6
    <3>7. Append(Lines[s], current) = [k \in 1 .. Len(Lines[s]) + 1 |-> Append(Lines[s], current)[k]]
      BY <2>5, <3>4
    <3> QED BY <3>1, <3>5, <3>6, <3>7
  <2>9. Lines' = [Lines EXCEPT ![s] = Append(Lines[s], current)]
    BY <1>3, <2>1, <2>8 DEF Lines, new, Semas
  <2>10. Lock!Join(s)
    BY <2>3, <2>4, <2>9 DEF Lock!Join
  <2> QED BY <1>3, <2>10
<1>4. CASE UNCHANGED semaphore
  BY <1>4, LocksKept DEF SameRing
<1> QED BY <1>2, <1>3, <1>4 DEF PE, SemExit

LEMMA VELocks ==
  ASSUME PoliteInv, NEW i \in Text, Fetches(i), VE(i.arg)
  PROVE  (\E s \in Semas : Lock!Release(s)) \/ UNCHANGED <<Owners, Lines>>
<1> DEFINE s == i.arg
<1>1. semaphore \in [Semas -> SemRecord]
  BY DEF PoliteInv, IInv, SemTypeOK
<1>2. CASE s \in Semas /\ Holder(s) = current /\ Free(s)
  <2>1. \A t \in Semas :
          SameRing(t) /\ semaphore'[t].PID = IF t = s THEN NoHolder ELSE semaphore[t].PID
    BY <1>1, <1>2 DEF Free, SameRing, SemRecord
  <2>2. Owners' = [Owners EXCEPT ![s] = NoHolder]
    BY <2>1 DEF Owners, Holder, Semas
  <2>3. Lines' = Lines
    BY <2>1 DEF SameRing, Lines, Ring, RingLength, Semas
  <2>4. Lines[s] = << >>
    <3> DEFINE sem == semaphore[s]
    <3>1. /\ sem.tail \in Nat /\ sem.head = sem.tail
          /\ Lines[s] = [k \in 1 .. sem.tail - sem.head |-> sem.waiting[sem.head + k - 1]]
      BY <1>2, Lining DEF Free, RingEmpty
    <3> HIDE DEF sem
    <3>2. 1 .. sem.tail - sem.head = 1 .. 0
      BY <3>1
    <3> QED BY <3>1, <3>2
  <2>5. Lock!Release(s)
    BY <1>2, <2>2, <2>3, <2>4 DEF Lock!Release, Owners
  <2> QED BY <1>2, <2>5
<1>3. CASE s \in Semas /\ Holder(s) = current /\ HandOver(s)
  <2> DEFINE old == semaphore[s]
             new == semaphore'[s]
  <2>1. /\ old.head \in Nat /\ old.tail \in Nat /\ old.head <= old.tail /\ old.tail < LastSlot
        /\ LastSlot \in Nat /\ Lines[s] \in Seq(PCBs) /\ old \in SemRecord
        /\ Lines[s] = [k \in 1 .. old.tail - old.head |-> old.waiting[old.head + k - 1]]
    BY <1>3, Lining
  <2>2. old.head < old.tail
    BY <1>3, <2>1 DEF HandOver, RingEmpty
  <2>3. /\ new.head = old.head + 1 /\ new.tail = old.tail /\ new.waiting = old.waiting
        /\ new.PID = old.waiting[old.head]
        /\ \A t \in Semas \ {s} : semaphore'[t] = semaphore[t]
    <3> DEFINE w == NextWaiting(old)
               next == [Deqwait(old) EXCEPT !.PID = w]
    <3>1. /\ next.head = old.head + 1 /\ next.tail = old.tail /\ next.waiting = old.waiting
          /\ next.PID = w
      BY <2>1, <2>2 DEF Deqwait, SemRecord
    <3>2. new = next /\ \A t \in Semas \ {s} : semaphore'[t] = semaphore[t]
      BY <1>1, <1>3 DEF HandOver
    <3> HIDE DEF new, old, next
    <3> QED BY <3>1, <3>2 DEF NextWaiting
  <2> HIDE DEF new, old
  <2>4. Ring(new) = [k \in 1 .. new.tail - new.head |-> new.waiting[new.head + k - 1]]
    <3>1. new.tail < WLEN /\ new.head \in Nat /\ new.tail \in Nat /\ new.head <= new.tail
      BY SemAssumption, <2>1, <2>2, <2>3 DEF LastSlot
    <3> QED BY <3>1, RingOf
  <2>5. Lines[s] # << >> /\ Head(Lines[s]) = old.waiting[old.head]
    BY <2>1, <2>2
  <2>6. Ring(new) = Tail(Lines[s])
    <3>1. PICK h \in Nat, t \in Nat :
            /\ h < t /\ h = old.head /\ t = old.tail /\ h + 1 = new.head /\ t = new.tail
      BY <2>1, <2>2, <2>3
    <3>2. Lines[s] = Slice(old.waiting, h, t)
      BY <2>1, <3>1 DEF Slice
    <3>3. Ring(new) = Slice(old.waiting, h + 1, t)
      BY <2>3, <2>4, <3>1 DEF Slice
    <3>4. Slice(old.waiting, h + 1, t) = Tail(Slice(old.waiting, h, t))
      BY <3>1, SliceTail
    <3> QED BY <3>2, <3>3, <3>4
  <2>7. Lines' = [Lines EXCEPT ![s] = Tail(Lines[s])]
    BY <1>3, <2>3, <2>6 DEF Lines, new, Semas
  <2>8. Owners' = [Owners EXCEPT ![s] = Head(Lines[s])]
    BY <1>3, <2>3, <2>5 DEF Owners, Holder, new, Semas
  <2>9. Lock!Release(s)
    BY <1>3, <2>5, <2>7, <2>8 DEF Lock!Release, Owners
  <2> QED BY <1>3, <2>9
<1>4. CASE UNCHANGED semaphore
  BY <1>4, LocksKept DEF SameRing
<1> QED BY <1>2, <1>3, <1>4 DEF VE, Release, SemExit

\* Only a context switch changes the process that runs.
LEMMA SameCurrent ==
  ASSUME NEW i, Instruction(i)
  PROVE  current' = current
<1>1. ASSUME Tick \/ Halt \/ MakeClone \/ \E how : Stop(how) PROVE current' = current
  BY <1>1 DEF Tick, Halt, MakeClone, Stop
<1>2. CASE Tick \/ Halt \/ Divide \/ Fork \/ Exec \/ SharedWord(i.arg)
  BY <1>1, <1>2 DEF Divide, Fork, Exec, SharedWord, OutOfMemory, Abort
<1>3. ASSUME NEW r, Send(i.arg, r) PROVE current' = current
  BY <1>1, <1>3 DEF Send, SendAndWake, SendAndWait
<1>4. CASE RecFrom(i.arg) \/ RecAny
  BY <1>1, <1>4 DEF RecFrom, RecAny, Deliver, Delivered
<1>5. CASE PE(i.arg)
  BY <1>1, <1>5 DEF PE, Acquire, WaitFor, SemExit, SemContinue
<1>6. CASE VE(i.arg)
  BY <1>1, <1>6 DEF VE, Release, Free, HandOver, SemExit, SemContinue
<1>7. ASSUME NEW r, SI(i.arg, r) PROVE current' = current
  BY <1>1, <1>7 DEF SI, SemExit, SemContinue
<1> QED BY <1>2, <1>3, <1>4, <1>5, <1>6, <1>7 DEF Instruction

LEMMA StepLocks ==
  ASSUME PoliteInv, FirstLap', PoliteInv', ValuesTell, [PoliteNext]_vars
  PROVE  [Lock!Next]_<<Owners, Lines, current>>
<1>1. ASSUME NEW i \in Text, Fetches(i), i.op # "RX", Instruction(i)
      PROVE  [Lock!Next]_<<Owners, Lines, current>>
  <2>1. current \in PCBs /\ ~ Lock!Waiting(current)
    BY <1>1, Fetcher, WaitingAreBlocked
  <2>2. current' = current
    BY <1>1, SameCurrent
  <2>3. CASE i.op = "PE"
    BY <1>1, <2>1, <2>2, <2>3, PELocks DEF Instruction, Lock!Next, Lock!Act
  <2>4. CASE i.op = "VE"
    BY <1>1, <2>1, <2>2, <2>4, VELocks DEF Instruction, Lock!Next, Lock!Act
  <2>5. CASE i.op \notin {"PE", "VE"}
    <3>1. semaphore' = semaphore \/ i.op = "SI"
      BY <1>1, <2>5 DEF Instruction, Tick, Divide, Abort, OutOfMemory, Halt, Fork, MakeClone,
        Exec, SharedWord
    <3>2. CASE i.op = "SI"
      <4>1. \A s \in Semas : SameRing(s) /\ semaphore'[s].PID = semaphore[s].PID
        <5>1. semaphore \in [Semas -> SemRecord]
          BY DEF PoliteInv, IInv, SemTypeOK
        <5>2. \/ semaphore' = semaphore
              \/ \E r \in Regs : i.arg \in Semas /\ semaphore' = [semaphore EXCEPT ![i.arg].value = r]
          BY <1>1, <3>2 DEF Instruction, SI, SemExit
        <5>3. ASSUME NEW r \in Regs, i.arg \in Semas,
                     semaphore' = [semaphore EXCEPT ![i.arg].value = r]
              PROVE  \A s \in Semas : SameRing(s) /\ semaphore'[s].PID = semaphore[s].PID
          BY <5>1, <5>3 DEF SameRing, SemRecord
        <5> QED BY <5>2, <5>3 DEF SameRing
      <4> QED BY <2>2, <4>1, LocksKept
    <3> QED BY <2>2, <3>1, <3>2, LocksKept DEF SameRing
  <2> QED BY <2>3, <2>4, <2>5
<1>2. CASE ContextSwitch /\ UNCHANGED <<mailVars, semaphore>>
  <2>1. Owners' = Owners /\ Lines' = Lines
    BY <1>2, LocksKept DEF SameRing
  <2>2. current' \in PCBs /\ current' \notin Blocked
    <3>1. tdma' < TDMA_Setting /\ Blocked' = Blocked
      BY <1>2, SchedAssumption DEF ContextSwitch, Blocked
    <3> QED BY <3>1 DEF PoliteInv, IInv, Placed, EveryProcessAccounted, EachInOnePlace, SchedTypeOK, PCBs
  <2> QED BY <2>1, <2>2, WaitingAreBlocked DEF Lock!Next, Lock!Switch
<1>3. CASE UNCHANGED <<current, semaphore>>
  BY <1>3, LocksKept DEF SameRing
<1> QED BY <1>1, <1>2, <1>3 DEF PoliteNext, PoliteStep, SliceEnd, NothingReady, Stopped, vars, schedVars

LEMMA InitLocks ==
  ASSUME Init
  PROVE  Lock!Init
<1>1. current \in PCBs
  BY SchedAssumption DEF Init, SchedInit, PCBs
<1>2. \A s \in Semas : semaphore[s].PID = NoHolder /\ semaphore[s].head = 0 /\ semaphore[s].tail = 0
  BY DEF Init, SemInit
<1>3. \A s \in Semas : Ring(semaphore[s]) = << >>
  BY <1>2, RingOf, SemAssumption
<1> QED BY <1>1, <1>2, <1>3 DEF Lock!Init, Owners, Lines, Holder

(***************************************************************************)
(* PE and VE are a fair lock up to the last slot of a ring, as long as SI  *)
(* stores nothing but whether the semaphore is free.                       *)
(***************************************************************************)
THEOREM LocksAreFair ==
  SmallRegs /\ PoliteSpec /\ []FirstLap /\ []ValuesTell => ImplementsFairLock
<1>1. SmallRegs /\ Init => PoliteInv /\ Lock!Init
  BY InitPolite, InitLocks
<1>2. PoliteInv /\ FirstLap' /\ [PoliteNext]_vars => PoliteInv'
  BY NextPolite
<1>3. PoliteInv /\ FirstLap' /\ PoliteInv' /\ ValuesTell /\ [PoliteNext]_vars =>
        [Lock!Next]_<<Owners, Lines, current>>
  BY StepLocks
<1> QED BY <1>1, <1>2, <1>3, PTL DEF PoliteSpec, ImplementsFairLock, Lock!Spec

-----------------------------------------------------------------------------
(***************************************************************************)
(* Without SI the value of a semaphore tells whether it has a holder.      *)
(***************************************************************************)
NoSI == \A i \in Text : i.op # "SI"

LEMMA PETells ==
  ASSUME IInv, ValuesTell, NEW s, PE(s)
  PROVE  ValuesTell'
<1>1. current \in PCBs /\ semaphore \in [Semas -> SemRecord] /\ NoHolder \notin PCBs
  BY DEF IInv, SemTypeOK, Placed, SchedTypeOK, Created, PCBs, NoHolder
<1>2. CASE s \in Semas /\ Acquire(s)
  <2>1. \A t \in Semas :
          IF t = s THEN semaphore'[t].value = 0 /\ semaphore'[t].PID = current
          ELSE semaphore'[t] = semaphore[t]
    BY <1>1, <1>2 DEF Acquire, SemRecord
  <2> QED BY <1>1, <2>1 DEF ValuesTell, Holder, Semas
<1>3. CASE s \in Semas /\ WaitFor(s)
  <2>1. \A t \in Semas : semaphore'[t].value = semaphore[t].value /\ semaphore'[t].PID = semaphore[t].PID
    BY <1>1, <1>3 DEF WaitFor, Enqwait, SemRecord
  <2> QED BY <2>1 DEF ValuesTell, Holder, Semas
<1>4. CASE UNCHANGED semaphore
  BY <1>4 DEF ValuesTell, Holder, Semas
<1> QED BY <1>2, <1>3, <1>4 DEF PE, SemExit

LEMMA VETells ==
  ASSUME IInv, ValuesTell, NEW s, VE(s)
  PROVE  ValuesTell'
<1>1. current \in PCBs /\ semaphore \in [Semas -> SemRecord] /\ NoHolder \notin PCBs
  BY DEF IInv, SemTypeOK, Placed, SchedTypeOK, Created, PCBs, NoHolder
<1>2. CASE s \in Semas /\ Free(s)
  <2>1. \A t \in Semas :
          IF t = s THEN semaphore'[t].value = 1 /\ semaphore'[t].PID = NoHolder
          ELSE semaphore'[t] = semaphore[t]
    BY <1>1, <1>2 DEF Free, SemRecord
  <2> QED BY <2>1 DEF ValuesTell, Holder, Semas
<1>3. CASE s \in Semas /\ Holder(s) = current /\ HandOver(s)
  <2>1. NextWaiting(semaphore[s]) \in PCBs
    BY <1>1, <1>3 DEF NextWaiting, SemRecord
  <2>2. semaphore[s].value = 0
    BY <1>1, <1>3 DEF ValuesTell
  <2>3. \A t \in Semas :
          IF t = s THEN /\ semaphore'[t].value = semaphore[t].value
                        /\ semaphore'[t].PID = NextWaiting(semaphore[t])
          ELSE semaphore'[t] = semaphore[t]
    BY <1>1, <1>3 DEF HandOver, Deqwait, SemRecord
  <2> QED BY <1>1, <2>1, <2>2, <2>3 DEF ValuesTell, Holder, Semas
<1>4. CASE UNCHANGED semaphore
  BY <1>4 DEF ValuesTell, Holder, Semas
<1> QED BY <1>2, <1>3, <1>4 DEF VE, Release, SemExit

\* What a step other than SI does to the semaphores.
TakesOrGives == UNCHANGED semaphore \/ \E s : PE(s) \/ VE(s)

LEMMA Tells ==
  ASSUME IInv, ValuesTell, TakesOrGives
  PROVE  ValuesTell'
<1>1. CASE UNCHANGED semaphore
  BY <1>1 DEF ValuesTell, Holder, Semas
<1> QED BY <1>1, PETells, VETells DEF TakesOrGives

LEMMA OthersTakeOrGive ==
  ASSUME NoSI, [PoliteNext]_vars
  PROVE  TakesOrGives
<1>1. ASSUME NEW i \in Text, Instruction(i) PROVE TakesOrGives
  BY <1>1 DEF NoSI, TakesOrGives, Instruction, Tick, Divide, Abort, OutOfMemory, Stop, Halt,
    Fork, MakeClone, Exec, SharedWord
<1>2. CASE SliceEnd \/ UNCHANGED vars
  BY <1>2 DEF SliceEnd, ContextSwitch, NothingReady, vars, TakesOrGives
<1> QED BY <1>1, <1>2 DEF PoliteNext, PoliteStep, Stopped

LEMMA InitTells ==
  ASSUME Init
  PROVE  ValuesTell
BY DEF Init, SemInit, ValuesTell, Holder, NoHolder

(***************************************************************************)
(* PE and VE alone are a fair lock, whatever else the programs do.         *)
(***************************************************************************)
THEOREM LocksWithoutSI ==
  ASSUME NoSI
  PROVE  SmallRegs /\ PoliteSpec /\ []FirstLap => ImplementsFairLock
<1>1. SmallRegs /\ Init => PoliteInv /\ ValuesTell
  BY InitPolite, InitTells
<1>2. PoliteInv /\ FirstLap' /\ [PoliteNext]_vars => PoliteInv'
  BY NextPolite
<1>3. PoliteInv /\ ValuesTell /\ [PoliteNext]_vars => ValuesTell'
  BY OthersTakeOrGive, Tells DEF PoliteInv
<1>4. SmallRegs /\ PoliteSpec /\ []FirstLap => []ValuesTell
  BY <1>1, <1>2, <1>3, PTL DEF PoliteSpec
<1> QED BY <1>4, LocksAreFair, PTL
=============================================================================
