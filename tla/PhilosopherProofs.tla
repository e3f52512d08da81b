--------------------------- MODULE PhilosopherProofs ---------------------------
(***************************************************************************)
(* The repository's dining philosophers, for every length of a slice,      *)
(* number of PCBs and of semaphores, size of memory and size of the rings: *)
(* a philosopher eats with both of its forks, whose numbers it has written *)
(* into its own PE and VE, FK and EX give every process its own memory,    *)
(* and no ring comes to its last slot.                                     *)
(***************************************************************************)
EXTENDS ProgramProofs

\* The machine is started with philosopherseman, with a PCB to spare for the
\* memory that EX requests, memory for the four processes and one more, and
\* rings whose last slot is not among those of the philosophers' six PEs.
PhilosopherMachine ==
  /\ Text = ProgramText /\ SmallRegs
  /\ Files = MCFiles /\ Starts = {"philosopherseman"}
  /\ NPROC > 4 /\ NSPACES > 1 /\ MEMORY > 250 /\ NSEM > 2 /\ WLEN > 7

-----------------------------------------------------------------------------
(***************************************************************************)
(* The inductive invariant.  Both files are 50 words long; these are the   *)
(* words of each that it never writes.                                     *)
(***************************************************************************)
ForkersFixed == 0 .. 37 \ {2, 3, 4}
EatersFixed == 0 .. 37 \ {2, 3, 4, 6, 15, 28, 32, 36}

HasForkersWords(p) == \A k \in ForkersFixed : WordAt(p, k) = Philosophers.words[k + 1]
HasEatersWords(p) == \A k \in EatersFixed : WordAt(p, k) = Philosopher.words[k + 1]

\* The process that forks: its word 3 counts the philosophers that are missing.
ToFork(ic) == IF ic \in {19, 20} THEN 3 - numPID ELSE 4 - numPID

\* What it has in R and C when it is at ic.
ForkersState(ic, r, c) ==
  /\ ic \in {0} \cup (11 .. 38 \ {36})
  /\ ic \in 17 .. 20 => numPID < 4
  /\ ic \in 15 .. 17 => r = Data(4 - numPID)
  /\ ic = 18 => r = Data(3 - numPID)
  /\ ic = 16 => (c <=> numPID = 4)
  /\ ic = 21 => r = Data(numPID - 1) /\ numPID > 1
  /\ ic = 22 => ~ c

Forking ==
  LET ic == pcb[0].IC IN
  /\ HasForkersWords(0) /\ 0 \notin Blocked
  /\ WordAt(0, 3) = Data(ToFork(ic))
  /\ ForkersState(ic, pcb[0].R, pcb[0].C)
  /\ ic = 38 => blockedOn[0] = HaltInstr

\* A philosopher between FK and EX.
Born(p) ==
  LET ic == pcb[p].IC IN
  /\ HasForkersWords(p) /\ p \notin Blocked
  /\ ic \in {21, 22, 36}
  /\ ic = 21 => pcb[p].R = Data(0)
  /\ ic = 22 => pcb[p].C

\* Its forks are First(p) and Second(p); Third(p) is what it subtracts from p.
First(p) == p - 1
Third(p) == IF p = 3 THEN 3 ELSE 0
Second(p) == p - Third(p)

\* The words that a philosopher has computed when it is at ic.
HasOwnWords(p, ic) ==
  /\ ic >= 11 => WordAt(p, 2) = Data(First(p))
  /\ ic >= 19 => WordAt(p, 3) = Data(p)
  /\ ic >= 22 => WordAt(p, 4) = Data(Third(p))
  /\ ic >= 25 => WordAt(p, 6) = Data(Second(p))
  /\ WordAt(p, 15) = Instr("PE", IF ic >= 15 THEN First(p) ELSE 0)
  /\ WordAt(p, 28) = Instr("PE", IF ic >= 28 THEN Second(p) ELSE 0)
  /\ WordAt(p, 32) = Instr("VE", IF ic >= 32 THEN First(p) ELSE 0)
  /\ WordAt(p, 36) = Instr("VE", IF ic >= 36 THEN Second(p) ELSE 0)

\* What it has in R there.
HasRegister(p, ic, r) ==
  /\ ic \in {9, 18, 19, 23} => r = Data(p)
  /\ ic \in {10, 17} => r = Data(First(p))
  /\ ic = 20 => r = Data(IF p = 3 THEN 1 ELSE 0)
  /\ ic = 21 => r = Data(Third(p))
  /\ ic = 24 => r = Data(Second(p))
  /\ ic \in {13, 26} => r = Instr("PE", 0)
  /\ ic = 14 => r = Instr("PE", First(p))
  /\ ic = 27 => r = Instr("PE", Second(p))
  /\ ic \in {30, 34} => r = Instr("VE", 0)
  /\ ic = 31 => r = Instr("VE", First(p))
  /\ ic = 35 => r = Instr("VE", Second(p))

\* The forks it has, and the one it waits for.
HasForks(p, ic) ==
  /\ p \in Blocked => \/ ic = 16 /\ blockedOn[p] = Instr("PE", First(p))
                      \/ ic = 29 /\ blockedOn[p] = Instr("PE", Second(p))
  /\ ic \in 16 .. 32 /\ (ic = 16 => p \notin Blocked) => Holder(First(p)) = p
  /\ ic \in 29 .. 36 /\ p \notin Blocked => Holder(Second(p)) = p
  /\ ic = 38 => blockedOn[p] = HaltInstr

Eating(p) ==
  LET ic == pcb[p].IC IN
  /\ ic \in {0} \cup (8 .. 38)
  /\ HasEatersWords(p)
  /\ HasOwnWords(p, ic)
  /\ HasRegister(p, ic, pcb[p].R)
  /\ HasForks(p, ic)

\* Where the programs are, whoever runs.
Placement ==
  /\ numPID \in 1 .. 4
  /\ HoleFrom(heap, 50 * numPID)
  /\ memoryNum = 50 * numPID - 12
  /\ \A p \in Created : br[p] = 50 * p /\ lr[p] = 50

\* The PEs that it has executed.
PEsOf(p) ==
  IF p \in Created /\ Eating(p) /\ pcb[p].IC > 15 THEN IF pcb[p].IC > 28 THEN 2 ELSE 1 ELSE 0

\* No process waits without a PE.
FewWait == \A s \in Semas : semaphore[s].tail \in 0 .. PEsOf(1) + PEsOf(2) + PEsOf(3)

PhilosopherInv ==
  /\ PoliteInv /\ ValuesTell /\ Functions
  /\ Placement
  /\ FewWait
  /\ Forking
  /\ \A p \in Created \ {0} : Born(p) \/ Eating(p)
-----------------------------------------------------------------------------
(***************************************************************************)
(* The files.                                                              *)
(***************************************************************************)
LEMMA FilesOfPhilosophers ==
  ASSUME PhilosopherMachine
  PROVE  /\ {"philosopherseman", "PH"} \subseteq DOMAIN Files
         /\ Files["philosopherseman"] = Philosophers /\ Files["PH"] = Philosopher
<1>1. Files = MCFiles
  BY DEF PhilosopherMachine
<1>2. {"philosopherseman", "PH"} \subseteq DOMAIN MCFiles
  BY DEF MCFiles
<1>3. MCFiles["philosopherseman"] = Philosophers
  BY DEF MCFiles
<1>4. MCFiles["PH"] = Philosopher
  BY DEF MCFiles
<1> QED BY <1>1, <1>2, <1>3, <1>4

LEMMA PhilosophersWords ==
  LET w == Philosophers.words IN
  /\ Philosophers.length = 50 /\ Len(w) = 38
  /\ w[1] = Instr("BU", 11) /\ w[2] = Data(1) /\ w[4] = Data(3) /\ w[11] = Data(0)
  /\ w[12] = NP /\ w[13] = NP /\ w[14] = NP /\ w[15] = Instr("LR", 3) /\ w[16] = Instr("CE", 10)
  /\ w[17] = Instr("BT", 37) /\ w[18] = Instr("SU", 1) /\ w[19] = Instr("SR", 3) /\ w[20] = NP
  /\ w[21] = FK /\ w[22] = Instr("CE", 10) /\ w[23] = Instr("BT", 36) /\ w[24] = Instr("SR", 4)
  /\ w[25] = Instr("LR", 29) /\ w[26] = Instr("LL", 4) /\ w[27] = NP /\ w[28] = NP /\ w[29] = NP
  /\ w[30] = NP /\ w[31] = NP /\ w[32] = NP /\ w[33] = Instr("LR", 2) /\ w[34] = Instr("AD", 1)
  /\ w[35] = Instr("SR", 2) /\ w[36] = Instr("BU", 11) /\ w[37] = Instr("EX", "PH") /\ w[38] = H
BY DEF Philosophers, File

LEMMA PhilosopherWords ==
  LET w == Philosopher.words IN
  /\ Philosopher.length = 50 /\ Len(w) = 41
  /\ w[1] = Instr("BU", 8) /\ w[2] = Data(1) /\ w[6] = Data(3)
  /\ w[9] = GP /\ w[10] = Instr("SU", 1) /\ w[11] = Instr("SR", 2) /\ w[12] = NP
  /\ w[13] = Instr("LR", 15) /\ w[14] = Instr("LL", 2) /\ w[15] = Instr("SR", 15)
  /\ w[16] = Instr("PE", 0) /\ w[17] = Instr("LR", 2) /\ w[18] = Instr("AD", 1)
  /\ w[19] = Instr("SR", 3) /\ w[20] = Instr("DI", 5) /\ w[21] = Instr("MU", 3)
  /\ w[22] = Instr("SR", 4) /\ w[23] = Instr("LR", 3) /\ w[24] = Instr("SU", 4)
  /\ w[25] = Instr("SR", 6) /\ w[26] = Instr("LR", 28) /\ w[27] = Instr("LL", 6)
  /\ w[28] = Instr("SR", 28) /\ w[29] = Instr("PE", 0) /\ w[30] = Instr("LR", 32)
  /\ w[31] = Instr("LL", 2) /\ w[32] = Instr("SR", 32) /\ w[33] = Instr("VE", 0)
  /\ w[34] = Instr("LR", 36) /\ w[35] = Instr("LL", 6) /\ w[36] = Instr("SR", 36)
  /\ w[37] = Instr("VE", 0) /\ w[38] = H
<1> DEFINE w == Philosopher.words
<1>1. /\ Philosopher.length = 50 /\ Len(w) = 41
      /\ w[1] = Instr("BU", 8) /\ w[2] = Data(1) /\ w[6] = Data(3)
      /\ w[9] = GP /\ w[10] = Instr("SU", 1) /\ w[11] = Instr("SR", 2) /\ w[12] = NP
      /\ w[13] = Instr("LR", 15) /\ w[14] = Instr("LL", 2) /\ w[15] = Instr("SR", 15)
      /\ w[16] = Instr("PE", 0) /\ w[17] = Instr("LR", 2) /\ w[18] = Instr("AD", 1)
  BY DEF Philosopher, File
<1>2. /\ w[19] = Instr("SR", 3) /\ w[20] = Instr("DI", 5) /\ w[21] = Instr("MU", 3)
      /\ w[22] = Instr("SR", 4) /\ w[23] = Instr("LR", 3) /\ w[24] = Instr("SU", 4)
      /\ w[25] = Instr("SR", 6) /\ w[26] = Instr("LR", 28) /\ w[27] = Instr("LL", 6)
      /\ w[28] = Instr("SR", 28)
  BY DEF Philosopher, File
<1>3. /\ w[29] = Instr("PE", 0) /\ w[30] = Instr("LR", 32)
      /\ w[31] = Instr("LL", 2) /\ w[32] = Instr("SR", 32) /\ w[33] = Instr("VE", 0)
      /\ w[34] = Instr("LR", 36) /\ w[35] = Instr("LL", 6) /\ w[36] = Instr("SR", 36)
      /\ w[37] = Instr("VE", 0) /\ w[38] = H
  BY DEF Philosopher, File
<1> QED BY <1>1, <1>2, <1>3

LEMMA FixedWords ==
  ASSUME NEW p
  PROVE  /\ HasForkersWords(p) => \A k \in 0 .. 37 :
              k \notin {2, 3, 4} => WordAt(p, k) = Philosophers.words[k + 1]
         /\ HasEatersWords(p) => \A k \in 0 .. 37 :
              k \notin {2, 3, 4, 6, 15, 28, 32, 36} => WordAt(p, k) = Philosopher.words[k + 1]
BY DEF HasForkersWords, HasEatersWords, ForkersFixed, EatersFixed
-----------------------------------------------------------------------------
(***************************************************************************)
(* What the words of the two files make the machine do.                    *)
(***************************************************************************)
LEMMA ReadsBack ==
  /\ \A n \in 0 .. 3 : Loaded(Data(n)) = Data(n)
  /\ \A op, a : op # "data" => Loaded(Instr(op, a)) = Instr(op, a)
<1>1. ASSUME NEW n \in 0 .. 3 PROVE Number(Stored(n)) = n
  <2>1. n \in Nat /\ n <= 9999
    OBVIOUS
  <2> QED BY <2>1, StoredRoundTrip
<1>2. \A n : Loaded(Data(n)) = Data(Number(Stored(n)))
  BY DEF Loaded, Data
<1>3. \A op, a : op # "data" => Loaded(Instr(op, a)) = Instr(op, a)
  BY DEF Loaded, Instr
<1> QED BY <1>1, <1>2, <1>3

\* An instruction that changes registers only.
Quiet(r, c, ic) ==
  Tick /\ Becomes(r, c, ic) /\ memory' = memory /\ UNCHANGED <<shared, allocation>>

LEMMA QuietEffects ==
  ASSUME Execute, NEW op, NEW a, Fetched = Instr(op, a)
  PROVE  LET x == Loaded(WordAt(current, a)) IN
         /\ op = "NP" => Quiet(R, C, NextIC)
         /\ op = "GP" => Quiet(Data(current), C, NextIC)
         /\ op = "LR" => Quiet(x, C, NextIC)
         /\ op = "LL" => Quiet(LowReplaced(R, x.arg), C, NextIC)
         /\ op = "CE" => Quiet(R, R = x, NextIC)
         /\ op = "BT" => Quiet(R, C, IF C THEN a ELSE NextIC)
         /\ op = "BU" => Quiet(R, C, a)
         /\ op \in {"AD", "SU", "MU"} => Quiet(Data(Compute(op, R.arg, x.arg)), C, NextIC)
         /\ op = "DI" /\ x.arg # 0 => Quiet(Data(Compute(op, R.arg, x.arg)), C, NextIC)
<1> DEFINE i == Fetched
           x == Loaded(WordAt(current, a))
<1>1. i.op = op /\ i.arg = a /\ Operand(i) = x
  BY DEF Instr, Operand, Address, WordAt
<1>2. op = "DI" /\ x.arg # 0 => ~ DividesByZero(i)
  BY <1>1 DEF DividesByZero, Divisor
<1>3. op \in {"NP", "GP", "LR", "LL", "CE", "BT", "BU", "AD", "SU", "MU"}
        \/ (op = "DI" /\ x.arg # 0) =>
          Tick /\ Local(i) /\ UNCHANGED <<shared, allocation>>
  BY <1>1, <1>2, Decoded
<1> HIDE DEF i
<1>4. op \in {"NP", "GP", "LR", "LL"} =>
        Tick /\ memory' = memory /\ UNCHANGED <<shared, allocation>>
          /\ (op = "NP" => Becomes(R, C, NextIC))
          /\ (op = "GP" => Becomes(Data(current), C, NextIC))
          /\ (op = "LR" => Becomes(Operand(i), C, NextIC))
          /\ (op = "LL" => Becomes(LowReplaced(R, Operand(i).arg), C, NextIC))
  BY <1>1, <1>3, LocalEffects
<1>5. op \in {"CE", "BT", "BU"} =>
        Tick /\ memory' = memory /\ UNCHANGED <<shared, allocation>>
          /\ (op = "CE" => Becomes(R, R = Operand(i), NextIC))
          /\ (op = "BT" => Becomes(R, C, IF C THEN i.arg ELSE NextIC))
          /\ (op = "BU" => Becomes(R, C, i.arg))
  BY <1>1, <1>3, LocalEffects
<1>6. op \in {"AD", "SU", "MU"} \/ (op = "DI" /\ x.arg # 0) =>
        Quiet(Data(Compute(i.op, R.arg, Operand(i).arg)), C, NextIC)
  BY <1>1, <1>3, LocalEffects DEF InRegister, Quiet
<1> HIDE DEF x
<1>7. /\ op = "NP" => Quiet(R, C, NextIC)
      /\ op = "GP" => Quiet(Data(current), C, NextIC)
      /\ op = "LR" => Quiet(x, C, NextIC)
      /\ op = "LL" => Quiet(LowReplaced(R, x.arg), C, NextIC)
      /\ op = "CE" => Quiet(R, R = x, NextIC)
      /\ op = "BT" => Quiet(R, C, IF C THEN a ELSE NextIC)
      /\ op = "BU" => Quiet(R, C, a)
  BY <1>1, <1>4, <1>5 DEF Quiet
<1>8. op \in {"AD", "SU", "MU"} \/ (op = "DI" /\ x.arg # 0) =>
        Quiet(Data(Compute(op, R.arg, x.arg)), C, NextIC)
  BY <1>1, <1>6
<1> QED BY <1>7, <1>8 DEF x

\* An instruction that writes R.
LEMMA WriteEffects ==
  ASSUME Execute, NEW a, Fetched = Instr("SR", a)
  PROVE  Tick /\ Becomes(R, C, NextIC) /\ Write(a, R) /\ UNCHANGED <<shared, allocation>>
<1>1. Fetched.op = "SR" /\ Fetched.arg = a
  BY DEF Instr
<1>2. Tick /\ Local(Fetched) /\ UNCHANGED <<shared, allocation>>
  BY <1>1, Decoded
<1> QED BY <1>1, <1>2, LocalEffects
-----------------------------------------------------------------------------
(***************************************************************************)
(* A philosopher computes the numbers of its forks.                        *)
(***************************************************************************)
LEMMA ForkNumbers ==
  ASSUME NEW p \in 1 .. 3
  PROVE  /\ Compute("SU", p, 1) = First(p) /\ Compute("AD", First(p), 1) = p
         /\ Compute("DI", p, 3) = IF p = 3 THEN 1 ELSE 0
         /\ Compute("MU", IF p = 3 THEN 1 ELSE 0, p) = Third(p)
         /\ Compute("SU", p, Third(p)) = Second(p)
         /\ First(p) \in 0 .. 2 /\ Second(p) \in 0 .. 2 /\ Third(p) \in 0 .. 3
         /\ First(p) # Second(p) /\ Second(p) = p % 3
         /\ First(p) % 100 = First(p) /\ Second(p) % 100 = Second(p)
<1>1. \A n \in 0 .. 3 : n % WORD = n /\ n % 100 = n
  BY SmallMod, WordAssumption
<1>2. p = 1 \/ p = 2 \/ p = 3
  OBVIOUS
<1>3. First(p) = p - 1 /\ Third(p) = (IF p = 3 THEN 3 ELSE 0) /\ Second(p) = p - Third(p)
  BY DEF First, Third, Second
<1>4. /\ Compute("SU", p, 1) = (p - 1) % WORD /\ Compute("AD", First(p), 1) = (First(p) + 1) % WORD
      /\ Compute("DI", p, 3) = p \div 3
      /\ Compute("MU", IF p = 3 THEN 1 ELSE 0, p) = ((IF p = 3 THEN 1 ELSE 0) * p) % WORD
      /\ Compute("SU", p, Third(p)) = (p - Third(p)) % WORD
  BY DEF Compute
<1>5. CASE p = 1
  <2>1. First(p) = 0 /\ Third(p) = 0 /\ Second(p) = 1 /\ 0 + 1 = 1 /\ 0 * 1 = 0 /\ 1 - 0 = 1
    BY <1>3, <1>5
  <2> QED BY <1>1, <1>4, <1>5, <2>1
<1>6. CASE p = 2
  <2>1. First(p) = 1 /\ Third(p) = 0 /\ Second(p) = 2 /\ 1 + 1 = 2 /\ 0 * 2 = 0 /\ 2 - 0 = 2
    BY <1>3, <1>6
  <2> QED BY <1>1, <1>4, <1>6, <2>1
<1>7. CASE p = 3
  <2>1. First(p) = 2 /\ Third(p) = 3 /\ Second(p) = 0 /\ 2 + 1 = 3 /\ 1 * 3 = 3 /\ 3 - 3 = 0
    BY <1>3, <1>7
  <2> QED BY <1>1, <1>4, <1>7, <2>1
<1> QED BY <1>2, <1>5, <1>6, <1>7

LEMMA EaterAt ==
  ASSUME NEW p, p = current, Eating(p), NEW ic, ic = pcb[p].IC
  PROVE  /\ ic \in {0} \cup (8 .. 38) /\ NextIC = ic + 1
         /\ ic \notin {15, 28, 32, 36, 38} => Fetched = Philosopher.words[ic + 1]
         /\ ic \in {15, 28, 32, 36} => Fetched = WordAt(p, ic)
         /\ WordAt(p, 1) = Data(1) /\ WordAt(p, 5) = Data(3)
         /\ HasOwnWords(p, ic) /\ HasRegister(p, ic, R) /\ HasForks(p, ic)
<1>1. /\ ic \in {0} \cup (8 .. 38) /\ HasEatersWords(p)
      /\ HasOwnWords(p, ic) /\ HasRegister(p, ic, R) /\ HasForks(p, ic)
  BY DEF Eating, R
<1>2. Fetched = WordAt(p, ic) /\ NextIC = ic + 1
  BY DEF Fetched, Address, WordAt, NextIC
<1>3. WordAt(p, 1) = Data(1) /\ WordAt(p, 5) = Data(3)
  BY <1>1, FixedWords, PhilosopherWords
<1> QED BY <1>1, <1>2, <1>3, FixedWords

\* Where a philosopher goes on.
Following(ic) == IF ic = 0 THEN 8 ELSE ic + 1

EaterWrites == {10, 14, 18, 21, 24, 27, 31, 35}
EaterReads == {0, 8, 9, 11, 12, 13, 16, 17, 19, 20, 22, 23, 25, 26, 29, 30, 33, 34}

LEMMA EaterLoads ==
  ASSUME Execute, NEW p \in 1 .. 3, p = current, Eating(p), NEW ic, ic = pcb[p].IC,
         ic \in {12, 16, 22, 25, 29, 33}
  PROVE  \E r : Quiet(r, C, ic + 1) /\ HasRegister(p, ic + 1, r)
<1>1. NextIC = ic + 1 /\ Fetched = Philosopher.words[ic + 1] /\ HasOwnWords(p, ic)
  BY EaterAt
<1>2. Loaded(Data(First(p))) = Data(First(p)) /\ Loaded(Data(p)) = Data(p)
  <2>1. First(p) \in 0 .. 2
    BY ForkNumbers
  <2>2. First(p) \in 0 .. 3 /\ p \in 0 .. 3
    BY <2>1
  <2> QED BY <2>2, ReadsBack
<1>3. CASE ic = 12
  <2>1. Fetched = Instr("LR", 15) /\ WordAt(p, 15) = Instr("PE", 0)
    BY <1>1, <1>3, PhilosopherWords DEF HasOwnWords
  <2>2. Quiet(Instr("PE", 0), C, 13)
    BY <1>1, <1>3, <2>1, QuietEffects, ReadsBack
  <2> QED BY <1>3, <2>2 DEF HasRegister
<1>4. CASE ic = 16
  <2>1. Fetched = Instr("LR", 2) /\ WordAt(p, 2) = Data(First(p))
    BY <1>1, <1>4, PhilosopherWords DEF HasOwnWords
  <2>2. Quiet(Data(First(p)), C, 17)
    BY <1>1, <1>2, <1>4, <2>1, QuietEffects
  <2> QED BY <1>4, <2>2 DEF HasRegister
<1>5. CASE ic = 22
  <2>1. Fetched = Instr("LR", 3) /\ WordAt(p, 3) = Data(p)
    BY <1>1, <1>5, PhilosopherWords DEF HasOwnWords
  <2>2. Quiet(Data(p), C, 23)
    BY <1>1, <1>2, <1>5, <2>1, QuietEffects
  <2> QED BY <1>5, <2>2 DEF HasRegister
<1>6. CASE ic = 25
  <2>1. Fetched = Instr("LR", 28) /\ WordAt(p, 28) = Instr("PE", 0)
    BY <1>1, <1>6, PhilosopherWords DEF HasOwnWords
  <2>2. Quiet(Instr("PE", 0), C, 26)
    BY <1>1, <1>6, <2>1, QuietEffects, ReadsBack
  <2> QED BY <1>6, <2>2 DEF HasRegister
<1>7. CASE ic = 29
  <2>1. Fetched = Instr("LR", 32) /\ WordAt(p, 32) = Instr("VE", 0)
    BY <1>1, <1>7, PhilosopherWords DEF HasOwnWords
  <2>2. Quiet(Instr("VE", 0), C, 30)
    BY <1>1, <1>7, <2>1, QuietEffects, ReadsBack
  <2> QED BY <1>7, <2>2 DEF HasRegister
<1>8. CASE ic = 33
  <2>1. Fetched = Instr("LR", 36) /\ WordAt(p, 36) = Instr("VE", 0)
    BY <1>1, <1>8, PhilosopherWords DEF HasOwnWords
  <2>2. Quiet(Instr("VE", 0), C, 34)
    BY <1>1, <1>8, <2>1, QuietEffects, ReadsBack
  <2> QED BY <1>8, <2>2 DEF HasRegister
<1> QED BY <1>3, <1>4, <1>5, <1>6, <1>7, <1>8

LEMMA EaterWritesOperand ==
  ASSUME Execute, NEW p \in 1 .. 3, p = current, Eating(p), NEW ic, ic = pcb[p].IC,
         ic \in {13, 26, 30, 34}
  PROVE  \E r : Quiet(r, C, ic + 1) /\ HasRegister(p, ic + 1, r)
<1>1. /\ NextIC = ic + 1 /\ Fetched = Philosopher.words[ic + 1]
      /\ HasOwnWords(p, ic) /\ HasRegister(p, ic, R)
  BY EaterAt
<1>2. Loaded(Data(First(p))) = Data(First(p)) /\ Loaded(Data(Second(p))) = Data(Second(p))
  <2>1. First(p) \in 0 .. 2 /\ Second(p) \in 0 .. 2
    BY ForkNumbers
  <2>2. First(p) \in 0 .. 3 /\ Second(p) \in 0 .. 3
    BY <2>1
  <2> QED BY <2>2, ReadsBack
<1>3. /\ ic = 13 => Fetched = Instr("LL", 2) /\ R = Instr("PE", 0)
      /\ ic = 26 => Fetched = Instr("LL", 6) /\ R = Instr("PE", 0)
      /\ ic = 30 => Fetched = Instr("LL", 2) /\ R = Instr("VE", 0)
      /\ ic = 34 => Fetched = Instr("LL", 6) /\ R = Instr("VE", 0)
  BY <1>1, PhilosopherWords DEF HasRegister
<1>4. /\ Loaded(WordAt(p, 2)) = Data(First(p))
      /\ ic \in {26, 34} => Loaded(WordAt(p, 6)) = Data(Second(p))
  <2>1. WordAt(p, 2) = Data(First(p)) /\ (ic \in {26, 34} => WordAt(p, 6) = Data(Second(p)))
    BY <1>1 DEF HasOwnWords
  <2> QED BY <1>2, <2>1
<1>5. \A op : /\ LowReplaced(Instr(op, 0), Data(First(p)).arg) = Instr(op, First(p))
              /\ LowReplaced(Instr(op, 0), Data(Second(p)).arg) = Instr(op, Second(p))
  BY ForkNumbers DEF LowReplaced, Instr, Data
<1>6. CASE ic = 13
  <2>1. Quiet(Instr("PE", First(p)), C, 14)
    BY <1>1, <1>3, <1>4, <1>5, <1>6, QuietEffects
  <2> QED BY <1>6, <2>1 DEF HasRegister
<1>7. CASE ic = 26
  <2>1. Quiet(Instr("PE", Second(p)), C, 27)
    BY <1>1, <1>3, <1>4, <1>5, <1>7, QuietEffects
  <2> QED BY <1>7, <2>1 DEF HasRegister
<1>8. CASE ic = 30
  <2>1. Quiet(Instr("VE", First(p)), C, 31)
    BY <1>1, <1>3, <1>4, <1>5, <1>8, QuietEffects
  <2> QED BY <1>8, <2>1 DEF HasRegister
<1>9. CASE ic = 34
  <2>1. Quiet(Instr("VE", Second(p)), C, 35)
    BY <1>1, <1>3, <1>4, <1>5, <1>9, QuietEffects
  <2> QED BY <1>9, <2>1 DEF HasRegister
<1> QED BY <1>6, <1>7, <1>8, <1>9

LEMMA EaterComputes ==
  ASSUME Execute, NEW p \in 1 .. 3, p = current, Eating(p), NEW ic, ic = pcb[p].IC,
         ic \in {0, 8, 9, 11, 17, 19, 20, 23}
  PROVE  \E r : Quiet(r, C, Following(ic)) /\ HasRegister(p, Following(ic), r)
<1>1. /\ NextIC = ic + 1 /\ Fetched = Philosopher.words[ic + 1]
      /\ HasOwnWords(p, ic) /\ HasRegister(p, ic, R)
      /\ WordAt(p, 1) = Data(1) /\ WordAt(p, 5) = Data(3)
  BY EaterAt
<1>2. /\ Loaded(Data(1)) = Data(1) /\ Loaded(Data(3)) = Data(3)
      /\ Loaded(Data(p)) = Data(p) /\ Loaded(Data(Third(p))) = Data(Third(p))
  <2>1. Third(p) \in 0 .. 3 /\ p \in 0 .. 3 /\ 1 \in 0 .. 3 /\ 3 \in 0 .. 3
    BY ForkNumbers
  <2> QED BY <2>1, ReadsBack
<1>3. \A n : Data(n).arg = n
  BY DEF Data
<1>4. CASE ic = 0
  <2>1. Fetched = Instr("BU", 8)
    BY <1>1, <1>4, PhilosopherWords
  <2>2. Quiet(R, C, 8)
    BY <2>1, QuietEffects
  <2> QED BY <1>4, <2>2 DEF HasRegister, Following
<1>5. CASE ic = 8
  <2>1. Fetched = Instr("GP", 0)
    BY <1>1, <1>5, PhilosopherWords DEF GP
  <2>2. Quiet(Data(p), C, 9)
    BY <1>1, <1>5, <2>1, QuietEffects
  <2> QED BY <1>5, <2>2 DEF HasRegister, Following
<1>6. CASE ic = 9
  <2>1. Fetched = Instr("SU", 1) /\ R = Data(p)
    BY <1>1, <1>6, PhilosopherWords DEF HasRegister
  <2>2. Quiet(Data(Compute("SU", p, 1)), C, 10)
    BY <1>1, <1>2, <1>3, <1>6, <2>1, QuietEffects
  <2> QED BY <1>6, <2>2, ForkNumbers DEF HasRegister, Following
<1>7. CASE ic = 11
  <2>1. Fetched = Instr("NP", 0)
    BY <1>1, <1>7, PhilosopherWords DEF NP
  <2>2. Quiet(R, C, 12)
    BY <1>1, <1>7, <2>1, QuietEffects
  <2> QED BY <1>7, <2>2 DEF HasRegister, Following
<1>8. CASE ic = 17
  <2>1. Fetched = Instr("AD", 1) /\ R = Data(First(p))
    BY <1>1, <1>8, PhilosopherWords DEF HasRegister
  <2>2. Quiet(Data(Compute("AD", First(p), 1)), C, 18)
    BY <1>1, <1>2, <1>3, <1>8, <2>1, QuietEffects
  <2> QED BY <1>8, <2>2, ForkNumbers DEF HasRegister, Following
<1>9. CASE ic = 19
  <2>1. Fetched = Instr("DI", 5) /\ R = Data(p)
    BY <1>1, <1>9, PhilosopherWords DEF HasRegister
  <2>2. Quiet(Data(Compute("DI", p, 3)), C, 20)
    BY <1>1, <1>2, <1>3, <1>9, <2>1, QuietEffects
  <2> QED BY <1>9, <2>2, ForkNumbers DEF HasRegister, Following
<1>10. CASE ic = 20
  <2> DEFINE third == IF p = 3 THEN 1 ELSE 0
  <2>1. Fetched = Instr("MU", 3) /\ R = Data(third) /\ WordAt(p, 3) = Data(p)
    BY <1>1, <1>10, PhilosopherWords DEF HasRegister, HasOwnWords
  <2> HIDE DEF third
  <2>2. Quiet(Data(Compute("MU", third, p)), C, 21)
    BY <1>1, <1>2, <1>3, <1>10, <2>1, QuietEffects
  <2> QED BY <1>10, <2>2, ForkNumbers DEF HasRegister, Following, third
<1>11. CASE ic = 23
  <2>1. Fetched = Instr("SU", 4) /\ R = Data(p) /\ WordAt(p, 4) = Data(Third(p))
    BY <1>1, <1>11, PhilosopherWords DEF HasRegister, HasOwnWords
  <2>2. Quiet(Data(Compute("SU", p, Third(p))), C, 24)
    BY <1>1, <1>2, <1>3, <1>11, <2>1, QuietEffects
  <2> QED BY <1>11, <2>2, ForkNumbers DEF HasRegister, Following
<1> QED BY <1>4, <1>5, <1>6, <1>7, <1>8, <1>9, <1>10, <1>11
-----------------------------------------------------------------------------
(***************************************************************************)
(* The queues, when one of the instructions of the two files is done.      *)
(***************************************************************************)
LEMMA Ticks ==
  ASSUME Tick
  PROVE  /\ numPID' = numPID /\ current' = current /\ Blocked' = Blocked /\ Continue
         /\ status' = status
         /\ \A s \in Semas : Holder(s)' = Holder(s)
BY DEF Tick, Blocked, Holder

LEMMA PETakes ==
  ASSUME PoliteInv, ValuesTell, current \in PCBs, NEW s \in Semas, PE(s)
  PROVE  /\ numPID' = numPID /\ current' = current /\ status' = status
         /\ \A t \in Semas \ {s} : Holder(t)' = Holder(t)
         /\ \/ Holder(s) = NoHolder /\ Holder(s)' = current /\ Blocked' = Blocked /\ Continue
            \/ /\ Holder(s)' = Holder(s) /\ Blocked' = Blocked \cup {current}
               /\ GiveUpSlice(Instr("PE", s))
<1>1. /\ semaphore[s].value = IF Holder(s) = NoHolder THEN 1 ELSE 0
      /\ semaphore[s].tail < LastSlot /\ semaphore[s].tail \in Nat /\ LastSlot \in Nat
      /\ semaphore \in [Semas -> SemRecord] /\ bq \in Seq(PCBs)
  BY Lining DEF ValuesTell, PoliteInv, IInv, Placed, SchedTypeOK
<1>2. ~ RingFull(s)
  BY <1>1 DEF RingFull
<1>3. (Acquire(s) /\ Holder(s) = NoHolder) \/ WaitFor(s)
  BY <1>1, <1>2 DEF PE, Acquire, WaitFor
<1>4. CASE Acquire(s) /\ Holder(s) = NoHolder
  <2>1. Continue /\ numPID' = numPID /\ bq' = bq /\ current' = current /\ status' = status
    BY <1>4 DEF Acquire, SemContinue
  <2>2. Holder(s)' = current /\ \A t \in Semas \ {s} : Holder(t)' = Holder(t)
    BY <1>1, <1>4 DEF Acquire, Holder
  <2> QED BY <1>4, <2>1, <2>2 DEF Blocked
<1>5. CASE WaitFor(s)
  <2>1. /\ GiveUpSlice(Instr("PE", s)) /\ numPID' = numPID /\ bq' = Append(bq, current)
        /\ current' = current /\ status' = status
    BY <1>5 DEF WaitFor
  <2>2. \A t \in Semas : Holder(t)' = Holder(t)
    BY <1>1, <1>5 DEF WaitFor, Holder, Enqwait
  <2>3. Blocked' = Blocked \cup {current}
    BY <1>1, <2>1, AppendRange DEF Blocked
  <2> QED BY <2>1, <2>2, <2>3
<1> QED BY <1>3, <1>4, <1>5

LEMMA VEGives ==
  ASSUME PoliteInv, ValuesTell, current \in PCBs, NEW s \in Semas, VE(s), Holder(s) = current
  PROVE  /\ numPID' = numPID /\ current' = current /\ Blocked' \subseteq Blocked /\ Continue
         /\ status' = status
         /\ \A t \in Semas \ {s} : Holder(t)' = Holder(t)
<1>1. /\ current # NoHolder /\ semaphore[s].value = 0 /\ semaphore \in [Semas -> SemRecord]
  <2>1. current # NoHolder
    BY DEF NoHolder, PCBs
  <2>2. semaphore[s].value = 0
    BY <2>1 DEF ValuesTell
  <2> QED BY <2>1, <2>2 DEF PoliteInv, IInv, SemTypeOK
<1>2. Release(s)
  BY <1>1 DEF VE
<1>3. CASE Free(s)
  <2>1. Continue /\ numPID' = numPID /\ bq' = bq /\ current' = current /\ status' = status
    BY <1>3 DEF Free, SemContinue
  <2>2. \A t \in Semas \ {s} : Holder(t)' = Holder(t)
    BY <1>1, <1>3 DEF Free, Holder
  <2> QED BY <2>1, <2>2 DEF Blocked
<1>4. CASE ~ RingEmpty(s)
  <2> DEFINE w == NextWaiting(semaphore[s])
  <2>1. w \in Created /\ PidOf(w) = w /\ IsBlocked(w)
    BY <1>4, HeadWaits
  <2>2. HandOver(s)
    BY <1>2, <1>4, <2>1 DEF Release, Free
  <2>3. /\ Continue /\ numPID' = numPID /\ bq' = BqWithout(w) /\ current' = current
        /\ status' = status
        /\ semaphore' = [semaphore EXCEPT ![s] = [Deqwait(@) EXCEPT !.PID = w]]
    BY <2>1, <2>2 DEF HandOver
  <2>4. Blocked' = Blocked \ {w}
    BY <2>1, <2>3, Unlinked DEF Blocked, PoliteInv, IInv
  <2>5. \A t \in Semas \ {s} : Holder(t)' = Holder(t)
    BY <1>1, <2>3 DEF Holder
  <2> QED BY <2>3, <2>4, <2>5
<1> QED BY <1>2, <1>3, <1>4 DEF Release, HandOver

\* A process that does not run keeps its forks and sleeps on, unless it is given
\* the fork that it waits for.
OtherTurn(q) ==
  /\ blockedOn'[q] = blockedOn[q]
  /\ q \in Blocked' => q \in Blocked
  /\ \A s \in Semas : Holder(s) = q => Holder(s)' = q
  /\ \A s \in Semas : q \in BlockedIn("PE", s) /\ q \notin Blocked' => Holder(s)' = q

LEMMA OthersTurn ==
  ASSUME PoliteInv, ValuesTell, [PoliteNext]_vars, current \in PCBs,
         \/ Tick \/ Halt \/ MakeClone
         \/ \E s \in Semas : PE(s) \/ (Holder(s) = current /\ VE(s)),
         NEW q \in PCBs \ {current}
  PROVE  OtherTurn(q)
<1>1. \A s \in Semas : q \in BlockedIn("PE", s) /\ q \notin Blocked' => Holder(s)' = q
  BY LeavesAsHolder DEF Holder
<1>2. q # NoHolder /\ blockedOn \in [PCBs -> Text \cup {NoInstr, HaltInstr}]
  BY DEF NoHolder, PCBs, PoliteInv, IInv, Placed, SchedTypeOK
<1>3. Continue \/ (\E i : GiveUpSlice(i)) => blockedOn'[q] = blockedOn[q]
  BY <1>2 DEF Continue, GiveUpSlice
<1>4. CASE Tick
  BY <1>1, <1>3, <1>4, Ticks DEF OtherTurn
<1>5. CASE Halt \/ MakeClone
  <2>1. (\E i : GiveUpSlice(i)) /\ bq' = bq /\ semaphore' = semaphore
    BY <1>5 DEF Halt, MakeClone
  <2> QED BY <1>1, <1>3, <2>1 DEF OtherTurn, Blocked, Holder
<1>6. ASSUME NEW s \in Semas, PE(s) PROVE OtherTurn(q)
  <2>1. /\ \A t \in Semas \ {s} : Holder(t)' = Holder(t)
        /\ \/ Holder(s) = NoHolder /\ Holder(s)' = current /\ Blocked' = Blocked /\ Continue
           \/ /\ Holder(s)' = Holder(s) /\ Blocked' = Blocked \cup {current}
              /\ GiveUpSlice(Instr("PE", s))
    BY <1>6, PETakes
  <2>2. blockedOn'[q] = blockedOn[q]
    BY <1>3, <2>1
  <2>3. \A t \in Semas : Holder(t) = q => Holder(t)' = q
    BY <1>2, <2>1
  <2> QED BY <1>1, <2>1, <2>2, <2>3 DEF OtherTurn
<1>7. ASSUME NEW s \in Semas, Holder(s) = current, VE(s) PROVE OtherTurn(q)
  <2>1. /\ \A t \in Semas \ {s} : Holder(t)' = Holder(t)
        /\ Blocked' \subseteq Blocked /\ Continue
    BY <1>7, VEGives
  <2>2. \A t \in Semas : Holder(t) = q => Holder(t)' = q
    BY <1>7, <2>1
  <2> QED BY <1>1, <1>3, <2>1, <2>2 DEF OtherTurn
<1> QED BY <1>4, <1>5, <1>6, <1>7

\* The words and registers of a process that does not run.
SameLife(q) ==
  /\ pcb'[q] = pcb[q]
  /\ \A k \in 0 .. 37 : WordAt(q, k)' = WordAt(q, k)

LEMMA ForksKept ==
  ASSUME PhilosopherMachine, NEW q \in 1 .. 3, OtherTurn(q), NEW ic, HasForks(q, ic)
  PROVE  HasForks(q, ic)'
<1>1. /\ First(q) \in Semas /\ Second(q) \in Semas
      /\ First(q) \in 0 .. 2 /\ Second(q) \in 0 .. 2
  BY ForkNumbers, SemAssumption DEF Semas, PhilosopherMachine
<1>2. /\ q \in Blocked' => \/ ic = 16 /\ blockedOn'[q] = Instr("PE", First(q))
                           \/ ic = 29 /\ blockedOn'[q] = Instr("PE", Second(q))
      /\ ic = 38 => blockedOn'[q] = HaltInstr
  BY DEF HasForks, OtherTurn
<1>3. CASE q \in Blocked /\ q \notin Blocked'
  <2>1. \/ ic = 16 /\ q \in BlockedIn("PE", First(q))
        \/ ic = 29 /\ q \in BlockedIn("PE", Second(q))
    BY <1>3 DEF HasForks, BlockedIn
  <2>2. \/ ic = 16 /\ Holder(First(q))' = q
        \/ ic = 29 /\ Holder(Second(q))' = q
    BY <1>1, <1>3, <2>1 DEF OtherTurn
  <2>3. ic = 29 => Holder(First(q))' = q
    BY <1>1 DEF HasForks, OtherTurn
  <2> QED BY <1>2, <1>3, <2>2, <2>3 DEF HasForks
<1>4. CASE (q \in Blocked) = (q \in Blocked')
  <2>1. ic \in 16 .. 32 /\ (ic = 16 => q \notin Blocked') => Holder(First(q))' = q
    BY <1>1, <1>4 DEF HasForks, OtherTurn
  <2>2. ic \in 29 .. 36 /\ q \notin Blocked' => Holder(Second(q))' = q
    BY <1>1, <1>4 DEF HasForks, OtherTurn
  <2> QED BY <1>2, <2>1, <2>2 DEF HasForks
<1> QED BY <1>3, <1>4 DEF OtherTurn

LEMMA LifeKept ==
  ASSUME PhilosopherMachine, NEW q \in 1 .. 3, SameLife(q), OtherTurn(q)
  PROVE  /\ Born(q) => Born(q)'
         /\ Eating(q) => Eating(q)'
<1>1. /\ HasForkersWords(q)' = HasForkersWords(q) /\ HasEatersWords(q)' = HasEatersWords(q)
      /\ \A k \in {2, 3, 4, 6, 15, 28, 32, 36} : WordAt(q, k)' = WordAt(q, k)
  BY DEF SameLife, HasForkersWords, HasEatersWords, ForkersFixed, EatersFixed
<1>2. \A ic : HasOwnWords(q, ic)' = HasOwnWords(q, ic)
  BY <1>1 DEF HasOwnWords
<1>3. pcb'[q] = pcb[q]
  BY DEF SameLife
<1>4. Born(q) => Born(q)'
  BY <1>1, <1>3 DEF Born, OtherTurn
<1>5. ASSUME Eating(q) PROVE Eating(q)'
  <2>1. PICK ic : ic = pcb[q].IC
    OBVIOUS
  <2>2. HasForks(q, ic)'
    BY <1>5, <2>1, ForksKept DEF Eating
  <2> QED BY <1>1, <1>2, <1>3, <1>5, <2>1, <2>2 DEF Eating
<1> QED BY <1>4, <1>5

LEMMA ForkingKept ==
  ASSUME SameLife(0), OtherTurn(0), numPID' = numPID, Forking
  PROVE  Forking'
<1>1. HasForkersWords(0)' = HasForkersWords(0) /\ WordAt(0, 3)' = WordAt(0, 3)
  BY DEF SameLife, HasForkersWords, ForkersFixed
<1>2. pcb'[0] = pcb[0]
  BY DEF SameLife
<1>3. \A ic, r, c : ToFork(ic)' = ToFork(ic) /\ ForkersState(ic, r, c)' = ForkersState(ic, r, c)
  BY DEF ToFork, ForkersState
<1> QED BY <1>1, <1>2, <1>3 DEF Forking, OtherTurn

-----------------------------------------------------------------------------
(***************************************************************************)
(* A step of a process that leaves the blocks of memory as they are.       *)
(***************************************************************************)
LEMMA Here ==
  ASSUME PhilosopherMachine, PhilosopherInv
  PROVE  /\ PoliteInv /\ ValuesTell /\ MEMORY \in Nat /\ MEMORY > 250 /\ {0, 1, 2} \subseteq Semas
         /\ numPID \in 1 .. 4 /\ numPID < NPROC /\ 0 .. 4 \subseteq PCBs
         /\ Created \subseteq 0 .. 3 /\ 0 \in Created
         /\ \A p \in Created : br[p] = 50 * p /\ lr[p] = 50
         /\ DOMAIN pcb = PCBs /\ DOMAIN br = PCBs /\ DOMAIN lr = PCBs
         /\ DOMAIN memory = 0 .. MEMORY - 1 /\ DOMAIN shared = Semas
<1>1. NPROC > 4 /\ NPROC \in Nat /\ NSEM > 2 /\ NSEM \in Nat
  BY SchedAssumption, SemAssumption DEF PhilosopherMachine
<1>2. numPID \in 1 .. 4
  BY DEF PhilosopherInv, Placement
<1> QED BY <1>1, <1>2, MemoryAssumption
        DEF PhilosopherInv, Placement, Functions, PhilosopherMachine, Created, PCBs, Semas

OwnStep ==
  /\ numPID' = numPID /\ current' = current /\ status' = status
  /\ shared' = shared /\ UNCHANGED allocation
  /\ DOMAIN pcb' = PCBs /\ DOMAIN memory' = DOMAIN memory
  /\ \A q \in Created \ {current} : SameLife(q) /\ OtherTurn(q)

LEMMA QuietStep ==
  ASSUME PhilosopherMachine, PhilosopherInv, [PoliteNext]_vars, Execute,
         NEW r, NEW c, NEW ic, Quiet(r, c, ic)
  PROVE  /\ OwnStep
         /\ pcb'[current].R = r /\ pcb'[current].C = c /\ pcb'[current].IC = ic
         /\ \A k : WordAt(current, k)' = WordAt(current, k)
<1>1. /\ current \in PCBs /\ Created \subseteq PCBs
  BY Runner DEF PhilosopherInv
<1>2. /\ numPID' = numPID /\ current' = current /\ br' = br /\ lr' = lr /\ memory' = memory
      /\ shared' = shared /\ status' = status /\ UNCHANGED allocation
  BY Ticks DEF Quiet, allocation
<1>3. /\ DOMAIN pcb' = PCBs
      /\ pcb'[current].R = r /\ pcb'[current].C = c /\ pcb'[current].IC = ic
      /\ \A q \in PCBs \ {current} : pcb'[q] = pcb[q]
  BY <1>1, BecomesSo, Here DEF Quiet
<1>4. \A q \in Created \ {current} : OtherTurn(q)
  BY <1>1, OthersTurn, Here DEF Quiet
<1>5. \A q \in Created \ {current} : SameLife(q)
  BY <1>1, <1>2, <1>3 DEF SameLife, WordAt
<1> QED BY <1>2, <1>3, <1>4, <1>5 DEF OwnStep, WordAt

LEMMA OffsetsApart ==
  ASSUME NEW q \in 0 .. 3, NEW p \in 0 .. 3, NEW j \in 0 .. 49, NEW k \in 0 .. 49,
         50 * q + j = 50 * p + k
  PROVE  q = p /\ j = k
OBVIOUS

LEMMA WriteStep ==
  ASSUME PhilosopherMachine, PhilosopherInv, [PoliteNext]_vars, Execute,
         NEW a \in 0 .. 37, Fetched = Instr("SR", a)
  PROVE  /\ OwnStep /\ Tick
         /\ pcb'[current].R = R /\ pcb'[current].C = C /\ pcb'[current].IC = NextIC
         /\ \A k \in 0 .. 37 : WordAt(current, k)' = IF k = a THEN R ELSE WordAt(current, k)
<1>1. /\ current \in PCBs /\ Created \subseteq PCBs /\ current \in Created
  BY Runner DEF PhilosopherInv
<1>2. Tick /\ Becomes(R, C, NextIC) /\ Write(a, R) /\ UNCHANGED <<shared, allocation>>
  BY WriteEffects
<1>3. /\ numPID' = numPID /\ current' = current /\ br' = br /\ lr' = lr
      /\ shared' = shared /\ status' = status /\ UNCHANGED allocation
  BY <1>2, Ticks DEF allocation
<1>4. /\ DOMAIN pcb' = PCBs
      /\ pcb'[current].R = R /\ pcb'[current].C = C /\ pcb'[current].IC = NextIC
      /\ \A q \in PCBs \ {current} : pcb'[q] = pcb[q]
  BY <1>1, <1>2, BecomesSo, Here
<1>5. \A q \in Created \ {current} : OtherTurn(q)
  BY <1>1, <1>2, OthersTurn, Here
<1>6. /\ memory' = [memory EXCEPT ![50 * current + a] = R] /\ current \in 0 .. 3
      /\ \A q \in Created : br[q] = 50 * q /\ q \in 0 .. 3
      /\ DOMAIN memory = 0 .. MEMORY - 1 /\ MEMORY > 250 /\ MEMORY \in Nat
  BY <1>1, <1>2, Here DEF Write, Address
<1>7. ASSUME NEW q \in Created, NEW k \in 0 .. 37
      PROVE  memory'[br[q] + k] = IF q = current /\ k = a THEN R ELSE memory[br[q] + k]
  <2>1. br[q] = 50 * q /\ q \in 0 .. 3 /\ current \in 0 .. 3 /\ a \in 0 .. 49 /\ k \in 0 .. 49
    BY <1>6
  <2>2. 50 * q + k \in DOMAIN memory
    BY <1>6, <2>1
  <2>3. 50 * q + k = 50 * current + a <=> q = current /\ k = a
    BY <2>1, OffsetsApart
  <2> QED BY <1>6, <2>1, <2>2, <2>3
<1>8. \A q \in Created \ {current} : SameLife(q)
  BY <1>1, <1>3, <1>4, <1>7 DEF SameLife, WordAt
<1>9. \A k \in 0 .. 37 : WordAt(current, k)' = IF k = a THEN R ELSE WordAt(current, k)
  BY <1>1, <1>3, <1>7 DEF WordAt
<1>10. DOMAIN memory' = DOMAIN memory
  BY <1>6
<1> QED BY <1>2, <1>3, <1>4, <1>5, <1>8, <1>9, <1>10 DEF OwnStep
-----------------------------------------------------------------------------
(***************************************************************************)
(* Each step of a philosopher.                                             *)
(***************************************************************************)
LEMMA ForksStay ==
  ASSUME PhilosopherMachine, NEW p \in 1 .. 3, NEW ic, NEW n \in (0 .. 37), HasForks(p, ic),
         p \notin Blocked, Tick,
         ic \in 16 .. 32 <=> n \in 16 .. 32, ic \in 29 .. 36 <=> n \in 29 .. 36
  PROVE  HasForks(p, n)'
<1>1. First(p) \in Semas /\ Second(p) \in Semas
  BY ForkNumbers, SemAssumption DEF Semas, PhilosopherMachine
<1>2. /\ p \notin Blocked'
      /\ Holder(First(p))' = Holder(First(p)) /\ Holder(Second(p))' = Holder(Second(p))
  BY <1>1, Ticks
<1>3. /\ n \in 16 .. 32 => Holder(First(p))' = p
      /\ n \in 29 .. 36 => Holder(Second(p))' = p
  BY <1>2 DEF HasForks
<1> QED BY <1>2, <1>3 DEF HasForks

LEMMA EaterReadStep ==
  ASSUME PhilosopherMachine, PhilosopherInv, [PoliteNext]_vars, Execute,
         NEW p \in 1 .. 3, p = current, Eating(p), pcb[p].IC \in EaterReads
  PROVE  Eating(p)' /\ OwnStep /\ pcb'[p].IC = Following(pcb[p].IC)
<1>1. PICK ic : ic = pcb[p].IC
  OBVIOUS
<1> DEFINE n == Following(ic)
<1>2. PICK r : Quiet(r, C, n) /\ HasRegister(p, n, r)
  BY <1>1, EaterLoads, EaterWritesOperand, EaterComputes DEF EaterReads, Following
<1>3. /\ ic \in EaterReads /\ HasEatersWords(p)
      /\ HasOwnWords(p, ic) /\ HasForks(p, ic)
  BY <1>1 DEF Eating
<1>4. /\ n \in {8, 9, 10, 12, 13, 14, 17, 18, 20, 21, 23, 24, 26, 27, 30, 31, 34, 35}
      /\ ic \in 16 .. 32 <=> n \in 16 .. 32
      /\ ic \in 29 .. 36 <=> n \in 29 .. 36
  BY <1>3 DEF EaterReads, Following
<1>5. HasOwnWords(p, n)
  BY <1>3, <1>4 DEF HasOwnWords, EaterReads, Following
<1> HIDE DEF n
<1>6. /\ OwnStep /\ pcb'[p].R = r /\ pcb'[p].IC = n
      /\ \A k : WordAt(p, k)' = WordAt(p, k)
  <2>1. /\ OwnStep /\ pcb'[current].R = r /\ pcb'[current].IC = n
        /\ \A k : WordAt(current, k)' = WordAt(current, k)
    BY <1>2, QuietStep
  <2>2. current' = current
    BY <2>1 DEF OwnStep
  <2> QED BY <2>1, <2>2
<1>7. HasEatersWords(p)' /\ HasOwnWords(p, n)'
  BY <1>3, <1>5, <1>6 DEF HasEatersWords, HasOwnWords
<1>8. HasForks(p, n)'
  <2>1. p \notin Blocked /\ Tick /\ n \in 0 .. 37
    BY <1>2, <1>4, Runner DEF PhilosopherInv, Quiet
  <2> QED BY <1>3, <1>4, <2>1, ForksStay
<1>9. pcb'[p].IC = Following(pcb[p].IC)
  BY <1>1, <1>6 DEF n
<1> QED BY <1>2, <1>4, <1>6, <1>7, <1>8, <1>9 DEF Eating

\* Where it writes, and what.
EaterWritesTo(ic) ==
  CASE ic = 10 -> 2 [] ic = 14 -> 15 [] ic = 18 -> 3 [] ic = 21 -> 4 [] ic = 24 -> 6
    [] ic = 27 -> 28 [] ic = 31 -> 32 [] ic = 35 -> 36

WhatEaterWrites(p, ic) ==
  CASE ic = 10 -> Data(First(p)) [] ic = 18 -> Data(p)
    [] ic = 21 -> Data(Third(p)) [] ic = 24 -> Data(Second(p))
    [] ic = 14 -> Instr("PE", First(p)) [] ic = 27 -> Instr("PE", Second(p))
    [] ic = 31 -> Instr("VE", First(p)) [] ic = 35 -> Instr("VE", Second(p))

LEMMA EaterWritesWhat ==
  ASSUME NEW p \in 1 .. 3, p = current, Eating(p), NEW ic, ic = pcb[p].IC, ic \in EaterWrites
  PROVE  /\ Fetched = Instr("SR", EaterWritesTo(ic))
         /\ R = WhatEaterWrites(p, ic)
<1>1. Fetched = Philosopher.words[ic + 1] /\ HasRegister(p, ic, R)
  BY EaterAt DEF EaterWrites
<1>2. CASE ic = 10
  <2>1. EaterWritesTo(ic) = 2 /\ WhatEaterWrites(p, ic) = Data(First(p))
    BY <1>2 DEF EaterWritesTo, WhatEaterWrites
  <2> QED BY <1>1, <1>2, <2>1, PhilosopherWords DEF HasRegister
<1>3. CASE ic = 14
  <2>1. EaterWritesTo(ic) = 15 /\ WhatEaterWrites(p, ic) = Instr("PE", First(p))
    BY <1>3 DEF EaterWritesTo, WhatEaterWrites
  <2> QED BY <1>1, <1>3, <2>1, PhilosopherWords DEF HasRegister
<1>4. CASE ic = 18
  <2>1. EaterWritesTo(ic) = 3 /\ WhatEaterWrites(p, ic) = Data(p)
    BY <1>4 DEF EaterWritesTo, WhatEaterWrites
  <2> QED BY <1>1, <1>4, <2>1, PhilosopherWords DEF HasRegister
<1>5. CASE ic = 21
  <2>1. EaterWritesTo(ic) = 4 /\ WhatEaterWrites(p, ic) = Data(Third(p))
    BY <1>5 DEF EaterWritesTo, WhatEaterWrites
  <2> QED BY <1>1, <1>5, <2>1, PhilosopherWords DEF HasRegister
<1>6. CASE ic = 24
  <2>1. EaterWritesTo(ic) = 6 /\ WhatEaterWrites(p, ic) = Data(Second(p))
    BY <1>6 DEF EaterWritesTo, WhatEaterWrites
  <2> QED BY <1>1, <1>6, <2>1, PhilosopherWords DEF HasRegister
<1>7. CASE ic = 27
  <2>1. EaterWritesTo(ic) = 28 /\ WhatEaterWrites(p, ic) = Instr("PE", Second(p))
    BY <1>7 DEF EaterWritesTo, WhatEaterWrites
  <2> QED BY <1>1, <1>7, <2>1, PhilosopherWords DEF HasRegister
<1>8. CASE ic = 31
  <2>1. EaterWritesTo(ic) = 32 /\ WhatEaterWrites(p, ic) = Instr("VE", First(p))
    BY <1>8 DEF EaterWritesTo, WhatEaterWrites
  <2> QED BY <1>1, <1>8, <2>1, PhilosopherWords DEF HasRegister
<1>9. CASE ic = 35
  <2>1. EaterWritesTo(ic) = 36 /\ WhatEaterWrites(p, ic) = Instr("VE", Second(p))
    BY <1>9 DEF EaterWritesTo, WhatEaterWrites
  <2> QED BY <1>1, <1>9, <2>1, PhilosopherWords DEF HasRegister
<1> QED BY <1>2, <1>3, <1>4, <1>5, <1>6, <1>7, <1>8, <1>9 DEF EaterWrites

LEMMA EaterWriteStep ==
  ASSUME PhilosopherMachine, PhilosopherInv, [PoliteNext]_vars, Execute,
         NEW p \in 1 .. 3, p = current, Eating(p), pcb[p].IC \in EaterWrites
  PROVE  Eating(p)' /\ OwnStep /\ pcb'[p].IC = Following(pcb[p].IC)
<1>1. PICK ic : ic = pcb[p].IC
  OBVIOUS
<1> DEFINE a == EaterWritesTo(ic)
<1>2. /\ ic \in EaterWrites /\ HasEatersWords(p) /\ HasRegister(p, ic, R)
      /\ HasOwnWords(p, ic) /\ HasForks(p, ic) /\ NextIC = ic + 1
  BY <1>1, EaterAt DEF Eating
<1>3. Fetched = Instr("SR", a) /\ a \in 0 .. 37 /\ a \in {2, 3, 4, 6, 15, 28, 32, 36}
  BY <1>1, <1>2, EaterWritesWhat DEF EaterWrites, EaterWritesTo
<1>4. R = WhatEaterWrites(p, ic)
  BY <1>1, <1>2, EaterWritesWhat
<1>5. /\ OwnStep /\ Tick /\ pcb'[p].R = R /\ pcb'[p].IC = ic + 1
      /\ \A k \in 0 .. 37 : WordAt(p, k)' = IF k = a THEN R ELSE WordAt(p, k)
  <2>1. /\ OwnStep /\ Tick /\ pcb'[current].R = R /\ pcb'[current].IC = ic + 1
        /\ \A k \in 0 .. 37 : WordAt(current, k)' = IF k = a THEN R ELSE WordAt(current, k)
    BY <1>2, <1>3, WriteStep
  <2>2. current' = current
    BY <2>1 DEF OwnStep
  <2> QED BY <2>1, <2>2
<1>6. HasEatersWords(p)'
  BY <1>2, <1>3, <1>5 DEF HasEatersWords, EatersFixed
<1>7. HasOwnWords(p, ic + 1)'
  <2>1. /\ WordAt(p, 2)' = (IF a = 2 THEN R ELSE WordAt(p, 2))
        /\ WordAt(p, 3)' = (IF a = 3 THEN R ELSE WordAt(p, 3))
        /\ WordAt(p, 4)' = (IF a = 4 THEN R ELSE WordAt(p, 4))
        /\ WordAt(p, 6)' = (IF a = 6 THEN R ELSE WordAt(p, 6))
        /\ WordAt(p, 15)' = (IF a = 15 THEN R ELSE WordAt(p, 15))
        /\ WordAt(p, 28)' = (IF a = 28 THEN R ELSE WordAt(p, 28))
        /\ WordAt(p, 32)' = (IF a = 32 THEN R ELSE WordAt(p, 32))
        /\ WordAt(p, 36)' = (IF a = 36 THEN R ELSE WordAt(p, 36))
    BY <1>5
  <2>2. CASE ic = 10
    <3>1. a = 2
      BY <2>2 DEF EaterWritesTo
    <3>2. R = Data(First(p))
      BY <1>4, <2>2 DEF WhatEaterWrites
    <3> QED BY <1>2, <2>1, <2>2, <3>1, <3>2 DEF HasOwnWords
  <2>3. CASE ic = 14
    <3>1. a = 15
      BY <2>3 DEF EaterWritesTo
    <3>2. R = Instr("PE", First(p))
      BY <1>4, <2>3 DEF WhatEaterWrites
    <3> QED BY <1>2, <2>1, <2>3, <3>1, <3>2 DEF HasOwnWords
  <2>4. CASE ic = 18
    <3>1. a = 3
      BY <2>4 DEF EaterWritesTo
    <3>2. R = Data(p)
      BY <1>4, <2>4 DEF WhatEaterWrites
    <3> QED BY <1>2, <2>1, <2>4, <3>1, <3>2 DEF HasOwnWords
  <2>5. CASE ic = 21
    <3>1. a = 4
      BY <2>5 DEF EaterWritesTo
    <3>2. R = Data(Third(p))
      BY <1>4, <2>5 DEF WhatEaterWrites
    <3> QED BY <1>2, <2>1, <2>5, <3>1, <3>2 DEF HasOwnWords
  <2>6. CASE ic = 24
    <3>1. a = 6
      BY <2>6 DEF EaterWritesTo
    <3>2. R = Data(Second(p))
      BY <1>4, <2>6 DEF WhatEaterWrites
    <3> QED BY <1>2, <2>1, <2>6, <3>1, <3>2 DEF HasOwnWords
  <2>7. CASE ic = 27
    <3>1. a = 28
      BY <2>7 DEF EaterWritesTo
    <3>2. R = Instr("PE", Second(p))
      BY <1>4, <2>7 DEF WhatEaterWrites
    <3> QED BY <1>2, <2>1, <2>7, <3>1, <3>2 DEF HasOwnWords
  <2>8. CASE ic = 31
    <3>1. a = 32
      BY <2>8 DEF EaterWritesTo
    <3>2. R = Instr("VE", First(p))
      BY <1>4, <2>8 DEF WhatEaterWrites
    <3> QED BY <1>2, <2>1, <2>8, <3>1, <3>2 DEF HasOwnWords
  <2>9. CASE ic = 35
    <3>1. a = 36
      BY <2>9 DEF EaterWritesTo
    <3>2. R = Instr("VE", Second(p))
      BY <1>4, <2>9 DEF WhatEaterWrites
    <3> QED BY <1>2, <2>1, <2>9, <3>1, <3>2 DEF HasOwnWords
  <2> QED BY <1>2, <2>2, <2>3, <2>4, <2>5, <2>6, <2>7, <2>8, <2>9 DEF EaterWrites
<1>8. HasRegister(p, ic + 1, R)
  BY <1>2 DEF HasRegister, EaterWrites
<1>9. HasForks(p, ic + 1)'
  <2>1. /\ p \notin Blocked /\ ic + 1 \in 0 .. 37
        /\ ic \in 16 .. 32 <=> ic + 1 \in 16 .. 32
        /\ ic \in 29 .. 36 <=> ic + 1 \in 29 .. 36
    BY <1>2, Runner DEF PhilosopherInv, EaterWrites
  <2> QED BY <1>2, <1>5, <2>1, ForksStay
<1>10. ic + 1 \in 8 .. 38
  BY <1>2 DEF EaterWrites
<1>11. pcb'[p].IC = Following(pcb[p].IC)
  BY <1>1, <1>2, <1>5 DEF Following, EaterWrites
<1> QED BY <1>5, <1>6, <1>7, <1>8, <1>9, <1>10, <1>11 DEF Eating

\* An instruction on a semaphore, and H.
LEMMA QueueStep ==
  ASSUME PhilosopherMachine, PhilosopherInv, [PoliteNext]_vars, Execute, NEW s \in {0, 1, 2},
         \/ Fetched = Instr("PE", s)
         \/ Fetched = Instr("VE", s) /\ Holder(s) = current
         \/ Fetched = H
  PROVE  /\ OwnStep
         /\ pcb'[current].R = R /\ pcb'[current].IC = NextIC
         /\ \A k : WordAt(current, k)' = WordAt(current, k)
         /\ Fetched = Instr("PE", s) => PE(s)
         /\ Fetched = Instr("VE", s) => VE(s)
         /\ Fetched = H => Halt
<1>1. /\ current \in PCBs /\ Created \subseteq PCBs /\ s \in Semas
  BY Runner, Here DEF PhilosopherInv
<1>2. Fetched.op \in {"PE", "VE", "H"}
  BY DEF Instr, H
<1>3. SharedStep(Fetched)
  BY <1>2, Decoded
<1>4. /\ UNCHANGED allocation /\ memory' = memory /\ shared' = shared /\ Becomes(R, C, NextIC)
      /\ Fetched.op = "PE" => PE(Fetched.arg)
      /\ Fetched.op = "VE" => VE(Fetched.arg)
      /\ Fetched.op = "H" => Halt
  BY <1>2, <1>3, SharedEffects
<1>5. /\ Fetched = Instr("PE", s) => PE(s)
      /\ Fetched = Instr("VE", s) => VE(s)
      /\ Fetched = H => Halt
  BY <1>4 DEF Instr, H
<1>6. Halt => numPID' = numPID /\ current' = current /\ status' = status
  BY DEF Halt
<1>7. numPID' = numPID /\ current' = current /\ status' = status
  BY <1>1, <1>5, <1>6, PETakes, VEGives, Here
<1>8. /\ DOMAIN pcb' = PCBs
      /\ pcb'[current].R = R /\ pcb'[current].IC = NextIC
      /\ \A q \in PCBs \ {current} : pcb'[q] = pcb[q]
  BY <1>1, <1>4, BecomesSo, Here
<1>9. \A q \in Created \ {current} : OtherTurn(q)
  BY <1>1, <1>5, OthersTurn, Here
<1>10. br' = br
  BY <1>4 DEF allocation
<1>11. \A q \in Created \ {current} : SameLife(q)
  BY <1>1, <1>4, <1>8, <1>10 DEF SameLife, WordAt
<1> QED BY <1>4, <1>5, <1>7, <1>8, <1>9, <1>10, <1>11 DEF OwnStep, WordAt

\* The same process, seen by its PID.
LEMMA QueueStepOf ==
  ASSUME PhilosopherMachine, PhilosopherInv, [PoliteNext]_vars, Execute, NEW s \in {0, 1, 2},
         NEW p, p = current, NEW ic, ic = pcb[p].IC,
         \/ Fetched = Instr("PE", s)
         \/ Fetched = Instr("VE", s) /\ Holder(s) = p
         \/ Fetched = H
  PROVE  /\ OwnStep /\ pcb'[p].R = R /\ pcb'[p].IC = ic + 1
         /\ \A k : WordAt(p, k)' = WordAt(p, k)
         /\ Fetched = Instr("PE", s) => PE(s)
         /\ Fetched = Instr("VE", s) => VE(s)
         /\ Fetched = H => Halt
<1>1. /\ OwnStep
      /\ pcb'[current].R = R /\ pcb'[current].IC = NextIC
      /\ \A k : WordAt(current, k)' = WordAt(current, k)
      /\ Fetched = Instr("PE", s) => PE(s)
      /\ Fetched = Instr("VE", s) => VE(s)
      /\ Fetched = H => Halt
  BY QueueStep
<1>2. current' = current
  BY <1>1 DEF OwnStep
<1> QED BY <1>1, <1>2 DEF NextIC

LEMMA Slept ==
  ASSUME PoliteInv, current \in PCBs, NEW i, GiveUpSlice(i)
  PROVE  blockedOn'[current] = i
BY DEF PoliteInv, IInv, Placed, SchedTypeOK, GiveUpSlice

LEMMA EaterPEStep ==
  ASSUME PhilosopherMachine, PhilosopherInv, NEW p \in 1 .. 3, p = current, current' = current,
         NEW ic \in {15, 28}, HasForks(p, ic), p \in PCBs, p \notin Blocked,
         PE(IF ic = 15 THEN First(p) ELSE Second(p))
  PROVE  HasForks(p, ic + 1)'
<1> DEFINE s == IF ic = 15 THEN First(p) ELSE Second(p)
<1>1. /\ First(p) \in Semas /\ Second(p) \in Semas /\ First(p) # Second(p) /\ p # NoHolder
  BY ForkNumbers, Here DEF PCBs, NoHolder
<1>2. /\ \A t \in Semas \ {s} : Holder(t)' = Holder(t)
      /\ \/ Holder(s) = NoHolder /\ Holder(s)' = p /\ Blocked' = Blocked
         \/ /\ Holder(s)' = Holder(s) /\ Blocked' = Blocked \cup {p}
            /\ GiveUpSlice(Instr("PE", s))
  BY <1>1, PETakes, Here
<1>3. p \in Blocked' => blockedOn'[p] = Instr("PE", s)
  BY <1>2, Slept, Here
<1>4. p \notin Blocked' => Holder(s)' = p
  BY <1>2
<1>5. CASE ic = 15
  <2>1. s = First(p) /\ ic + 1 = 16
    BY <1>5
  <2> QED BY <1>3, <1>4, <2>1 DEF HasForks
<1>6. CASE ic = 28
  <2>1. s = Second(p) /\ ic + 1 = 29
    BY <1>6
  <2>2. Holder(First(p)) = p
    BY <1>6 DEF HasForks
  <2>3. Holder(First(p))' = p
    BY <1>1, <1>2, <2>1, <2>2
  <2> QED BY <1>3, <1>4, <2>1, <2>3 DEF HasForks
<1> QED BY <1>5, <1>6

LEMMA EaterVEStep ==
  ASSUME PhilosopherMachine, PhilosopherInv, NEW p \in 1 .. 3, p = current, current' = current,
         NEW ic \in {32, 36}, HasForks(p, ic), p \in PCBs, p \notin Blocked,
         VE(IF ic = 32 THEN First(p) ELSE Second(p))
  PROVE  HasForks(p, ic + 1)'
<1> DEFINE s == IF ic = 32 THEN First(p) ELSE Second(p)
<1>1. /\ First(p) \in Semas /\ Second(p) \in Semas /\ First(p) # Second(p) /\ s \in Semas
  BY ForkNumbers, Here
<1>2. Holder(s) = p
  BY DEF HasForks
<1>3. /\ \A t \in Semas \ {s} : Holder(t)' = Holder(t)
      /\ Blocked' \subseteq Blocked
  BY <1>1, <1>2, VEGives, Here
<1>4. p \notin Blocked'
  BY <1>3
<1>5. CASE ic = 32
  <2>1. s = First(p) /\ ic + 1 = 33 /\ Holder(Second(p)) = p
    BY <1>5 DEF HasForks
  <2>2. Holder(Second(p))' = p
    BY <1>1, <1>3, <2>1
  <2> QED BY <1>4, <2>1, <2>2 DEF HasForks
<1>6. CASE ic = 36
  <2>1. ic + 1 = 37
    BY <1>6
  <2> QED BY <1>4, <2>1 DEF HasForks
<1> QED BY <1>5, <1>6

LEMMA EaterQueueStep ==
  ASSUME PhilosopherMachine, PhilosopherInv, [PoliteNext]_vars, Execute,
         NEW p \in 1 .. 3, p = current, Eating(p), pcb[p].IC \in {15, 28, 32, 36, 37}
  PROVE  Eating(p)' /\ OwnStep /\ pcb'[p].IC = Following(pcb[p].IC)
<1>1. PICK ic : ic = pcb[p].IC
  OBVIOUS
<1>2. /\ ic \in {15, 28, 32, 36, 37} /\ HasEatersWords(p) /\ HasOwnWords(p, ic) /\ HasForks(p, ic)
      /\ p \in PCBs /\ p \notin Blocked
  BY <1>1, Runner, Here DEF Eating, PhilosopherInv
<1> DEFINE s == IF ic \in {15, 32} THEN First(p) ELSE Second(p)
<1>3. s \in {0, 1, 2}
  BY ForkNumbers
<1>4. /\ ic \in {15, 28} => Fetched = Instr("PE", s)
      /\ ic \in {32, 36} => Fetched = Instr("VE", s)
      /\ ic = 37 => Fetched = H
  BY <1>1, <1>2, EaterAt, PhilosopherWords DEF HasOwnWords
<1>5. ic \in {32, 36} => Holder(s) = p
  BY <1>2 DEF HasForks
<1>6. /\ OwnStep /\ pcb'[p].R = R /\ pcb'[p].IC = ic + 1
      /\ \A k : WordAt(p, k)' = WordAt(p, k)
      /\ Fetched = Instr("PE", s) => PE(s)
      /\ Fetched = Instr("VE", s) => VE(s)
      /\ Fetched = H => Halt
  <2> HIDE DEF s
  <2> QED BY <1>1, <1>2, <1>3, <1>4, <1>5, QueueStepOf
<1>7. HasEatersWords(p)' /\ HasOwnWords(p, ic + 1)' /\ HasRegister(p, ic + 1, R)
  BY <1>2, <1>6 DEF HasEatersWords, HasOwnWords, HasRegister, EatersFixed
<1>8. HasForks(p, ic + 1)'
  <2>1. current' = current
    BY <1>6 DEF OwnStep
  <2>2. CASE ic \in {15, 28}
    <3>1. PE(IF ic = 15 THEN First(p) ELSE Second(p))
      BY <1>4, <1>6, <2>2
    <3> QED BY <1>2, <2>1, <2>2, <3>1, EaterPEStep
  <2>3. CASE ic \in {32, 36}
    <3>1. VE(IF ic = 32 THEN First(p) ELSE Second(p))
      BY <1>4, <1>6, <2>3
    <3> QED BY <1>2, <2>1, <2>3, <3>1, EaterVEStep
  <2>4. CASE ic = 37
    <3>1. Halt
      BY <1>4, <1>6, <2>4
    <3>2. GiveUpSlice(HaltInstr) /\ bq' = bq
      BY <3>1 DEF Halt
    <3>3. blockedOn'[p] = HaltInstr /\ p \notin Blocked'
      BY <1>2, <3>2, Slept, Here DEF Blocked
    <3> QED BY <2>4, <3>3 DEF HasForks
  <2> QED BY <1>2, <2>2, <2>3, <2>4
<1>9. ic + 1 \in 8 .. 38 /\ Following(ic) = ic + 1
  BY <1>2 DEF Following
<1> QED BY <1>1, <1>6, <1>7, <1>8, <1>9 DEF Eating

LEMMA NotHalted ==
  ASSUME PoliteInv, Execute
  PROVE  blockedOn[current] # HaltInstr
<1>1. Placed /\ status = "running" /\ tdma < TDMA_Setting
  BY DEF PoliteInv, IInv, Execute
<1> QED BY <1>1 DEF Placed, EveryProcessAccounted, EachInOnePlace, Halted

LEMMA EaterStep ==
  ASSUME PhilosopherMachine, PhilosopherInv, [PoliteNext]_vars, Execute,
         NEW p \in 1 .. 3, p = current, Eating(p)
  PROVE  Eating(p)' /\ OwnStep /\ pcb'[p].IC = Following(pcb[p].IC)
<1>1. PICK ic : ic = pcb[p].IC
  OBVIOUS
<1>2. ic # 38
  BY <1>1, NotHalted DEF Eating, HasForks, PhilosopherInv
<1>3. ic \in EaterReads \cup EaterWrites \cup {15, 28, 32, 36, 37}
  BY <1>1, <1>2 DEF Eating, EaterReads, EaterWrites
<1> QED BY <1>1, <1>3, EaterReadStep, EaterWriteStep, EaterQueueStep
-----------------------------------------------------------------------------
(***************************************************************************)
(* Each step of the process that forks, but FK.                            *)
(***************************************************************************)
LEMMA ForkerAt ==
  ASSUME NEW p, p = current, HasForkersWords(p), NEW ic \in {0} \cup (11 .. 37), ic = pcb[p].IC
  PROVE  /\ NextIC = ic + 1 /\ Fetched = Philosophers.words[ic + 1]
         /\ WordAt(p, 1) = Data(1) /\ WordAt(p, 10) = Data(0)
<1>1. Fetched = WordAt(p, ic) /\ NextIC = ic + 1
  BY DEF Fetched, Address, WordAt, NextIC
<1>2. \A k \in 0 .. 37 : k \notin {2, 3, 4} => WordAt(p, k) = Philosophers.words[k + 1]
  BY FixedWords
<1> QED BY <1>1, <1>2, PhilosophersWords

ForkerReads == {0, 11, 12, 13, 14, 15, 16, 17, 19, 21, 22, 24, 25, 26, 27, 28, 29, 30, 31, 32, 33, 35}

\* The missing philosophers are counted without overflow.
LEMMA CountsDown ==
  ASSUME numPID \in 1 .. 4
  PROVE  /\ 4 - numPID \in 0 .. 3
         /\ numPID < 4 => Compute("SU", 4 - numPID, 1) = 3 - numPID
         /\ Data(4 - numPID) = Data(0) <=> numPID = 4
         /\ numPID > 1 => Data(numPID - 1) # Data(0)
<1>1. \A n \in 0 .. 3 : n % WORD = n
  BY SmallMod, WordAssumption
<1>2. 4 - numPID \in 0 .. 3 /\ (numPID < 4 => (4 - numPID) - 1 = 3 - numPID /\ 3 - numPID \in 0 .. 3)
  OBVIOUS
<1>3. Compute("SU", 4 - numPID, 1) = ((4 - numPID) - 1) % WORD
  BY DEF Compute
<1>4. numPID < 4 => Compute("SU", 4 - numPID, 1) = 3 - numPID
  BY <1>1, <1>2, <1>3
<1> QED BY <1>2, <1>4 DEF Data

\* It goes on quietly.
ForkerGoesOn(ic) ==
  \E r, c, n : /\ Quiet(r, c, n) /\ ForkersState(n, r, c)
               /\ n # 38 /\ ToFork(n) = ToFork(ic)

LEMMA ForkerCounts ==
  ASSUME Execute, numPID \in 1 .. 4, 0 = current, Forking, NEW ic, ic = pcb[0].IC,
         ic \in {14, 15, 16, 17, 21, 22}
  PROVE  ForkerGoesOn(ic)
<1>1. /\ HasForkersWords(0) /\ ic \in 11 .. 37 /\ ForkersState(ic, R, C)
      /\ WordAt(0, 3) = Data(4 - numPID)
  BY DEF Forking, R, C, ToFork
<1>2. /\ NextIC = ic + 1 /\ Fetched = Philosophers.words[ic + 1]
      /\ WordAt(0, 1) = Data(1) /\ WordAt(0, 10) = Data(0)
  BY <1>1, ForkerAt
<1>3. /\ Loaded(Data(0)) = Data(0) /\ Loaded(Data(1)) = Data(1)
      /\ Loaded(Data(4 - numPID)) = Data(4 - numPID)
  BY CountsDown, ReadsBack
<1>4. \A n : Data(n).arg = n
  BY DEF Data
<1>5. CASE ic = 14
  <2>1. Fetched = Instr("LR", 3)
    BY <1>2, <1>5, PhilosophersWords
  <2>2. Quiet(Data(4 - numPID), C, 15)
    BY <1>1, <1>2, <1>3, <1>5, <2>1, QuietEffects
  <2>3. ForkersState(15, Data(4 - numPID), C)
    BY DEF ForkersState
  <2> QED BY <1>5, <2>2, <2>3 DEF ForkerGoesOn, ToFork
<1>6. CASE ic = 15
  <2>1. Fetched = Instr("CE", 10) /\ R = Data(4 - numPID)
    BY <1>1, <1>2, <1>6, PhilosophersWords DEF ForkersState
  <2>2. Quiet(R, R = Data(0), 16)
    BY <1>1, <1>2, <1>3, <1>6, <2>1, QuietEffects
  <2>3. ForkersState(16, R, R = Data(0))
    BY <2>1, CountsDown DEF ForkersState
  <2> QED BY <1>6, <2>2, <2>3 DEF ForkerGoesOn, ToFork
<1>7. CASE ic = 16
  <2> DEFINE n == IF C THEN 37 ELSE 17
  <2>1. Fetched = Instr("BT", 37) /\ R = Data(4 - numPID) /\ (C <=> numPID = 4)
    BY <1>1, <1>2, <1>7, PhilosophersWords DEF ForkersState
  <2>2. Quiet(R, C, n)
    BY <1>2, <1>7, <2>1, QuietEffects
  <2>3. ForkersState(n, R, C) /\ n # 38 /\ ToFork(n) = ToFork(ic)
    BY <1>7, <2>1 DEF ForkersState, ToFork
  <2> HIDE DEF n
  <2> QED BY <2>2, <2>3 DEF ForkerGoesOn
<1>8. CASE ic = 17
  <2>1. Fetched = Instr("SU", 1) /\ R = Data(4 - numPID) /\ numPID < 4
    BY <1>1, <1>2, <1>8, PhilosophersWords DEF ForkersState
  <2>2. Quiet(Data(Compute("SU", 4 - numPID, 1)), C, 18)
    BY <1>2, <1>3, <1>4, <1>8, <2>1, QuietEffects
  <2>3. Quiet(Data(3 - numPID), C, 18)
    BY <2>1, <2>2, CountsDown
  <2>4. ForkersState(18, Data(3 - numPID), C)
    BY <2>1 DEF ForkersState
  <2> QED BY <1>8, <2>3, <2>4 DEF ForkerGoesOn, ToFork
<1>9. CASE ic = 21
  <2>1. Fetched = Instr("CE", 10) /\ R = Data(numPID - 1) /\ numPID > 1
    BY <1>1, <1>2, <1>9, PhilosophersWords DEF ForkersState
  <2>2. Quiet(R, R = Data(0), 22)
    BY <1>1, <1>2, <1>3, <1>9, <2>1, QuietEffects
  <2>3. ForkersState(22, R, R = Data(0))
    BY <2>1, CountsDown DEF ForkersState
  <2> QED BY <1>9, <2>2, <2>3 DEF ForkerGoesOn, ToFork
<1>10. CASE ic = 22
  <2>1. Fetched = Instr("BT", 36) /\ ~ C
    BY <1>1, <1>2, <1>10, PhilosophersWords DEF ForkersState
  <2>2. Quiet(R, C, 23)
    BY <1>2, <1>10, <2>1, QuietEffects
  <2>3. ForkersState(23, R, C)
    BY DEF ForkersState
  <2> QED BY <1>10, <2>2, <2>3 DEF ForkerGoesOn, ToFork
<1> QED BY <1>5, <1>6, <1>7, <1>8, <1>9, <1>10

LEMMA ForkerPasses ==
  ASSUME Execute, 0 = current, Forking, NEW ic, ic = pcb[0].IC,
         ic \in ForkerReads \ {14, 15, 16, 17, 21, 22}
  PROVE  ForkerGoesOn(ic)
<1>1. HasForkersWords(0) /\ ic \in {0} \cup (11 .. 37) /\ ForkersState(ic, R, C)
  BY DEF Forking, R, C, ForkersState, ForkerReads
<1>2. NextIC = ic + 1 /\ Fetched = Philosophers.words[ic + 1]
  BY <1>1, ForkerAt
<1> DEFINE n == IF ic \in {0, 35} THEN 11 ELSE ic + 1
<1>3. \E r : Quiet(r, C, n)
  <2>1. CASE ic \in {0, 35}
    <3>1. Fetched = Instr("BU", 11)
      BY <1>2, <2>1, PhilosophersWords
    <3> QED BY <2>1, <3>1, QuietEffects
  <2>2. CASE ic \in {11, 12, 13, 19, 26, 27, 28, 29, 30, 31}
    <3>1. Fetched = Instr("NP", 0)
      BY <1>2, <2>2, PhilosophersWords DEF NP
    <3> QED BY <1>2, <2>2, <3>1, QuietEffects
  <2>3. CASE ic \in {24, 32}
    <3>1. PICK a : Fetched = Instr("LR", a)
      BY <1>2, <2>3, PhilosophersWords
    <3> QED BY <1>2, <2>3, <3>1, QuietEffects
  <2>4. CASE ic = 25
    <3>1. Fetched = Instr("LL", 4)
      BY <1>2, <2>4, PhilosophersWords
    <3> QED BY <1>2, <2>4, <3>1, QuietEffects
  <2>5. CASE ic = 33
    <3>1. Fetched = Instr("AD", 1)
      BY <1>2, <2>5, PhilosophersWords
    <3> QED BY <1>2, <2>5, <3>1, QuietEffects
  <2> QED BY <2>1, <2>2, <2>3, <2>4, <2>5 DEF ForkerReads
<1>4. /\ n \in {11, 12, 13, 14, 20, 25, 26, 27, 28, 29, 30, 31, 32, 33, 34}
      /\ ToFork(n) = ToFork(ic)
      /\ n = 20 => ic = 19
  BY DEF ForkerReads, ToFork
<1> HIDE DEF n
<1>5. \A r, c : ForkersState(n, r, c)
  BY <1>1, <1>4 DEF ForkersState
<1> QED BY <1>3, <1>4, <1>5 DEF ForkerGoesOn

LEMMA ForkerReadStep ==
  ASSUME PhilosopherMachine, PhilosopherInv, [PoliteNext]_vars, Execute,
         0 = current, pcb[0].IC \in ForkerReads
  PROVE  Forking' /\ OwnStep
<1>1. PICK ic : ic = pcb[0].IC
  OBVIOUS
<1>2. /\ Forking /\ HasForkersWords(0) /\ 0 \notin Blocked /\ numPID \in 1 .. 4
      /\ WordAt(0, 3) = Data(ToFork(ic))
  BY <1>1, Here DEF PhilosopherInv, Forking
<1>3. ForkerGoesOn(ic)
  BY <1>1, <1>2, ForkerCounts, ForkerPasses DEF ForkerReads
<1>4. PICK r, c, n : Quiet(r, c, n) /\ ForkersState(n, r, c) /\ n # 38 /\ ToFork(n) = ToFork(ic)
  BY <1>3 DEF ForkerGoesOn
<1>5. /\ OwnStep /\ pcb'[current].R = r /\ pcb'[current].C = c /\ pcb'[current].IC = n
      /\ \A k : WordAt(current, k)' = WordAt(current, k)
  BY <1>4, QuietStep
<1>6. numPID' = numPID /\ current' = current
  BY <1>5 DEF OwnStep
<1>7. /\ pcb'[0].R = r /\ pcb'[0].C = c /\ pcb'[0].IC = n
      /\ \A k : WordAt(0, k)' = WordAt(0, k)
  BY <1>5, <1>6
<1>8. HasForkersWords(0)' /\ 0 \notin Blocked'
  BY <1>2, <1>4, <1>7, Ticks DEF HasForkersWords, Quiet
<1>9. WordAt(0, 3)' = Data(ToFork(n)')
  BY <1>2, <1>4, <1>6, <1>7 DEF ToFork
<1>10. ForkersState(n, r, c)'
  BY <1>4, <1>6 DEF ForkersState
<1> QED BY <1>4, <1>5, <1>7, <1>8, <1>9, <1>10 DEF Forking

LEMMA ForkerWriteStep ==
  ASSUME PhilosopherMachine, PhilosopherInv, [PoliteNext]_vars, Execute,
         0 = current, pcb[0].IC \in {18, 23, 34}
  PROVE  Forking' /\ OwnStep
<1>1. PICK ic : ic = pcb[0].IC
  OBVIOUS
<1>2. /\ HasForkersWords(0) /\ 0 \notin Blocked /\ numPID \in 1 .. 4 /\ ic \in {18, 23, 34}
      /\ WordAt(0, 3) = Data(ToFork(ic)) /\ ForkersState(ic, R, C)
  BY <1>1, Here DEF PhilosopherInv, Forking, R, C
<1> DEFINE a == IF ic = 18 THEN 3 ELSE IF ic = 23 THEN 4 ELSE 2
<1>3. Fetched = Instr("SR", a) /\ NextIC = ic + 1 /\ a \in {2, 3, 4} /\ a \in 0 .. 37
  BY <1>1, <1>2, ForkerAt, PhilosophersWords
<1>4. a = 3 <=> ic = 18
  BY <1>2
<1> HIDE DEF a
<1>5. /\ OwnStep /\ Tick /\ pcb'[current].R = R /\ pcb'[current].C = C /\ pcb'[current].IC = ic + 1
      /\ \A k \in 0 .. 37 : WordAt(current, k)' = IF k = a THEN R ELSE WordAt(current, k)
  BY <1>3, WriteStep
<1>6. numPID' = numPID /\ current' = current
  BY <1>5 DEF OwnStep
<1>7. /\ pcb'[0].R = R /\ pcb'[0].C = C /\ pcb'[0].IC = ic + 1
      /\ \A k \in 0 .. 37 : WordAt(0, k)' = IF k = a THEN R ELSE WordAt(0, k)
  BY <1>5, <1>6
<1>8. HasForkersWords(0)' /\ 0 \notin Blocked'
  BY <1>2, <1>3, <1>5, <1>7, Ticks DEF HasForkersWords, ForkersFixed
<1>9. WordAt(0, 3)' = Data(ToFork(ic + 1)')
  <2>1. WordAt(0, 3)' = IF a = 3 THEN R ELSE WordAt(0, 3)
    BY <1>7
  <2>2. ic = 18 => R = Data(3 - numPID) /\ ToFork(ic + 1)' = 3 - numPID
    BY <1>2, <1>6 DEF ForkersState, ToFork
  <2>3. ic \in {23, 34} => ToFork(ic + 1)' = ToFork(ic)
    BY <1>6 DEF ToFork
  <2> QED BY <1>2, <1>4, <2>1, <2>2, <2>3
<1>10. \A r, c : ForkersState(ic + 1, r, c)'
  BY <1>2, <1>6 DEF ForkersState
<1>11. ic + 1 # 38
  BY <1>2
<1> QED BY <1>5, <1>7, <1>8, <1>9, <1>10, <1>11 DEF Forking

LEMMA ForkerHalts ==
  ASSUME PhilosopherMachine, PhilosopherInv, [PoliteNext]_vars, Execute,
         0 = current, pcb[0].IC = 37
  PROVE  Forking' /\ OwnStep
<1>1. PICK ic : ic = pcb[0].IC
  OBVIOUS
<1>2. /\ HasForkersWords(0) /\ 0 \notin Blocked /\ ic = 37 /\ 0 \in PCBs
      /\ WordAt(0, 3) = Data(ToFork(ic))
  BY <1>1, Here DEF PhilosopherInv, Forking
<1>3. Fetched = H
  BY <1>1, <1>2, ForkerAt, PhilosophersWords
<1>4. /\ OwnStep /\ pcb'[0].IC = 38 /\ Halt
      /\ \A k : WordAt(0, k)' = WordAt(0, k)
  BY <1>1, <1>2, <1>3, QueueStepOf
<1>5. numPID' = numPID
  BY <1>4 DEF OwnStep
<1>6. GiveUpSlice(HaltInstr) /\ bq' = bq
  BY <1>4 DEF Halt
<1>7. blockedOn'[0] = HaltInstr /\ 0 \notin Blocked'
  BY <1>2, <1>6, Slept, Here DEF Blocked
<1>8. HasForkersWords(0)'
  BY <1>2, <1>4 DEF HasForkersWords
<1>9. WordAt(0, 3)' = Data(ToFork(38)')
  BY <1>2, <1>4, <1>5 DEF ToFork
<1>10. \A r, c : ForkersState(38, r, c)'
  BY DEF ForkersState
<1> QED BY <1>4, <1>7, <1>8, <1>9, <1>10 DEF Forking

LEMMA ForkerStep ==
  ASSUME PhilosopherMachine, PhilosopherInv, [PoliteNext]_vars, Execute,
         0 = current, pcb[0].IC # 20
  PROVE  Forking' /\ OwnStep
<1>1. PICK ic : ic = pcb[0].IC
  OBVIOUS
<1>2. ic # 38
  BY <1>1, NotHalted DEF Forking, PhilosopherInv
<1>3. ic \in ForkerReads \cup {18, 23, 34, 37}
  BY <1>1, <1>2 DEF PhilosopherInv, Forking, ForkersState, ForkerReads
<1> QED BY <1>1, <1>3, ForkerReadStep, ForkerWriteStep, ForkerHalts
-----------------------------------------------------------------------------
(***************************************************************************)
(* A philosopher finds out that it is one.                                 *)
(***************************************************************************)
LEMMA BornReads ==
  ASSUME Execute, NEW p, p = current, Born(p), NEW ic \in {21, 22}, ic = pcb[p].IC
  PROVE  \E r, c, n : /\ Quiet(r, c, n) /\ n \in {22, 36}
                      /\ n = 22 => c
<1>1. /\ HasForkersWords(p)
      /\ ic = 21 => R = Data(0)
      /\ ic = 22 => C
  BY DEF Born, R, C
<1>2. /\ NextIC = ic + 1 /\ Fetched = Philosophers.words[ic + 1] /\ WordAt(p, 10) = Data(0)
  BY <1>1, ForkerAt
<1>3. Loaded(Data(0)) = Data(0)
  BY ReadsBack
<1>4. CASE ic = 21
  <2>1. Fetched = Instr("CE", 10)
    BY <1>2, <1>4, PhilosophersWords
  <2>2. Quiet(R, R = Data(0), 22)
    BY <1>2, <1>3, <1>4, <2>1, QuietEffects
  <2> QED BY <1>1, <1>4, <2>2
<1>5. CASE ic = 22
  <2>1. Fetched = Instr("BT", 36)
    BY <1>2, <1>5, PhilosophersWords
  <2>2. Quiet(R, C, 36)
    BY <1>1, <1>5, <2>1, QuietEffects
  <2> QED BY <2>2
<1> QED BY <1>4, <1>5

LEMMA BornStep ==
  ASSUME PhilosopherMachine, PhilosopherInv, [PoliteNext]_vars, Execute,
         NEW p \in 1 .. 3, p = current, Born(p), pcb[p].IC # 36
  PROVE  Born(p)' /\ OwnStep
<1>1. pcb[p].IC \in {21, 22}
  BY DEF Born
<1>2. PICK r, c, n : Quiet(r, c, n) /\ n \in {22, 36} /\ (n = 22 => c)
  BY <1>1, BornReads
<1>3. /\ OwnStep /\ pcb'[current].R = r /\ pcb'[current].C = c /\ pcb'[current].IC = n
      /\ \A k : WordAt(current, k)' = WordAt(current, k)
  BY <1>2, QuietStep
<1>4. current' = current
  BY <1>3 DEF OwnStep
<1>5. /\ pcb'[p].C = c /\ pcb'[p].IC = n
      /\ \A k : WordAt(p, k)' = WordAt(p, k)
  BY <1>3, <1>4
<1>6. HasForkersWords(p)' /\ p \notin Blocked'
  BY <1>2, <1>5, Ticks DEF Born, HasForkersWords, Quiet
<1> QED BY <1>2, <1>3, <1>5, <1>6 DEF Born
-----------------------------------------------------------------------------
(***************************************************************************)
(* EX releases the 50 words of the process, which border on the hole or    *)
(* become a second one, and is given the same 50 words.                    *)
(***************************************************************************)
LEMMA MemBlockParts ==
  \A n, b, k : LET m == A!MemBlock(n, b, k) IN m.Size = n /\ m.Location = b /\ m.Num = k
BY DEF A!MemBlock

LEMMA LastLoads ==
  ASSUME NSPACES > 1, MEMORY > 250, NEW h, NEW b \in Nat, b < 200, HoleFrom(h, b + 50)
  PROVE  LET released == A!AfterRelease(h, b, 50) IN
         /\ ~ A!ReleaseFails(h, b, 50) /\ ~ A!Refuses(released, 50) /\ ~ A!Overruns(released, 50)
         /\ A!UsesLastHole(released, 50) /\ A!Location(released, 50) = b
         /\ HoleFrom(A!AfterRequest(released, 50), b + 50)
<1>1. /\ h.Holes = 1 /\ h.hq \in Nat \ {0} /\ MEMORY \in Nat /\ NSPACES \in Nat \ {0}
      /\ h.Spaces[0].Size = MEMORY - (b + 50) /\ h.Spaces[0].Location = b + 50
      /\ h.Spaces[0].Num = 0
      /\ DOMAIN h.Spaces = 0 .. NSPACES - 1 /\ 0 \in DOMAIN h.Spaces
  <2>1. MEMORY \in Nat /\ NSPACES \in Nat \ {0} /\ 0 \in 0 .. NSPACES - 1
    BY MemoryAssumption
  <2>2. /\ h.Holes = 1 /\ h.hq \in Nat \ {0} /\ DOMAIN h.Spaces = 0 .. NSPACES - 1
        /\ h.Spaces[0] = A!MemBlock(MEMORY - (b + 50), b + 50, 0)
    BY DEF HoleFrom
  <2>3. /\ h.Spaces[0].Size = MEMORY - (b + 50) /\ h.Spaces[0].Location = b + 50
        /\ h.Spaces[0].Num = 0
    BY <2>2, MemBlockParts
  <2> QED BY <2>1, <2>2, <2>3
<1>2. A!Borders(h, b, 50)
  BY <1>1 DEF A!Borders
<1>3. A!AfterRelease(h, b, 50) = A!Merged(h, 50)
  BY <1>1, <1>2 DEF A!AfterRelease
<1>4. HoleFrom(A!Merged(h, 50), b)
  <2>1. MEMORY - (b + 50) + 50 = MEMORY - b /\ (b + 50) - 50 = b
    BY <1>1
  <2> QED BY <1>1, <2>1 DEF HoleFrom, A!Merged, A!Heap, A!MemBlock
<1>5. ~ A!ReleaseFails(h, b, 50)
  BY <1>1, <1>2 DEF A!ReleaseFails
<1>6. 50 < MEMORY - b /\ 50 \in Nat \ {0}
  BY <1>1
<1> QED BY <1>3, <1>4, <1>5, <1>6, FirstHole

LEMMA EarlierLoads ==
  ASSUME NSPACES > 1, MEMORY > 250, NEW h, NEW at \in Nat, at <= 200, HoleFrom(h, at),
         NEW b \in Nat, b + 50 # at, b + 50 <= MEMORY
  PROVE  LET released == A!AfterRelease(h, b, 50) IN
         /\ ~ A!ReleaseFails(h, b, 50) /\ ~ A!Refuses(released, 50) /\ ~ A!Overruns(released, 50)
         /\ A!UsesLastHole(released, 50) /\ A!Location(released, 50) = b
         /\ HoleFrom(A!AfterRequest(released, 50), at)
<1> DEFINE r == A!Added(h, b, 50)
<1>1. /\ h.Holes = 1 /\ h.hq \in Nat \ {0} /\ MEMORY \in Nat /\ NSPACES \in Nat \ {0}
      /\ h.Spaces[0] = A!MemBlock(MEMORY - at, at, 0) /\ h.Spaces[0].Location = at
      /\ h.Spaces[0].Size > 50 /\ h.Spaces[0].Size \in Int
      /\ DOMAIN h.Spaces = 0 .. NSPACES - 1 /\ 0 \in DOMAIN h.Spaces /\ 1 \in DOMAIN h.Spaces
  <2>1. /\ MEMORY \in Nat /\ NSPACES \in Nat \ {0} /\ {0, 1} \subseteq 0 .. NSPACES - 1
        /\ MEMORY - at > 50 /\ MEMORY - at \in Int
    BY MemoryAssumption
  <2>2. /\ h.Holes = 1 /\ h.hq \in Nat \ {0} /\ DOMAIN h.Spaces = 0 .. NSPACES - 1
        /\ h.Spaces[0] = A!MemBlock(MEMORY - at, at, 0)
    BY DEF HoleFrom
  <2>3. h.Spaces[0].Size = MEMORY - at /\ h.Spaces[0].Location = at
    BY <2>2, MemBlockParts
  <2> QED BY <2>1, <2>2, <2>3
<1>2. ~ A!Borders(h, b, 50)
  BY <1>1 DEF A!Borders
<1>3. A!AfterRelease(h, b, 50) = r
  BY <1>1, <1>2 DEF A!AfterRelease
<1>4. ~ A!ReleaseFails(h, b, 50)
  BY <1>1 DEF A!ReleaseFails
<1>5. /\ r.Holes = 2 /\ r.hq = h.hq + 1 /\ DOMAIN r.Spaces = DOMAIN h.Spaces
      /\ r.Spaces[0] = h.Spaces[0] /\ r.Spaces[1].Size = 50 /\ r.Spaces[1].Location = b
  <2>1. /\ r.Holes = h.Holes + 1 /\ r.hq = h.hq + 1
        /\ r.Spaces = [h.Spaces EXCEPT ![h.Holes] = A!MemBlock(50, b, h.Holes)]
    BY DEF A!Added, A!Heap
  <2> HIDE DEF r
  <2>2. r.Spaces[0] = h.Spaces[0] /\ r.Spaces[1] = A!MemBlock(50, b, 1)
    BY <1>1, <2>1
  <2> QED BY <1>1, <2>1, <2>2, MemBlockParts
<1> HIDE DEF r
<1>6. A!Fits(r, 50) = {0, 1}
  BY <1>1, <1>5 DEF A!Fits
<1>7. A!BestFit(r, 50) = 1
  <2> DEFINE Best(i) == \A j \in A!Fits(r, 50) : \/ r.Spaces[i].Size < r.Spaces[j].Size
                                                 \/ r.Spaces[i].Size = r.Spaces[j].Size /\ i <= j
  <2>1. Best(1) /\ 1 \in A!Fits(r, 50)
    BY <1>1, <1>5, <1>6
  <2>2. ~ Best(0)
    <3>1. r.Spaces[0].Size \in Int /\ r.Spaces[0].Size > 50 /\ r.Spaces[1].Size = 50
      BY <1>1, <1>5
    <3>2. ~ (r.Spaces[0].Size < r.Spaces[1].Size) /\ r.Spaces[0].Size # r.Spaces[1].Size
      BY <3>1
    <3> QED BY <1>6, <3>2
  <2>3. \A i \in A!Fits(r, 50) : Best(i) => i = 1
    BY <1>6, <2>2
  <2> HIDE DEF Best
  <2>4. A!BestFit(r, 50) = CHOOSE i \in A!Fits(r, 50) : Best(i)
    BY DEF A!BestFit, Best
  <2> QED BY <2>1, <2>3, <2>4
<1>8. A!PerfectFit(r, 50)
  BY <1>5, <1>7 DEF A!PerfectFit
<1>9. A!AfterRequest(r, 50) = A!UsedUp(r)
  BY <1>1, <1>5, <1>8 DEF A!AfterRequest
<1>10. HoleFrom(A!UsedUp(r), at)
  <2>1. DOMAIN r.Spaces = 0 .. NSPACES - 1 /\ r.Spaces[0] = A!MemBlock(MEMORY - at, at, 0)
    BY <1>1, <1>5, Zenon
  <2>2. r.Holes = 2 /\ r.hq = h.hq + 1 /\ h.hq \in Nat \ {0}
    BY <1>1, <1>5, Zenon
  <2>3. r.Holes - 1 = 1 /\ r.hq - 1 \in Nat \ {0}
    BY <2>2
  <2> QED BY <2>1, <2>3 DEF HoleFrom, A!UsedUp, A!Heap
<1>11. /\ ~ A!Refuses(r, 50) /\ ~ A!Overruns(r, 50)
       /\ A!UsesLastHole(r, 50) /\ A!Location(r, 50) = b
  <2>1. r.hq # 0 /\ r.Holes - 1 = 1 /\ r.Holes > 1
    BY <1>1, <1>5
  <2>2. ~ A!Refuses(r, 50) /\ ~ A!Overruns(r, 50)
    BY <1>6, <2>1 DEF A!Refuses, A!Overruns
  <2>3. A!UsesLastHole(r, 50)
    BY <1>7, <2>1 DEF A!UsesLastHole
  <2>4. A!Location(r, 50) = b
    BY <1>5, <1>7, <2>1 DEF A!Location
  <2> QED BY <2>2, <2>3, <2>4
<1> QED BY <1>3, <1>4, <1>9, <1>10, <1>11

LEMMA PhilosopherLoads ==
  ASSUME NSPACES > 1, MEMORY > 250, NEW h, NEW n \in 1 .. 4, NEW p \in 0 .. n - 1,
         HoleFrom(h, 50 * n)
  PROVE  LET released == A!AfterRelease(h, 50 * p, 50) IN
         /\ ~ A!ReleaseFails(h, 50 * p, 50)
         /\ ~ A!Refuses(released, 50) /\ ~ A!Overruns(released, 50)
         /\ A!UsesLastHole(released, 50) /\ A!Location(released, 50) = 50 * p
         /\ HoleFrom(A!AfterRequest(released, 50), 50 * n)
<1>1. /\ 50 * p \in Nat /\ 50 * p < 200 /\ 50 * n \in Nat /\ 50 * n <= 200
      /\ p = n - 1 => 50 * p + 50 = 50 * n
      /\ p # n - 1 => 50 * p + 50 # 50 * n
      /\ 50 * p + 50 <= MEMORY
  BY MemoryAssumption
<1>2. CASE p = n - 1
  BY <1>1, <1>2, LastLoads
<1>3. CASE p # n - 1
  BY <1>1, <1>3, EarlierLoads
<1> QED BY <1>2, <1>3

\* What a step leaves to the others, and where it leaves the programs.
OthersGoOn ==
  /\ numPID' = numPID /\ current' = current /\ status' = status
  /\ Placement' /\ Functions'
  /\ \A q \in Created \ {current} : SameLife(q) /\ OtherTurn(q)

LEMMA OwnStepGoesOn ==
  ASSUME PhilosopherMachine, PhilosopherInv, OwnStep
  PROVE  OthersGoOn
<1>1. /\ heap' = heap /\ br' = br /\ lr' = lr /\ memoryNum' = memoryNum /\ numPID' = numPID
      /\ shared' = shared /\ DOMAIN pcb' = PCBs /\ DOMAIN memory' = DOMAIN memory
  BY DEF OwnStep, allocation
<1>2. Placement'
  BY <1>1 DEF PhilosopherInv, Placement, HoleFrom, Created
<1>3. Functions'
  BY <1>1, Here DEF Functions
<1> QED BY <1>2, <1>3 DEF OthersGoOn, OwnStep

LEMMA PhilosopherExecs ==
  ASSUME PhilosopherMachine, PhilosopherInv, NEW p \in Created, p = current,
         Fetched = Instr("EX", "PH"), ExecStep
  PROVE  /\ Tick /\ A!Load(p, 50, 41) /\ shared' = shared /\ Registers(R, SP, C, 0)
         /\ LoadFile(50 * p, Philosopher.words)
         /\ HoleFrom(heap', 50 * numPID)
<1> DEFINE released == A!AfterRelease(heap, 50 * p, 50)
<1>1. /\ "PH" \in DOMAIN Files /\ Files["PH"] = Philosopher /\ Philosopher.length = 50
      /\ Len(Philosopher.words) = 41 /\ Fetched.arg = "PH"
  BY FilesOfPhilosophers, PhilosopherWords DEF Instr
<1>2. /\ MEMORY > 250 /\ NSPACES > 1 /\ NPROC > 4 /\ MEMORY \in Nat /\ numPID \in 1 .. 4
      /\ numPID # NPROC /\ p \in 0 .. numPID - 1 /\ br[p] = 50 * p /\ lr[p] = 50
      /\ HoleFrom(heap, 50 * numPID)
  BY Here DEF PhilosopherMachine, PhilosopherInv, Placement, Created
<1>3. /\ ~ A!ReleaseFails(heap, 50 * p, 50)
      /\ ~ A!Refuses(released, 50) /\ ~ A!Overruns(released, 50)
      /\ HoleFrom(A!AfterRequest(released, 50), 50 * numPID)
  BY <1>2, PhilosopherLoads
<1>4. 50 * p + 50 <= MEMORY
  BY <1>2
<1> HIDE DEF released
<1>5. ~ A!LoadFails(p, 50, 41)
  BY <1>2, <1>3, <1>4 DEF A!LoadFails, A!RequestFails, released
<1>6. /\ Tick /\ A!Load(p, 50, 41) /\ shared' = shared /\ Registers(R, SP, C, 0)
      /\ LoadFile(50 * p, Philosopher.words)
  BY <1>1, <1>2, <1>5 DEF ExecStep
<1>7. heap' = A!AfterRequest(released, 50)
  BY <1>2, <1>6 DEF A!Load, A!Request, released
<1> QED BY <1>3, <1>6, <1>7

LEMMA PhilosopherLoaded ==
  ASSUME PhilosopherMachine, PhilosopherInv, NEW p \in Created,
         LoadFile(50 * p, Philosopher.words)
  PROVE  /\ DOMAIN memory' = DOMAIN memory
         /\ \A k \in 0 .. 37 : memory'[50 * p + k] = Philosopher.words[k + 1]
         /\ \A q \in Created \ {p} : \A k \in 0 .. 37 : memory'[50 * q + k] = memory[50 * q + k]
<1> DEFINE w == Philosopher.words
<1>1. /\ MEMORY > 250 /\ MEMORY \in Nat /\ DOMAIN memory = 0 .. MEMORY - 1
      /\ Created \subseteq 0 .. 3
  BY Here
<1>2. memory' = [a \in DOMAIN memory |->
                   IF a \in 50 * p .. 50 * p + 40 THEN w[a - 50 * p + 1] ELSE memory[a]]
  <2>1. A!Block(50 * p, Len(w)) = 50 * p .. 50 * p + 40
    BY <1>1, PhilosopherWords DEF A!Block
  <2> QED BY <2>1 DEF LoadFile
<1> HIDE DEF w
<1>3. ASSUME NEW k \in 0 .. 37 PROVE memory'[50 * p + k] = w[k + 1]
  <2> DEFINE a == 50 * p + k
  <2>1. a \in 0 .. MEMORY - 1 /\ a \in 50 * p .. 50 * p + 40 /\ a - 50 * p + 1 = k + 1
    BY <1>1
  <2> HIDE DEF a
  <2>2. memory'[a] = w[k + 1]
    BY <1>1, <1>2, <2>1
  <2> QED BY <2>2 DEF a
<1>4. ASSUME NEW q \in Created \ {p}, NEW k \in 0 .. 37
      PROVE  memory'[50 * q + k] = memory[50 * q + k]
  <2> DEFINE a == 50 * q + k
  <2>1. a \in 0 .. MEMORY - 1 /\ a \notin 50 * p .. 50 * p + 40
    BY <1>1
  <2> HIDE DEF a
  <2>2. memory'[a] = memory[a]
    BY <1>1, <1>2, <2>1
  <2> QED BY <2>2 DEF a
<1>5. DOMAIN memory' = DOMAIN memory
  BY <1>2
<1> QED BY <1>3, <1>4, <1>5, Zenon DEF w

LEMMA EaterBegins ==
  ASSUME NEW p, \A k \in 0 .. 37 : WordAt(p, k)' = Philosopher.words[k + 1],
         pcb'[p].IC = 0, p \notin Blocked'
  PROVE  Eating(p)'
<1>1. HasEatersWords(p)'
  BY DEF HasEatersWords, EatersFixed
<1>2. HasOwnWords(p, 0)'
  <2>1. /\ WordAt(p, 15)' = Instr("PE", 0) /\ WordAt(p, 28)' = Instr("PE", 0)
        /\ WordAt(p, 32)' = Instr("VE", 0) /\ WordAt(p, 36)' = Instr("VE", 0)
    BY PhilosopherWords
  <2> QED BY <2>1 DEF HasOwnWords
<1>3. \A r : HasRegister(p, 0, r)
  BY DEF HasRegister
<1>4. HasForks(p, 0)'
  BY DEF HasForks
<1> QED BY <1>1, <1>2, <1>3, <1>4 DEF Eating

LEMMA BornExecs ==
  ASSUME PhilosopherMachine, PhilosopherInv, [PoliteNext]_vars, Execute,
         NEW p \in 1 .. 3, p = current, Born(p), pcb[p].IC = 36
  PROVE  Eating(p)' /\ OthersGoOn
<1>1. /\ p \in Created /\ p \in PCBs /\ p \notin Blocked /\ Created \subseteq PCBs
      /\ numPID \in 1 .. 4 /\ numPID \in PCBs /\ numPID \notin Created
  BY Runner, Here DEF PhilosopherInv, Created, PCBs
<1>2. Fetched = Instr("EX", "PH")
  <2>1. HasForkersWords(p)
    BY DEF Born
  <2>2. Fetched = Philosophers.words[37]
    BY <2>1, ForkerAt
  <2> QED BY <2>2, PhilosophersWords
<1>3. ExecStep
  BY <1>2, Decoded DEF Instr
<1>4. /\ Tick /\ A!Load(p, 50, 41) /\ shared' = shared /\ Registers(R, SP, C, 0)
      /\ LoadFile(50 * p, Philosopher.words)
      /\ HoleFrom(heap', 50 * numPID)
  BY <1>1, <1>2, <1>3, PhilosopherExecs
<1>5. /\ numPID' = numPID /\ current' = current /\ Blocked' = Blocked /\ status' = status
  BY <1>4, Ticks
<1>6. /\ DOMAIN br' = PCBs /\ DOMAIN lr' = PCBs /\ memoryNum' = memoryNum
      /\ \A q \in Created : br'[q] = 50 * q /\ lr'[q] = 50
  <2>1. /\ br' = [br EXCEPT ![numPID] = A!Location(A!AfterRelease(heap, br[p], lr[p]), 50)]
        /\ lr' = [lr EXCEPT ![p] = 50] /\ memoryNum' = memoryNum
    BY <1>4 DEF A!Load, A!Request
  <2> QED BY <1>1, <2>1, Here
<1>7. /\ DOMAIN memory' = DOMAIN memory
      /\ \A k \in 0 .. 37 : memory'[50 * p + k] = Philosopher.words[k + 1]
      /\ \A q \in Created \ {p} : \A k \in 0 .. 37 : memory'[50 * q + k] = memory[50 * q + k]
  BY <1>1, <1>4, PhilosopherLoaded
<1>8. /\ DOMAIN pcb' = PCBs /\ pcb'[p].IC = 0 /\ \A q \in PCBs \ {p} : pcb'[q] = pcb[q]
  <2>1. Becomes(R, C, 0)
    BY <1>4 DEF Registers, Becomes
  <2>2. /\ DOMAIN pcb' = PCBs /\ pcb'[current].IC = 0
        /\ \A q \in PCBs \ {current} : pcb'[q] = pcb[q]
    BY <1>1, <2>1, BecomesSo, Here
  <2> QED BY <1>5, <2>2
<1>9. Eating(p)'
  <2>1. \A k \in 0 .. 37 : WordAt(p, k)' = Philosopher.words[k + 1]
    BY <1>1, <1>6, <1>7 DEF WordAt
  <2> QED BY <1>1, <1>5, <1>8, <2>1, EaterBegins
<1>10. ASSUME NEW q \in Created \ {p} PROVE SameLife(q) /\ OtherTurn(q)
  <2>1. \A k \in 0 .. 37 : WordAt(q, k)' = WordAt(q, k)
    <3>1. br'[q] = 50 * q /\ br[q] = 50 * q
      BY <1>6, Here
    <3>2. \A k \in 0 .. 37 : memory'[50 * q + k] = memory[50 * q + k]
      BY <1>7
    <3> QED BY <3>1, <3>2, Zenon DEF WordAt
  <2>2. OtherTurn(q)
    BY <1>1, <1>4, OthersTurn, Here
  <2> QED BY <1>1, <1>8, <2>1, <2>2 DEF SameLife
<1>11. Placement'
  BY <1>1, <1>4, <1>5, <1>6 DEF PhilosopherInv, Placement, Created, HoleFrom
<1>12. Functions'
  BY <1>4, <1>6, <1>7, <1>8, Here DEF Functions
<1> QED BY <1>5, <1>9, <1>10, <1>11, <1>12 DEF OthersGoOn
-----------------------------------------------------------------------------
(***************************************************************************)
(* FK: the first hole has 50 words for the next philosopher.               *)
(***************************************************************************)
LEMMA PhilosopherForks ==
  ASSUME PhilosopherMachine, PhilosopherInv, 0 = current, numPID < 4, ForkStep
  PROVE  /\ MakeClone /\ CopyProgram /\ CloneRegisters /\ shared' = shared
         /\ HoleFrom(heap', 50 * (numPID + 1)) /\ memoryNum' = memoryNum + 50
         /\ br' = [br EXCEPT ![numPID] = 50 * numPID] /\ lr' = [lr EXCEPT ![numPID] = 50]
         /\ A!Location(heap, 50) = 50 * numPID
<1>1. /\ br[0] = 0 /\ lr[0] = 50 /\ HoleFrom(heap, 50 * numPID) /\ memoryNum = 50 * numPID - 12
      /\ numPID \in 1 .. 3 /\ MEMORY > 250 /\ MEMORY \in Nat /\ NPROC > 4
  BY Here DEF PhilosopherInv, Placement, PhilosopherMachine
<1>2. /\ 50 \in Nat \ {0} /\ 50 * numPID \in Nat /\ 50 < MEMORY - 50 * numPID
      /\ 50 * numPID + 50 = 50 * (numPID + 1)
  BY <1>1
<1>3. /\ ~ A!Refuses(heap, 50) /\ ~ A!Overruns(heap, 50) /\ A!Location(heap, 50) = 50 * numPID
      /\ HoleFrom(A!AfterRequest(heap, 50), 50 * (numPID + 1))
  BY <1>1, <1>2, FirstHole
<1>4. ~ A!Insufficient(0)
  BY <1>1 DEF A!Insufficient
<1>5. ~ A!ForkFails(current)
  BY <1>1, <1>3 DEF A!ForkFails, A!RequestFails, A!CopyOverruns
<1>6. ~ A!NoClone(current)
  BY <1>4 DEF A!NoClone
<1>7. MakeClone /\ A!Clone(0) /\ CopyProgram /\ CloneRegisters /\ shared' = shared
  BY <1>5, <1>6 DEF ForkStep
<1>8. /\ heap' = A!AfterRequest(heap, 50) /\ br' = [br EXCEPT ![numPID] = 50 * numPID]
      /\ lr' = [lr EXCEPT ![numPID] = 50] /\ memoryNum' = memoryNum + 50
  BY <1>1, <1>3, <1>7 DEF A!Clone, A!Request
<1> QED BY <1>3, <1>7, <1>8

LEMMA PhilosopherCopied ==
  ASSUME PhilosopherMachine, PhilosopherInv, 0 = current, numPID < 4, CopyProgram,
         A!Location(heap, 50) = 50 * numPID
  PROVE  /\ DOMAIN memory' = DOMAIN memory
         /\ \A k \in 0 .. 37 : memory'[50 * numPID + k] = memory[k]
         /\ \A q \in Created : \A k \in 0 .. 37 : memory'[50 * q + k] = memory[50 * q + k]
<1> DEFINE b == 50 * numPID
<1>1. /\ MEMORY > 250 /\ MEMORY \in Nat /\ DOMAIN memory = 0 .. MEMORY - 1 /\ numPID \in 1 .. 3
      /\ lr[0] = 50 /\ br[0] = 0
  BY Here
<1>2. memory' = [a \in DOMAIN memory |-> IF a \in b .. b + 49 THEN memory[0 + (a - b)] ELSE memory[a]]
  <2>1. A!Block(b, 50) = b .. b + 49
    BY <1>1 DEF A!Block
  <2>2. \A a \in b .. b + 49 : CopySource(b, a - b) = 0 + (a - b)
    <3>1. b \in Nat /\ b >= 50 /\ b # 0
      BY <1>1
    <3> HIDE DEF b
    <3> QED BY <1>1, <3>1, BelowModulus DEF CopySource
  <2>3. memory' = [a \in DOMAIN memory |->
                     IF a \in A!Block(b, 50) THEN memory[CopySource(b, a - b)] ELSE memory[a]]
    BY <1>1 DEF CopyProgram
  <2> HIDE DEF b
  <2> QED BY <2>1, <2>2, <2>3
<1>3. ASSUME NEW k \in 0 .. 37 PROVE memory'[b + k] = memory[k]
  <2> DEFINE a == b + k
  <2>1. a \in 0 .. MEMORY - 1 /\ a \in b .. b + 49 /\ 0 + (a - b) = k
    BY <1>1
  <2> HIDE DEF a
  <2>2. memory'[a] = memory[k]
    BY <1>1, <1>2, <2>1
  <2> QED BY <2>2 DEF a
<1>4. ASSUME NEW q \in Created, NEW k \in 0 .. 37
      PROVE  memory'[50 * q + k] = memory[50 * q + k]
  <2> DEFINE a == 50 * q + k
  <2>1. a \in 0 .. MEMORY - 1 /\ a \notin b .. b + 49
    BY <1>1 DEF Created
  <2> HIDE DEF a
  <2>2. memory'[a] = memory[a]
    BY <1>1, <1>2, <2>1
  <2> QED BY <2>2 DEF a
<1>5. DOMAIN memory' = DOMAIN memory
  BY <1>2
<1> QED BY <1>3, <1>4, <1>5, Zenon DEF b

LEMMA ForkerForks ==
  ASSUME PhilosopherMachine, PhilosopherInv, [PoliteNext]_vars, Execute,
         0 = current, pcb[0].IC = 20, NEW n, n = numPID
  PROVE  /\ Forking' /\ Born(n)' /\ numPID' = n + 1 /\ current' = current
         /\ status' = status
         /\ Placement' /\ Functions'
         /\ \A q \in Created \ {0} : SameLife(q) /\ OtherTurn(q)
<1>1. /\ HasForkersWords(0) /\ 0 \notin Blocked /\ numPID < 4 /\ n \in 1 .. 3
      /\ WordAt(0, 3) = Data(3 - n)
  BY Here DEF PhilosopherInv, Forking, ForkersState, ToFork
<1>2. /\ 0 \in PCBs /\ Created \subseteq PCBs /\ n \in PCBs /\ n \notin Created
      /\ n # 0 /\ 0 \in Created /\ n \notin Blocked
      /\ Created = 0 .. n - 1
  BY <1>1, Runner, Here DEF PhilosopherInv, Created
<1>3. ForkStep /\ NextIC = 21
  <2>1. Fetched = FK /\ NextIC = 21
    BY <1>1, ForkerAt, PhilosophersWords
  <2> QED BY <2>1, Decoded DEF FK, Instr
<1>4. /\ MakeClone /\ CopyProgram /\ CloneRegisters /\ shared' = shared
      /\ HoleFrom(heap', 50 * (n + 1)) /\ memoryNum' = memoryNum + 50
      /\ br' = [br EXCEPT ![n] = 50 * n] /\ lr' = [lr EXCEPT ![n] = 50]
      /\ A!Location(heap, 50) = 50 * n
  BY <1>1, <1>3, PhilosopherForks
<1>5. numPID' = n + 1 /\ current' = current /\ Blocked' = Blocked /\ status' = status
  BY <1>4 DEF MakeClone, Blocked
<1>6. /\ DOMAIN br' = PCBs /\ DOMAIN lr' = PCBs /\ br'[n] = 50 * n /\ lr'[n] = 50
      /\ \A q \in Created : br'[q] = 50 * q /\ lr'[q] = 50 /\ br[q] = 50 * q
  BY <1>2, <1>4, Here
<1>7. /\ DOMAIN memory' = DOMAIN memory
      /\ \A k \in 0 .. 37 : memory'[50 * n + k] = memory[k]
      /\ \A q \in Created : \A k \in 0 .. 37 : memory'[50 * q + k] = memory[50 * q + k]
  BY <1>1, <1>4, PhilosopherCopied
<1>8. ASSUME NEW q \in Created, NEW k \in 0 .. 37 PROVE WordAt(q, k)' = WordAt(q, k)
  <2>1. br'[q] = 50 * q /\ br[q] = 50 * q
    BY <1>6
  <2>2. memory'[50 * q + k] = memory[50 * q + k]
    BY <1>7
  <2> QED BY <2>1, <2>2, Zenon DEF WordAt
<1>9. ASSUME NEW k \in 0 .. 37 PROVE WordAt(n, k)' = WordAt(0, k)
  <2>1. br'[n] = 50 * n /\ br[0] = 0 /\ 0 + k = k
    BY <1>2, <1>6
  <2>2. memory'[50 * n + k] = memory[k]
    BY <1>7
  <2> QED BY <2>1, <2>2 DEF WordAt
<1>10. /\ pcb'[0].R = Data(n) /\ pcb'[0].IC = 21 /\ pcb'[n].R = Data(0) /\ pcb'[n].IC = 21
       /\ DOMAIN pcb' = PCBs /\ \A q \in PCBs \ {0, n} : pcb'[q] = pcb[q]
  BY <1>2, <1>3, <1>4, Here DEF CloneRegisters
<1>11. HasForkersWords(0)' /\ HasForkersWords(n)' /\ WordAt(0, 3)' = Data(3 - n)
  <2>1. /\ \A k \in 0 .. 37 : WordAt(0, k)' = WordAt(0, k)
        /\ \A k \in 0 .. 37 : WordAt(n, k)' = WordAt(0, k)
    BY <1>2, <1>8, <1>9
  <2>2. \A k \in ForkersFixed : k \in 0 .. 37
    BY DEF ForkersFixed
  <2> QED BY <1>1, <2>1, <2>2 DEF HasForkersWords
<1>12. Forking'
  <2>1. ToFork(21)' = 3 - n /\ \A c : ForkersState(21, Data(n), c)'
    BY <1>1, <1>5 DEF ToFork, ForkersState
  <2> QED BY <1>1, <1>5, <1>10, <1>11, <2>1 DEF Forking
<1>13. Born(n)'
  BY <1>2, <1>5, <1>10, <1>11 DEF Born
<1>14. Placement'
  <2>1. Created' = Created \cup {n} /\ numPID' \in 1 .. 4 /\ memoryNum' = 50 * (n + 1) - 12
    BY <1>1, <1>2, <1>4, <1>5 DEF Created, PhilosopherInv, Placement
  <2>2. HoleFrom(heap, 50 * numPID)'
    BY <1>4, <1>5 DEF HoleFrom
  <2> QED BY <1>5, <1>6, <2>1, <2>2 DEF Placement
<1>15. Functions'
  BY <1>4, <1>6, <1>7, <1>10, Here DEF Functions
<1>16. ASSUME NEW q \in Created \ {0} PROVE SameLife(q) /\ OtherTurn(q)
  <2>1. OtherTurn(q)
    BY <1>2, <1>4, OthersTurn, Here
  <2>2. q \in PCBs \ {0, n}
    BY <1>2
  <2> QED BY <1>8, <1>10, <2>1, <2>2 DEF SameLife
<1> QED BY <1>5, <1>12, <1>13, <1>14, <1>15, <1>16
-----------------------------------------------------------------------------
(***************************************************************************)
(* The invariant.                                                          *)
(***************************************************************************)
LEMMA TheOthers ==
  ASSUME PhilosopherMachine, PhilosopherInv, NEW q \in Created \ {0}, SameLife(q), OtherTurn(q)
  PROVE  Born(q)' \/ Eating(q)'
<1>1. q \in 1 .. 3
  BY Here
<1>2. Born(q) \/ Eating(q)
  BY DEF PhilosopherInv
<1> QED BY <1>1, <1>2, LifeKept

LEMMA PhilosopherMoves ==
  ASSUME PhilosopherMachine, PhilosopherInv, [PoliteNext]_vars, Execute,
         NEW p \in 1 .. 3, p = current
  PROVE  (Born(p)' \/ Eating(p)') /\ OthersGoOn
<1>1. Born(p) \/ Eating(p)
  BY Runner DEF PhilosopherInv
<1>2. CASE Born(p) /\ pcb[p].IC = 36
  BY <1>2, BornExecs
<1>3. CASE Born(p) /\ pcb[p].IC # 36
  BY <1>3, BornStep, OwnStepGoesOn
<1>4. CASE Eating(p)
  BY <1>4, EaterStep, OwnStepGoesOn
<1> QED BY <1>1, <1>2, <1>3, <1>4

LEMMA PhilosopherExecutes ==
  ASSUME PhilosopherMachine, PhilosopherInv, [PoliteNext]_vars, Execute
  PROVE  /\ Placement' /\ Functions' /\ Forking' /\ status' = status
         /\ \A q \in Created' \ {0} : Born(q)' \/ Eating(q)'
<1>1. PICK n : n = numPID
  OBVIOUS
<1>2. PICK p : p = current
  OBVIOUS
<1>3. n \in 1 .. 4 /\ p \in 0 .. 3 /\ p \in Created /\ Created = 0 .. n - 1 /\ Forking
  BY <1>1, <1>2, Runner, Here DEF PhilosopherInv, Created
<1>4. numPID' = n => Created' = Created
  BY <1>1 DEF Created
<1>5. CASE p = 0 /\ pcb[0].IC = 20
  <2>1. /\ Forking' /\ Born(n)' /\ numPID' = n + 1 /\ Placement' /\ Functions' /\ status' = status
        /\ \A q \in Created \ {0} : SameLife(q) /\ OtherTurn(q)
    BY <1>1, <1>2, <1>5, ForkerForks
  <2>2. Created' = Created \cup {n}
    <3>1. Created' = 0 .. (n + 1) - 1
      BY <2>1 DEF Created
    <3>2. 0 .. (n + 1) - 1 = 0 .. n - 1 \cup {n}
      BY <1>3
    <3> QED BY <1>3, <3>1, <3>2
  <2> QED BY <2>1, <2>2, TheOthers
<1>6. CASE p = 0 /\ pcb[0].IC # 20
  <2>1. Forking' /\ OthersGoOn
    BY <1>2, <1>6, ForkerStep, OwnStepGoesOn
  <2> QED BY <1>1, <1>2, <1>4, <1>6, <2>1, TheOthers DEF OthersGoOn
<1>7. CASE p # 0
  <2>1. (Born(p)' \/ Eating(p)') /\ OthersGoOn
    BY <1>2, <1>3, <1>7, PhilosopherMoves
  <2>2. /\ numPID' = numPID /\ Placement' /\ Functions' /\ status' = status
        /\ \A q \in Created \ {p} : SameLife(q) /\ OtherTurn(q)
    BY <1>2, <2>1 DEF OthersGoOn
  <2>3. 0 \in Created \ {p}
    BY <1>3, <1>7
  <2>4. Forking'
    BY <1>3, <2>2, <2>3, ForkingKept
  <2>5. \A q \in Created \ {0} : Born(q)' \/ Eating(q)'
    BY <2>1, <2>2, TheOthers
  <2> QED BY <1>1, <1>4, <2>2, <2>4, <2>5
<1> QED BY <1>5, <1>6, <1>7

LEMMA PhilosophersStay ==
  ASSUME PhilosopherInv,
         UNCHANGED <<pcb, memory, shared, allocation, numPID, bq, blockedOn, semaphore>>
  PROVE  /\ Placement' /\ Functions' /\ Forking'
         /\ \A q \in Created' \ {0} : Born(q)' \/ Eating(q)'
<1>1. /\ pcb' = pcb /\ memory' = memory /\ shared' = shared /\ heap' = heap /\ br' = br
      /\ lr' = lr /\ memoryNum' = memoryNum /\ numPID' = numPID /\ Blocked' = Blocked
      /\ blockedOn' = blockedOn /\ \A s : Holder(s)' = Holder(s)
  BY DEF allocation, Blocked, Holder
<1>2. Placement' /\ Functions'
  BY <1>1 DEF PhilosopherInv, Placement, Functions, HoleFrom, Created
<1>3. \A q, k : WordAt(q, k)' = WordAt(q, k)
  BY <1>1 DEF WordAt
<1>4. Forking'
  <2>1. HasForkersWords(0)'
    BY <1>3 DEF PhilosopherInv, Forking, HasForkersWords
  <2>2. \A ic, r, c : ToFork(ic)' = ToFork(ic) /\ ForkersState(ic, r, c)' = ForkersState(ic, r, c)
    BY <1>1 DEF ToFork, ForkersState
  <2> QED BY <1>1, <1>3, <2>1, <2>2 DEF PhilosopherInv, Forking
<1>5. ASSUME NEW q \in Created \ {0} PROVE Born(q)' \/ Eating(q)'
  <2>1. Born(q) \/ Eating(q)
    BY DEF PhilosopherInv
  <2>2. Born(q) => Born(q)'
    BY <1>1, <1>3 DEF Born, HasForkersWords
  <2>3. Eating(q) => Eating(q)'
    <3>1. PICK ic : ic = pcb[q].IC
      OBVIOUS
    <3>2. HasEatersWords(q)' = HasEatersWords(q) /\ HasOwnWords(q, ic)' = HasOwnWords(q, ic)
      BY <1>3 DEF HasEatersWords, HasOwnWords
    <3>3. HasForks(q, ic)' = HasForks(q, ic)
      BY <1>1 DEF HasForks
    <3> QED BY <1>1, <3>1, <3>2, <3>3 DEF Eating
  <2> QED BY <2>1, <2>2, <2>3
<1>6. Created' = Created
  BY <1>1 DEF Created
<1> QED BY <1>2, <1>4, <1>5, <1>6

LEMMA ForkerFetches ==
  ASSUME NEW p, p = current, HasForkersWords(p), NEW ic \in {0} \cup (11 .. 37), ic = pcb[p].IC
  PROVE  \/ Fetched.op \in {"BU", "NP", "LR", "CE", "BT", "SU", "AD", "LL", "H"}
         \/ Fetched = Instr("SR", 2) \/ Fetched = Instr("SR", 3) \/ Fetched = Instr("SR", 4)
         \/ Fetched = FK
         \/ Fetched = Instr("EX", "PH")
<1>1. Fetched = Philosophers.words[ic + 1]
  BY ForkerAt
<1>2. CASE ic \in {0, 11, 12, 13, 14, 15, 16, 17, 18, 19}
  BY <1>1, <1>2, PhilosophersWords DEF Instr, NP
<1>3. CASE ic \in {20, 21, 22, 23, 24, 25, 26, 27, 28}
  BY <1>1, <1>3, PhilosophersWords DEF Instr, NP
<1>4. CASE ic \in {29, 30, 31, 32, 33, 34, 35, 36, 37}
  BY <1>1, <1>4, PhilosophersWords DEF Instr, NP, H
<1> QED BY <1>2, <1>3, <1>4

LEMMA EaterFetches ==
  ASSUME NEW p \in 1 .. 3, p = current, Eating(p), NEW ic, ic = pcb[p].IC, ic # 38
  PROVE  \/ Fetched.op \in {"BU", "GP", "SU", "NP", "LR", "LL", "AD", "DI", "MU", "VE", "H"}
         \/ \E a \in 0 .. 37 : Fetched = Instr("SR", a)
         \/ Fetched.op = "PE" /\ ic \in {15, 28}
<1>1. /\ ic \in {0} \cup (8 .. 37) /\ HasOwnWords(p, ic)
      /\ ic \notin {15, 28, 32, 36} => Fetched = Philosopher.words[ic + 1]
      /\ ic \in {15, 28, 32, 36} => Fetched = WordAt(p, ic)
  BY EaterAt
<1>2. CASE ic \in EaterWrites
  <2>1. EaterWritesTo(ic) \in 0 .. 37
    BY <1>2 DEF EaterWrites, EaterWritesTo
  <2> QED BY <1>2, <2>1, EaterWritesWhat
<1>3. CASE ic \in {15, 28, 32, 36}
  BY <1>1, <1>3 DEF HasOwnWords, Instr
<1>4. CASE ic \in {0, 8, 9, 11, 12, 13, 16, 17, 19, 20}
  BY <1>1, <1>4, PhilosopherWords DEF Instr, NP, GP
<1>5. CASE ic \in {22, 23, 25, 26, 29, 30, 33, 34, 37}
  BY <1>1, <1>5, PhilosopherWords DEF Instr, H
<1> QED BY <1>1, <1>2, <1>3, <1>4, <1>5 DEF EaterWrites

LEMMA PhilosopherFetches ==
  ASSUME PhilosopherMachine, PhilosopherInv, status = "running", tdma < TDMA_Setting
  PROVE  \/ Fetched.op \notin {"SI", "SR", "PH", "FK", "EX"} \cup OnTheStack
         \/ \E a \in 0 .. 37 : Fetched = Instr("SR", a)
         \/ Fetched = FK
         \/ Fetched = Instr("EX", "PH")
<1>1. PICK p, ic : p = current /\ ic = pcb[p].IC
  OBVIOUS
<1>2. p \in Created /\ p \in 0 .. 3
  BY <1>1, Scheduled, Here
<1>3. blockedOn[p] # HaltInstr
  <2>1. Placed
    BY Here DEF PoliteInv, IInv
  <2> QED BY <1>1, <1>2, <2>1 DEF Placed, EveryProcessAccounted, EachInOnePlace, Halted
<1>4. CASE p # 0 /\ Eating(p)
  <2>1. ic # 38
    BY <1>1, <1>3, <1>4 DEF Eating, HasForks
  <2>2. p \in 1 .. 3
    BY <1>2, <1>4
  <2> QED BY <1>1, <1>4, <2>1, <2>2, EaterFetches DEF OnTheStack
<1>5. CASE p = 0 \/ Born(p)
  <2>1. HasForkersWords(p) /\ ic \in {0} \cup (11 .. 37)
    BY <1>1, <1>3, <1>5 DEF PhilosopherInv, Forking, ForkersState, Born
  <2> QED BY <1>1, <2>1, ForkerFetches DEF OnTheStack
<1> QED BY <1>2, <1>4, <1>5 DEF PhilosopherInv

LEMMA PhilosophersBehave ==
  ASSUME PhilosopherMachine, PhilosopherInv
  PROVE  WellBehaved
<1>1. CASE status = "running" /\ tdma < TDMA_Setting
  <2>1. Fetched.op \notin {"SI", "PH"} \cup OnTheStack
    BY <1>1, PhilosopherFetches DEF OnTheStack, Instr, FK
  <2>2. /\ current \in Created /\ lr[current] = 50 /\ br[current] = 50 * current
        /\ numPID \in 1 .. 4 /\ current \in 0 .. numPID - 1 /\ HoleFrom(heap, 50 * numPID)
        /\ MEMORY > 250 /\ MEMORY \in Nat /\ NSPACES > 1
    BY <1>1, Scheduled, Here DEF Created, PhilosopherInv, Placement, PhilosopherMachine
  <2>3. Fetched.op = "SR" => Fetched.arg \in OwnOffsets
    <3>1. SUFFICES ASSUME Fetched.op = "SR" PROVE Fetched.arg \in OwnOffsets
      OBVIOUS
    <3>2. \E a \in 0 .. 37 : Fetched = Instr("SR", a)
      BY <1>1, <3>1, PhilosopherFetches DEF Instr, FK
    <3>3. Fetched.arg \in 0 .. 37
      BY <3>2 DEF Instr
    <3> QED BY <2>2, <3>3 DEF OwnOffsets
  <2>4. A!UsesLastHole(heap, lr[current])
    <3>1. 50 \in Nat \ {0} /\ 50 * numPID \in Nat /\ 50 < MEMORY - 50 * numPID
      BY <2>2
    <3> QED BY <2>2, <3>1, FirstHole
  <2>5. Fetched.op = "EX" => A!GetsOwnMemory(current, Files[Fetched.arg].length)
    <3>1. SUFFICES ASSUME Fetched.op = "EX"
                   PROVE  A!GetsOwnMemory(current, Files[Fetched.arg].length)
      OBVIOUS
    <3>2. Fetched = Instr("EX", "PH")
      BY <1>1, <3>1, PhilosopherFetches DEF Instr, FK
    <3>3. Files[Fetched.arg].length = 50
      BY <3>2, FilesOfPhilosophers, PhilosopherWords DEF Instr
    <3>4. A!GetsOwnMemory(current, 50)
      BY <2>2, PhilosopherLoads DEF A!GetsOwnMemory
    <3> QED BY <3>3, <3>4
  <2> QED BY <2>1, <2>3, <2>4, <2>5
          DEF WellBehaved, StoresRegs, AddressesOwnWords, AllocatesCarefully, Runs
<1>2. CASE ~ (status = "running" /\ tdma < TDMA_Setting)
  BY <1>2 DEF WellBehaved, StoresRegs, AddressesOwnWords, AllocatesCarefully, Runs
<1> QED BY <1>1, <1>2

LEMMA PhilosophersEat ==
  ASSUME PhilosopherMachine, PhilosopherInv
  PROVE  EatsWithBothForks
<1> SUFFICES ASSUME NEW p \in Created, Philosophizes(p), pcb[p].IC \in 29 .. 32, p \notin Blocked
             PROVE  Holder(p - 1) = p /\ Holder(p % 3) = p
  BY DEF EatsWithBothForks
<1>1. p \in 1 .. 3
  BY Here DEF Philosophizes
<1>2. Eating(p)
  BY <1>1 DEF PhilosopherInv, Born
<1>3. PICK ic : ic = pcb[p].IC
  OBVIOUS
<1>4. Holder(First(p)) = p /\ Holder(Second(p)) = p
  BY <1>2, <1>3 DEF Eating, HasForks
<1>5. Second(p) = p % 3 /\ First(p) = p - 1
  BY <1>1, ForkNumbers DEF First
<1> QED BY <1>4, <1>5

-----------------------------------------------------------------------------
(***************************************************************************)
(* The rings never come to their last slot.                                *)
(***************************************************************************)
LEMMA FewPEs ==
  /\ \A p : PEsOf(p) \in 0 .. 2
  /\ \A p : PEsOf(p)' \in 0 .. 2
BY DEF PEsOf

LEMMA SixWaits ==
  ASSUME PhilosopherMachine, FewWait'
  PROVE  FirstLap'
<1>1. PICK n : n = PEsOf(1)' + PEsOf(2)' + PEsOf(3)'
  OBVIOUS
<1>2. n \in 0 .. 6
  BY <1>1, FewPEs
<1>3. \A s \in Semas : semaphore'[s].tail \in 0 .. n
  BY <1>1 DEF FewWait, Semas
<1>4. WLEN \in Nat /\ WLEN > 7
  BY SemAssumption DEF PhilosopherMachine
<1> QED BY <1>2, <1>3, <1>4 DEF FirstLap, LastSlot, Semas

\* Only a PE moves a tail, and by one.
LEMMA TailStays ==
  ASSUME PoliteInv, NEW s, VE(s), NEW t \in Semas
  PROVE  semaphore'[t].tail = semaphore[t].tail
<1>1. semaphore \in [Semas -> SemRecord]
  BY DEF PoliteInv, IInv, SemTypeOK
<1>2. CASE Free(s)
  BY <1>1, <1>2 DEF Free
<1>3. CASE HandOver(s)
  BY <1>1, <1>3 DEF HandOver, Deqwait
<1> QED BY <1>2, <1>3 DEF VE, Release, SemExit

LEMMA TailMoves ==
  ASSUME PoliteInv, NEW s, PE(s), NEW t \in Semas
  PROVE  semaphore'[t].tail \in {semaphore[t].tail, semaphore[t].tail + 1}
<1>1. semaphore \in [Semas -> SemRecord]
  BY DEF PoliteInv, IInv, SemTypeOK
<1>2. \A u \in Semas : semaphore[u].tail # LastSlot
  BY <1>1 DEF PoliteInv, FirstLap, SemRecord
<1>3. CASE s \in Semas /\ Acquire(s)
  BY <1>1, <1>3 DEF Acquire
<1>4. CASE s \in Semas /\ WaitFor(s)
  BY <1>1, <1>2, <1>4 DEF WaitFor, Enqwait
<1> QED BY <1>3, <1>4 DEF PE, SemExit

LEMMA GivesOnly ==
  ASSUME Execute, Fetched.op \notin {"PE", "SI"}
  PROVE  UNCHANGED semaphore \/ \E s : VE(s)
<1>1. ASSUME Tick \/ Halt \/ MakeClone \/ \E how : Abort(how) PROVE UNCHANGED semaphore
  BY <1>1 DEF Tick, Halt, MakeClone, Abort
<1>2. CASE LocalStep(Fetched)
  BY <1>1, <1>2 DEF LocalStep
<1>3. CASE SharedStep(Fetched)
  BY <1>1, <1>3 DEF SharedStep
<1>4. CASE ForkStep \/ ExecStep
  BY <1>1, <1>4 DEF ForkStep, ExecStep
<1> QED BY <1>2, <1>3, <1>4 DEF Execute

\* Whoever does not run lives on.
LEMMA OthersLive ==
  ASSUME PhilosopherMachine, PhilosopherInv, [PoliteNext]_vars, Execute
  PROVE  /\ Created \subseteq Created'
         /\ \A q \in Created \ {0, current} : SameLife(q) /\ OtherTurn(q)
<1>1. PICK n : n = numPID
  OBVIOUS
<1>2. current \in 0 .. 3 /\ n \in 1 .. 4 /\ Created = 0 .. n - 1
  BY <1>1, Runner, Here DEF PhilosopherInv, Created
<1>3. CASE 0 = current /\ pcb[0].IC = 20
  <2>1. numPID' = n + 1 /\ \A q \in Created \ {0} : SameLife(q) /\ OtherTurn(q)
    BY <1>1, <1>3, ForkerForks
  <2>2. Created' = 0 .. (n + 1) - 1
    BY <2>1 DEF Created
  <2>3. 0 .. n - 1 \subseteq 0 .. (n + 1) - 1
    BY <1>2
  <2> QED BY <1>2, <2>1, <2>2, <2>3
<1>4. CASE 0 = current /\ pcb[0].IC # 20
  BY <1>4, ForkerStep DEF OwnStep, Created
<1>5. CASE current # 0
  <2>1. current \in 1 .. 3
    BY <1>2, <1>5
  <2>2. OthersGoOn
    BY <2>1, PhilosopherMoves
  <2> QED BY <2>2 DEF OthersGoOn, Created
<1> QED BY <1>3, <1>4, <1>5

\* Who executes a PE.
LEMMA WhoAcquires ==
  ASSUME PhilosopherMachine, PhilosopherInv, Execute, Fetched.op = "PE"
  PROVE  current \in 1 .. 3 /\ Eating(current) /\ pcb[current].IC \in {15, 28}
<1>1. PICK p, ic : p = current /\ ic = pcb[p].IC
  OBVIOUS
<1>2. p \in Created /\ p \in 0 .. 3
  BY <1>1, Runner, Here
<1>3. blockedOn[p] # HaltInstr
  BY <1>1, NotHalted, Here
<1>4. CASE p # 0 /\ Eating(p)
  <2>1. ic # 38
    BY <1>1, <1>3, <1>4 DEF Eating, HasForks
  <2>2. p \in 1 .. 3
    BY <1>2, <1>4
  <2>3. \/ Fetched.op = "PE" /\ ic \in {15, 28}
        \/ Fetched.op # "PE"
    BY <1>1, <1>4, <2>1, <2>2, EaterFetches DEF Instr
  <2> QED BY <1>1, <1>4, <2>2, <2>3
<1>5. CASE p = 0 \/ Born(p)
  <2>1. HasForkersWords(p) /\ ic \in {0} \cup (11 .. 37)
    BY <1>1, <1>3, <1>5 DEF PhilosopherInv, Forking, ForkersState, Born
  <2>2. Fetched.op # "PE"
    BY <1>1, <2>1, ForkerFetches DEF Instr, FK
  <2> QED BY <2>2
<1> QED BY <1>2, <1>4, <1>5 DEF PhilosopherInv

\* A PE counts, and none is forgotten.
LEMMA PEsCount ==
  ASSUME PhilosopherMachine, PhilosopherInv, [PoliteNext]_vars, Execute, NEW q \in 1 .. 3
  PROVE  /\ PEsOf(q)' >= PEsOf(q)
         /\ q = current /\ Fetched.op = "PE" => PEsOf(q)' > PEsOf(q)
<1>1. Created \subseteq Created'
  BY OthersLive
<1>2. current \in Created
  BY Runner DEF PhilosopherInv
<1>3. CASE q \in Created /\ Eating(q) /\ q = current
  <2>1. PICK ic : ic = pcb[q].IC
    OBVIOUS
  <2>2. Eating(q)' /\ pcb'[q].IC = Following(ic)
    BY <1>3, <2>1, EaterStep
  <2>3. ic \in {0} \cup (8 .. 37)
    <3>1. blockedOn[q] # HaltInstr
      BY <1>3, NotHalted, Here
    <3>2. ic \in {0} \cup (8 .. 38) /\ ic # 38
      BY <1>3, <2>1, <3>1 DEF Eating, HasForks
    <3> QED BY <3>2
  <2>4. Fetched.op = "PE" => ic \in {15, 28}
    BY <1>3, <2>1, WhoAcquires
  <2>5. /\ PEsOf(q) = IF ic > 15 THEN IF ic > 28 THEN 2 ELSE 1 ELSE 0
        /\ PEsOf(q)' = IF Following(ic) > 15 THEN IF Following(ic) > 28 THEN 2 ELSE 1 ELSE 0
    BY <1>1, <1>3, <2>1, <2>2 DEF PEsOf
  <2> QED BY <2>3, <2>4, <2>5 DEF Following
<1>4. CASE q \in Created /\ Eating(q) /\ q # current
  <2>1. SameLife(q) /\ OtherTurn(q)
    BY <1>4, OthersLive
  <2>2. Eating(q)' /\ pcb'[q] = pcb[q]
    BY <1>4, <2>1, LifeKept DEF SameLife
  <2>3. PEsOf(q)' = PEsOf(q)
    BY <1>1, <1>4, <2>2 DEF PEsOf
  <2> QED BY <1>4, <2>3, FewPEs
<1>5. CASE ~ (q \in Created /\ Eating(q))
  <2>1. PEsOf(q) = 0
    BY <1>5 DEF PEsOf
  <2>2. ~ (q = current /\ Fetched.op = "PE")
    BY <1>2, <1>5, WhoAcquires
  <2> QED BY <2>1, <2>2, FewPEs
<1> QED BY <1>3, <1>4, <1>5

LEMMA FewWaitOn ==
  ASSUME PhilosopherMachine, PhilosopherInv, [PoliteNext]_vars, Execute, ~ Runs({"SI"})
  PROVE  FewWait'
<1> SUFFICES ASSUME NEW t \in Semas
             PROVE  semaphore'[t].tail \in 0 .. PEsOf(1)' + PEsOf(2)' + PEsOf(3)'
  BY DEF FewWait, Semas
<1> DEFINE old == semaphore[t].tail
           new == semaphore'[t].tail
<1>1. PICK a, b, c : a = PEsOf(1) /\ b = PEsOf(2) /\ c = PEsOf(3)
  OBVIOUS
<1>2. PICK x, y, z : x = PEsOf(1)' /\ y = PEsOf(2)' /\ z = PEsOf(3)'
  OBVIOUS
<1>3. /\ a \in 0 .. 2 /\ b \in 0 .. 2 /\ c \in 0 .. 2
      /\ x \in 0 .. 2 /\ y \in 0 .. 2 /\ z \in 0 .. 2
  BY <1>1, <1>2, FewPEs
<1>4. x >= a /\ y >= b /\ z >= c
  BY <1>1, <1>2, PEsCount
<1>5. old \in 0 .. a + b + c
  BY <1>1 DEF PhilosopherInv, FewWait
<1>6. new \in 0 .. x + y + z
  <2>1. CASE Fetched.op = "PE"
    <3>1. PE(Fetched.arg)
      BY <2>1, Decoded, SharedEffects
    <3>2. new \in {old, old + 1}
      BY <3>1, TailMoves, Here
    <3>3. current \in 1 .. 3
      BY <2>1, WhoAcquires
    <3>4. x > a \/ y > b \/ z > c
      BY <1>1, <1>2, <2>1, <3>3, PEsCount
    <3> HIDE DEF old, new
    <3> QED BY <1>3, <1>4, <1>5, <3>2, <3>4
  <2>2. CASE Fetched.op # "PE"
    <3>1. Fetched.op # "SI"
      BY DEF Runs, Execute
    <3>2. new = old
      BY <2>2, <3>1, GivesOnly, TailStays, Here
    <3> HIDE DEF old, new
    <3> QED BY <1>3, <1>4, <1>5, <3>2
  <2> QED BY <2>1, <2>2
<1> QED BY <1>2, <1>6

\* So it is at the end of a slice.
LEMMA FewWaitStays ==
  ASSUME PhilosopherMachine, PhilosopherInv,
         UNCHANGED <<pcb, memory, shared, allocation, numPID, bq, blockedOn, semaphore>>
  PROVE  FewWait'
<1>1. /\ pcb' = pcb /\ memory' = memory /\ br' = br /\ numPID' = numPID /\ Blocked' = Blocked
      /\ blockedOn' = blockedOn /\ \A s : Holder(s)' = Holder(s)
  BY DEF allocation, Blocked, Holder
<1>2. Created' = Created /\ \A q, k : WordAt(q, k)' = WordAt(q, k)
  BY <1>1 DEF WordAt, Created
<1>3. ASSUME NEW q PROVE Eating(q)' = Eating(q)
  <2>1. PICK ic : ic = pcb[q].IC
    OBVIOUS
  <2>2. HasEatersWords(q)' = HasEatersWords(q) /\ HasOwnWords(q, ic)' = HasOwnWords(q, ic)
    BY <1>2 DEF HasEatersWords, HasOwnWords
  <2>3. HasForks(q, ic)' = HasForks(q, ic)
    BY <1>1 DEF HasForks
  <2> QED BY <1>1, <2>1, <2>2, <2>3 DEF Eating
<1>4. \A q : PEsOf(q)' = PEsOf(q)
  BY <1>1, <1>2, <1>3 DEF PEsOf
<1> QED BY <1>4 DEF PhilosopherInv, FewWait, Semas

LEMMA PhilosopherStep ==
  ASSUME PhilosopherMachine, PhilosopherInv, [ExecuteNext]_machine
  PROVE  PhilosopherInv'
<1>1. Text = ProgramText /\ PoliteInv /\ IInv /\ ValuesTell
  BY DEF PhilosopherMachine, PhilosopherInv, PoliteInv
<1>2. StoresRegs /\ ~ Runs({"SI"})
  <2>1. ~ Runs({"SI"})
    BY PhilosopherFetches DEF Runs, Instr, FK
  <2> QED BY <2>1 DEF StoresRegs
<1>3. [PoliteNext]_vars
  BY <1>1, <1>2, ProgramStep
<1>4. EndSlice \/ Off \/ UNCHANGED machine =>
        UNCHANGED <<pcb, memory, shared, allocation, numPID, bq, blockedOn, semaphore>>
  BY DEF EndSlice, SliceEnd, ContextSwitch, NothingReady, Off, machine, vars, schedVars
<1>5. FewWait'
  BY <1>2, <1>3, <1>4, FewWaitOn, FewWaitStays DEF ExecuteNext
<1>6. FirstLap'
  BY <1>5, SixWaits
<1>7. PoliteInv'
  BY <1>1, <1>3, <1>6, NextPolite
<1>8. ValuesTell'
  BY <1>1, <1>2, ProgramTakesOrGives, Tells
<1>9. /\ Placement' /\ Functions' /\ Forking'
      /\ \A q \in Created' \ {0} : Born(q)' \/ Eating(q)'
  BY <1>3, <1>4, PhilosopherExecutes, PhilosophersStay DEF ExecuteNext
<1> QED BY <1>5, <1>7, <1>8, <1>9 DEF PhilosopherInv

LEMMA PhilosophersBoot ==
  ASSUME PhilosopherMachine, Boot
  PROVE  PhilosopherInv
<1>1. PoliteInv /\ ValuesTell
  BY InitPolite, InitTells DEF Boot, PhilosopherMachine
<1>2. PICK f \in Starts :
        /\ lr[0] = Files[f].length /\ memoryNum = Len(Files[f].words)
        /\ memory = [a \in 0 .. MEMORY - 1 |->
                       IF a < Len(Files[f].words) THEN Files[f].words[a + 1] ELSE Data(0)]
  BY DEF Boot
<1>3. Files[f] = Philosophers
  BY FilesOfPhilosophers DEF PhilosopherMachine
<1>4. /\ lr[0] = 50 /\ memoryNum = 38
      /\ memory = [a \in 0 .. MEMORY - 1 |-> IF a < 38 THEN Philosophers.words[a + 1] ELSE Data(0)]
  BY <1>2, <1>3, PhilosophersWords
<1>5. PICK length \in {Files[g].length : g \in DOMAIN Files} :
        /\ heap = A!Heap([i \in 0 .. NSPACES - 1 |->
                             IF i = 0 THEN A!MemBlock(MEMORY - length, length, 0)
                             ELSE A!MemBlock(0, 0, 0)], 1, 1, length)
        /\ br = [p \in PCBs |-> 0]
        /\ lr = [p \in PCBs |-> IF p = 0 THEN length ELSE 0]
  BY DEF Boot, A!Init, A!PCBs, PCBs
<1>6. 0 \in PCBs /\ 0 \in 0 .. NSPACES - 1 /\ MEMORY > 250 /\ MEMORY \in Nat
  BY SchedAssumption, MemoryAssumption DEF PCBs, PhilosopherMachine
<1>7. length = 50
  BY <1>4, <1>5, <1>6
<1>8. HoleFrom(heap, 50)
  BY <1>5, <1>6, <1>7 DEF HoleFrom, A!Heap
<1>9. \A k \in 0 .. 37 : WordAt(0, k) = Philosophers.words[k + 1]
  <2>1. br[0] = 0
    BY <1>5, <1>6
  <2>2. \A k \in 0 .. 37 : memory[0 + k] = Philosophers.words[k + 1]
    BY <1>4, <1>6
  <2> QED BY <2>1, <2>2 DEF WordAt
<1>10. numPID = 1 /\ status = "running" /\ Blocked = {} /\ Created = {0}
  BY DEF Boot, Init, SchedInit, Blocked, Range, Created
<1>11. pcb = [p \in PCBs |-> NewPCB] /\ shared = [s \in Semas |-> 0]
  BY DEF Boot
<1>12. Functions
  BY <1>4, <1>5, <1>11 DEF Functions
<1>13. Placement /\ FewWait
  <2>1. \A s \in Semas : semaphore[s].tail = 0
    BY DEF Boot, Init, SemInit
  <2>2. FewWait
    BY <2>1, FewPEs DEF FewWait
  <2> QED BY <2>2, <1>4, <1>5, <1>6, <1>8, <1>10 DEF Placement
<1>14. Forking
  <2>1. HasForkersWords(0)
    BY <1>9 DEF HasForkersWords, ForkersFixed
  <2>2. WordAt(0, 3) = Data(3) /\ ToFork(0) = 3
    BY <1>9, <1>10, PhilosophersWords DEF ToFork
  <2>3. pcb[0].IC = 0 /\ ForkersState(0, pcb[0].R, pcb[0].C)
    BY <1>6, <1>11 DEF NewPCB, ForkersState
  <2> QED BY <1>10, <2>1, <2>2, <2>3 DEF Forking
<1> QED BY <1>1, <1>10, <1>12, <1>13, <1>14 DEF PhilosopherInv

-----------------------------------------------------------------------------
(***************************************************************************)
(* What philosopherseman does, from the first step to the last.            *)
(***************************************************************************)
LEMMA PhilosopherInvariant ==
  ASSUME PhilosopherMachine
  PROVE  ProgramSpec => []PhilosopherInv
<1>1. Boot => PhilosopherInv
  BY PhilosophersBoot
<1>2. PhilosopherInv /\ [ExecuteNext]_machine => PhilosopherInv'
  BY PhilosopherStep
<1> QED BY <1>1, <1>2, PTL DEF ProgramSpec

(***************************************************************************)
(* A philosopher between its two acquisitions and its two releases holds   *)
(* both forks, wherever the slices end: the PE and VE that it executes are *)
(* the words that it has written, and name the forks of its PID.           *)
(***************************************************************************)
THEOREM PhilosophersHoldForks ==
  ASSUME PhilosopherMachine
  PROVE  ProgramSpec => []EatsWithBothForks
<1>1. PhilosopherInv => EatsWithBothForks
  BY PhilosophersEat
<1> QED BY <1>1, PhilosopherInvariant, PTL

(***************************************************************************)
(* The philosophers keep what the machine leaves to its programs: each     *)
(* writes its own words only, and every FK and EX gives a process its own  *)
(* memory, in whatever order the philosophers come to their EX.            *)
(***************************************************************************)
THEOREM PhilosophersBehaveWell ==
  ASSUME PhilosopherMachine
  PROVE  ProgramSpec => []WellBehaved
<1>1. PhilosopherInv => WellBehaved
  BY PhilosophersBehave
<1> QED BY <1>1, PhilosopherInvariant, PTL

(***************************************************************************)
(* Every fork is a fair lock: it has one owner, those who wait for it in   *)
(* PE stand in a line, and VE gives it to the first.  The six PEs never    *)
(* bring a ring to the slot at which Enqwait goes wrong.                   *)
(***************************************************************************)
THEOREM PhilosophersShareFairly ==
  ASSUME PhilosopherMachine
  PROVE  ProgramSpec => []FirstLap /\ ImplementsFairLock
<1>1. PhilosopherInv => FirstLap /\ ~ Runs({"SI"})
  BY PhilosopherFetches DEF PhilosopherInv, PoliteInv, Runs, Instr, FK
<1>2. Text = ProgramText /\ SmallRegs
  BY DEF PhilosopherMachine
<1>3. ProgramSpec /\ [](~ Runs({"SI"})) /\ []FirstLap => ImplementsFairLock
  BY <1>2, ProgramLocks
<1> QED BY <1>1, <1>3, PhilosopherInvariant, PTL

(***************************************************************************)
(* No process changes a word of another one's program, although all of     *)
(* them rewrite their own.                                                 *)
(***************************************************************************)
THEOREM PhilosophersIsolated ==
  ASSUME PhilosopherMachine
  PROVE  ProgramSpec => WritesStayInside
<1>1. Boot => IsolationInv
  BY BootIsolates DEF PhilosopherMachine
<1>2. PhilosopherInv => WellBehaved
  BY PhilosophersBehave
<1>3. IsolationInv /\ WellBehaved /\ [ExecuteNext]_machine =>
        /\ IsolationInv'
        /\ [\A p \in Created \ {current} : \A a \in A!Program(p) : memory'[a] = memory[a]]_machine
  BY Isolates DEF PhilosopherMachine, OthersKept
<1> QED BY <1>1, <1>2, <1>3, PhilosopherInvariant, PTL DEF ProgramSpec, WritesStayInside

(***************************************************************************)
(* The machine does not stop before nothing is ready: no FK or EX runs out *)
(* of PCBs, holes or memory, and no handler runs off the block queue.      *)
(***************************************************************************)
THEOREM PhilosophersRunOn ==
  ASSUME PhilosopherMachine
  PROVE  ProgramSpec => [][status' = status \/ NothingReady]_machine
<1>1. PhilosopherInv /\ [ExecuteNext]_machine => [status' = status \/ NothingReady]_machine
  <2> SUFFICES ASSUME PhilosopherInv, [ExecuteNext]_machine
               PROVE  status' = status \/ NothingReady
    OBVIOUS
  <2>1. [PoliteNext]_vars
    <3>1. Text = ProgramText /\ IInv
      BY DEF PhilosopherMachine, PhilosopherInv, PoliteInv
    <3>2. StoresRegs
      BY PhilosophersBehave DEF WellBehaved
    <3> QED BY <3>1, <3>2, ProgramStep
  <2>2. CASE Execute
    BY <2>1, <2>2, PhilosopherExecutes
  <2>3. CASE EndSlice \/ Off \/ UNCHANGED machine
    BY <2>3 DEF EndSlice, SliceEnd, ContextSwitch, Off, machine, vars, schedVars
  <2> QED BY <2>2, <2>3 DEF ExecuteNext
<1> QED BY <1>1, PhilosopherInvariant, PTL DEF ProgramSpec
=============================================================================
