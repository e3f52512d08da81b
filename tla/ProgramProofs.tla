---------------------------- MODULE ProgramProofs ----------------------------
(***************************************************************************)
(* Programs, for every set of files: which numbers survive memory; that    *)
(* the words at IC make the kernel take steps that Polite allows, so that  *)
(* what PoliteProofs says of any instructions holds of programs; and that  *)
(* a program which addresses its own words changes no other program.       *)
(* Then ProConsumer, with lemmas about the steps of a machine whose words  *)
(* are known, which hold of the other files too.                           *)
(***************************************************************************)
EXTENDS MCPrograms, PoliteProofs

\* The digits of a number add up to its last four places.
LEMMA DecimalPlaces ==
  ASSUME NEW n \in Nat
  PROVE  n % 10000 = ((n \div 1000) % 10) * 1000 + ((n \div 100) % 10) * 100
                       + ((n \div 10) % 10) * 10 + (n % 10)
<1> DEFINE tens == n \div 10
           hundreds == n \div 100
           thousands == n \div 1000
           rest == n \div 10000
<1>1. n = 10 * tens + (n % 10) /\ n = 10000 * rest + (n % 10000)
  OBVIOUS
<1>2. tens \div 10 = hundreds /\ tens = 10 * (tens \div 10) + (tens % 10)
  OBVIOUS
<1>3. hundreds \div 10 = thousands /\ hundreds = 10 * (hundreds \div 10) + (hundreds % 10)
  OBVIOUS
<1>4. thousands \div 10 = rest /\ thousands = 10 * (thousands \div 10) + (thousands % 10)
  OBVIOUS
<1> DEFINE a == thousands % 10
           b == hundreds % 10
           c == tens % 10
           d == n % 10
           last == n % 10000
<1>5. /\ tens \in Int /\ hundreds \in Int /\ thousands \in Int /\ rest \in Int
      /\ a \in Int /\ b \in Int /\ c \in Int /\ d \in Int /\ last \in Int
  OBVIOUS
<1>6. /\ n = 10 * tens + d /\ n = 10000 * rest + last
      /\ tens = 10 * hundreds + c
      /\ hundreds = 10 * thousands + b
      /\ thousands = 10 * rest + a
  BY <1>1, <1>2, <1>3, <1>4
<1> HIDE DEF tens, hundreds, thousands, rest, a, b, c, d, last
<1>7. last = a * 1000 + b * 100 + c * 10 + d
  BY <1>5, <1>6
<1> QED BY <1>7 DEF tens, hundreds, thousands, a, b, c, d, last

LEMMA DigitBytes ==
  ASSUME NEW n \in Nat
  PROVE  /\ Digits(n)[1] - Zero = (n \div 1000) % 10
         /\ Digits(n)[2] - Zero = (n \div 100) % 10
         /\ Digits(n)[3] - Zero = (n \div 10) % 10
         /\ Digits(n)[4] - Zero = n % 10
         /\ Digits(n)[1] \in 48 .. 57
<1> DEFINE a == (n \div 1000) % 10
           b == (n \div 100) % 10
           c == (n \div 10) % 10
           d == n % 10
<1>1. a \in 0 .. 9 /\ b \in 0 .. 9 /\ c \in 0 .. 9 /\ d \in 0 .. 9
  BY DEF a, b, c, d
<1>2. Digits(n) = <<a + Zero, b + Zero, c + Zero, d + Zero>>
  BY DEF Digits
<1> HIDE DEF a, b, c, d
<1>3. /\ Digits(n)[1] - Zero = a /\ Digits(n)[2] - Zero = b
      /\ Digits(n)[3] - Zero = c /\ Digits(n)[4] - Zero = d
      /\ Digits(n)[1] \in 48 .. 57
  BY <1>1, <1>2 DEF Zero
<1> QED BY <1>3 DEF a, b, c, d

(***************************************************************************)
(* A number that is pushed is read back modulo 10000.                      *)
(***************************************************************************)
THEOREM PushedRoundTrip ==
  ASSUME NEW n \in Nat
  PROVE  Number(Pushed(n)) = n % 10000
<1> DEFINE a == (n \div 1000) % 10
           b == (n \div 100) % 10
           c == (n \div 10) % 10
           d == n % 10
           w == Digits(n)
<1>1. /\ w[1] - Zero = a /\ w[2] - Zero = b /\ w[3] - Zero = c /\ w[4] - Zero = d
      /\ w[1] \in 48 .. 57
  BY DigitBytes
<1>2. n % 10000 = a * 1000 + b * 100 + c * 10 + d
  BY DecimalPlaces
<1> HIDE DEF a, b, c, d, w
<1>3. DigitValue(w) = n % 10000
  BY <1>1, <1>2 DEF DigitValue
<1>4. w[1] <= Nine /\ w # <<0, 0, 0, 0>>
  BY <1>1 DEF Nine
<1>5. n % 10000 \in 0 .. 9999
  OBVIOUS
<1>6. (n % 10000) % WORD = n % 10000
  <2> DEFINE last == n % 10000
  <2>1. WORD \in Nat \ {0} /\ last \in 0 .. WORD - 1 /\ last = 0 * WORD + last
    BY <1>5, WordAssumption
  <2> HIDE DEF last
  <2>2. (0 * WORD + last) % WORD = last
    BY <2>1, DivUnique
  <2> QED BY <2>1, <2>2 DEF last
<1> QED BY <1>3, <1>4, <1>6 DEF Pushed, Number, w

(***************************************************************************)
(* StoreReg writes a number of up to four digits as LoadRegister reads it. *)
(***************************************************************************)
THEOREM StoredRoundTrip ==
  ASSUME NEW n \in Nat, n <= 9999
  PROVE  Number(Stored(n)) = n
<1>1. n % 10000 = n
  OBVIOUS
<1>2. Number(Pushed(n)) = n % 10000
  BY PushedRoundTrip
<1> QED BY <1>1, <1>2 DEF Stored, Pushed

(***************************************************************************)
(* Any larger number whose first byte is no letter is read as another one: *)
(* ReadRAM takes its bytes for digits.                                     *)
(***************************************************************************)
THEOREM LargeNumbersMisread ==
  ASSUME NEW n \in Nat, n > 9999, n < 58 * 16777216, WORD = 256 * 16777216
  PROVE  Number(Stored(n)) # n
<1> DEFINE a == (n \div 16777216) % 256
           b == (n \div 65536) % 256
           c == (n \div 256) % 256
           d == n % 256
<1>1. a \in 0 .. 57
  BY SMT
<1>2. b \in 0 .. 255 /\ c \in 0 .. 255 /\ d \in 0 .. 255
  BY SMT
<1>3. n = a * 16777216 + b * 65536 + c * 256 + d
  BY SMT
<1>4. Stored(n) = <<a, b, c, d>>
  BY SMT DEF Stored, Binary
<1> HIDE DEF a, b, c, d
<1>5. Stored(n) # <<0, 0, 0, 0>>
  BY SMT, <1>1, <1>2, <1>3, <1>4
<1> DEFINE v == DigitValue(Stored(n))
<1>6. v = a * 1000 + b * 100 + c * 10 + d - 53328
  BY SMT, <1>1, <1>2, <1>4 DEF DigitValue, Zero
<1>7. Number(Stored(n)) = v % WORD
  BY SMT, <1>1, <1>4, <1>5 DEF Number, Nine
<1> HIDE DEF v
<1>8. v \in Int /\ v < n /\ v > n - WORD
  BY SMT, <1>1, <1>2, <1>3, <1>6
<1>9. v % WORD # n
  BY SMT, <1>8
<1> QED BY SMT, <1>7, <1>9

-----------------------------------------------------------------------------
(***************************************************************************)
(* What a word does to the kernel.  Local instructions are NP to it, and   *)
(* one that names no semaphore acts as NSEM does.                          *)
(***************************************************************************)
LEMMA TextOf ==
  ASSUME Text = ProgramText
  PROVE  /\ \A op \in {"NP", "DI", "H", "FK", "EX"} : Instr(op, 0) \in Text
         /\ \A op \in {"PE", "VE", "SI"}, s \in 0 .. NSEM : Instr(op, s) \in Text
         /\ \A i \in Text : i.op \notin {"SD", "RC", "RX"}
<1>1. /\ \A op \in {"NP", "DI", "H", "FK", "EX"} : Instr(op, 0) \in Text
      /\ \A op \in {"PE", "VE", "SI"}, s \in 0 .. NSEM : Instr(op, s) \in Text
  BY DEF ProgramText
<1>2. ASSUME NEW i \in Text PROVE i.op \notin {"SD", "RC", "RX"}
  <2>1. \/ \E op \in {"NP", "DI", "H", "FK", "EX"} : i = Instr(op, 0)
        \/ \E op \in {"PE", "VE", "SI"}, s \in 0 .. NSEM : i = Instr(op, s)
    BY <1>2 DEF ProgramText
  <2> QED BY <2>1 DEF Instr
<1> QED BY <1>1, <1>2

LEMMA RunsInstruction ==
  ASSUME Text = ProgramText, IInv, status = "running", tdma < TDMA_Setting,
         NEW i \in Text, Instruction(i)
  PROVE  PoliteStep
<1>1. i.op \notin {"SD", "RC", "RX"}
  BY TextOf
<1>2. blockedOn[current] \in Text \cup {NoInstr, HaltInstr}
  BY DEF IInv, Placed, SchedTypeOK
<1>3. blockedOn[current].op # "RC"
  BY <1>2, TextOf DEF NoInstr, HaltInstr, Instr
<1> QED BY <1>1, <1>3 DEF PoliteStep, Fetches

LEMMA LocalIsStep ==
  ASSUME Text = ProgramText, NEW i, LocalStep(i)
  PROVE  \E j \in Text : Instruction(j)
<1>1. CASE Tick
  BY <1>1, TextOf DEF Instruction, Instr
<1>2. CASE Abort("fpe")
  BY <1>2, TextOf DEF Instruction, Divide, Instr
<1> QED BY <1>1, <1>2 DEF LocalStep

LEMMA SharedIsStep ==
  ASSUME Text = ProgramText, NEW i, SharedStep(i), i.op = "SI" => R.arg \in Regs
  PROVE  \E j \in Text : Instruction(j)
<1> DEFINE s == IF i.arg \in Semas THEN i.arg ELSE NSEM
<1>1. s \in 0 .. NSEM /\ (s \in Semas <=> i.arg \in Semas) /\ (i.arg \in Semas => s = i.arg)
  BY SemAssumption DEF Semas
<1> HIDE DEF s
<1>2. CASE Tick
  BY <1>2, TextOf DEF Instruction, Instr
<1>3. CASE PE(i.arg) /\ UNCHANGED mailVars
  <2>1. PE(s)
    BY <1>1, <1>3 DEF PE
  <2> QED BY <1>1, <1>3, <2>1, TextOf DEF Instruction, Instr
<1>4. CASE VE(i.arg) /\ UNCHANGED mailVars
  <2>1. VE(s)
    BY <1>1, <1>4 DEF VE
  <2> QED BY <1>1, <1>4, <2>1, TextOf DEF Instruction, Instr
<1>5. CASE i.op = "SI" /\ SI(i.arg, R.arg) /\ UNCHANGED mailVars
  <2>1. SI(s, R.arg) /\ R.arg \in Regs
    BY <1>1, <1>5 DEF SI
  <2>2. Instr("SI", s) \in Text /\ Instr("SI", s).op = "SI" /\ Instr("SI", s).arg = s
    BY <1>1, TextOf DEF Instr
  <2> QED BY <1>5, <2>1, <2>2 DEF Instruction
<1>6. CASE Halt
  BY <1>6, TextOf DEF Instruction, Instr
<1> QED BY <1>2, <1>3, <1>4, <1>5, <1>6 DEF SharedStep

LEMMA AllocatingIsStep ==
  ASSUME Text = ProgramText, ForkStep \/ ExecStep
  PROVE  \E j \in Text : Instruction(j)
<1>1. CASE MakeClone
  BY <1>1, TextOf DEF Instruction, Fork, Instr
<1>2. CASE Tick
  BY <1>2, TextOf DEF Instruction, Instr
<1>3. CASE \E how \in {"exit", "oob"} : Abort(how)
  BY <1>3, TextOf DEF Instruction, Exec, OutOfMemory, Instr
<1> QED BY <1>1, <1>2, <1>3 DEF ForkStep, ExecStep

LEMMA ProgramStep ==
  ASSUME Text = ProgramText, IInv, StoresRegs, [ExecuteNext]_machine
  PROVE  [PoliteNext]_vars
<1>1. CASE Execute
  <2>1. status = "running" /\ tdma < TDMA_Setting
    BY <1>1 DEF Execute
  <2>2. Fetched.op = "SI" => R.arg \in Regs
    BY <2>1 DEF StoresRegs, Runs
  <2>3. \E j \in Text : Instruction(j)
    BY <1>1, <2>2, LocalIsStep, SharedIsStep, AllocatingIsStep DEF Execute
  <2> QED BY <2>1, <2>3, RunsInstruction DEF PoliteNext
<1>2. CASE EndSlice
  BY <1>2 DEF EndSlice, PoliteNext
<1>3. CASE UNCHANGED machine
  BY <1>3 DEF machine
<1> QED BY <1>1, <1>2, <1>3 DEF ExecuteNext, Off

(***************************************************************************)
(* Every step that a program makes the machine take is one of the kernel,  *)
(* under the sending discipline, which programs without messages keep.     *)
(***************************************************************************)
THEOREM ProgramsAreKernel ==
  ASSUME Text = ProgramText, SmallRegs
  PROVE  ProgramSpec /\ []StoresRegs => Init /\ [][PoliteNext]_vars
<1>1. Boot => Init /\ IInv
  BY InitIInv DEF Boot
<1>2. IInv /\ StoresRegs /\ [ExecuteNext]_machine => [PoliteNext]_vars
  BY ProgramStep
<1>3. IInv /\ [PoliteNext]_vars => IInv'
  <2> SUFFICES ASSUME IInv, [PoliteNext]_vars PROVE IInv'
    OBVIOUS
  <2>1. [Next]_vars
    BY DEF PoliteNext, PoliteStep, Next, Step
  <2> QED BY <2>1, NextIInv
<1> QED BY <1>1, <1>2, <1>3, PTL DEF ProgramSpec

(***************************************************************************)
(* The rings list the waiting processes whatever the programs are.         *)
(***************************************************************************)
THEOREM ProgramRings ==
  ASSUME Text = ProgramText, SmallRegs
  PROVE  ProgramSpec /\ []StoresRegs /\ []FirstLap => [](RingIsWaiters /\ NoNullDereference)
<1>1. Init => PoliteInv
  BY InitPolite
<1>2. PoliteInv /\ FirstLap' /\ [PoliteNext]_vars => PoliteInv'
  BY NextPolite
<1>3. PoliteInv => RingIsWaiters /\ NoNullDereference
  BY RingFromLists DEF PoliteInv
<1> QED BY <1>1, <1>2, <1>3, ProgramsAreKernel, PTL

(***************************************************************************)
(* No process is lost, whichever of Regs the programs store in the         *)
(* semaphores (SmallRegs: all below 65536), and however often those are    *)
(* waited for.                                                             *)
(***************************************************************************)
THEOREM ProgramsAccounted ==
  ASSUME Text = ProgramText, SmallRegs
  PROVE  ProgramSpec /\ []StoresRegs => [](TypeOK /\ EveryProcessAccounted)
<1>1. Init => IInv
  BY InitIInv
<1>2. IInv /\ [PoliteNext]_vars => IInv'
  <2> SUFFICES ASSUME IInv, [PoliteNext]_vars PROVE IInv'
    OBVIOUS
  <2>1. [Next]_vars
    BY DEF PoliteNext, PoliteStep, Next, Step
  <2> QED BY <2>1, NextIInv
<1>3. IInv => TypeOK /\ EveryProcessAccounted
  BY DEF IInv, Placed, TypeOK
<1> QED BY <1>1, <1>2, <1>3, ProgramsAreKernel, PTL

(***************************************************************************)
(* A process that a program blocked in PE runs on only as the holder.      *)
(***************************************************************************)
THEOREM ProgramHolders ==
  ASSUME Text = ProgramText, SmallRegs
  PROVE  ProgramSpec /\ []StoresRegs /\ []FirstLap => PEReturnsToHolder
<1>1. Init => PoliteInv
  BY InitPolite
<1>2. PoliteInv /\ FirstLap' /\ [PoliteNext]_vars => PoliteInv'
  BY NextPolite
<1>3. PoliteInv /\ [PoliteNext]_vars =>
        [\A p \in PCBs, s \in Semas :
           p \in BlockedIn("PE", s) /\ p \notin Blocked' => semaphore'[s].PID = p]_vars
  BY LeavesAsHolder
<1> QED BY <1>1, <1>2, <1>3, ProgramsAreKernel, PTL DEF PEReturnsToHolder

LEMMA ProgramTakesOrGives ==
  ASSUME ~ Runs({"SI"}), [ExecuteNext]_machine
  PROVE  TakesOrGives
<1>1. CASE Execute
  <2>1. Fetched.op # "SI"
    BY <1>1 DEF Execute, Runs
  <2>2. ASSUME Tick \/ Halt \/ MakeClone \/ \E how : Abort(how) PROVE TakesOrGives
    BY <2>2 DEF Tick, Halt, MakeClone, Abort, TakesOrGives
  <2>3. ASSUME \E s : PE(s) \/ VE(s) PROVE TakesOrGives
    BY <2>3 DEF TakesOrGives
  <2>4. CASE LocalStep(Fetched)
    BY <2>2, <2>4 DEF LocalStep
  <2>5. CASE SharedStep(Fetched)
    BY <2>1, <2>2, <2>3, <2>5 DEF SharedStep
  <2>6. CASE ForkStep \/ ExecStep
    BY <2>2, <2>6 DEF ForkStep, ExecStep
  <2> QED BY <1>1, <2>4, <2>5, <2>6 DEF Execute
<1>2. CASE EndSlice \/ UNCHANGED machine
  BY <1>2 DEF EndSlice, SliceEnd, ContextSwitch, NothingReady, machine, vars, TakesOrGives
<1> QED BY <1>1, <1>2 DEF ExecuteNext, Off

(***************************************************************************)
(* The semaphores are fair locks to programs that run no SI.               *)
(***************************************************************************)
THEOREM ProgramLocks ==
  ASSUME Text = ProgramText, SmallRegs
  PROVE  ProgramSpec /\ [](~ Runs({"SI"})) /\ []FirstLap => ImplementsFairLock
<1>1. Boot => PoliteInv /\ ValuesTell /\ Lock!Init
  BY InitPolite, InitTells, InitLocks DEF Boot
<1>2. PoliteInv /\ ~ Runs({"SI"}) /\ [ExecuteNext]_machine => [PoliteNext]_vars
  BY ProgramStep DEF PoliteInv, StoresRegs, Runs
<1>3. PoliteInv /\ FirstLap' /\ [PoliteNext]_vars => PoliteInv'
  BY NextPolite
<1>4. PoliteInv /\ ValuesTell /\ ~ Runs({"SI"}) /\ [ExecuteNext]_machine => ValuesTell'
  BY ProgramTakesOrGives, Tells DEF PoliteInv
<1>5. PoliteInv /\ FirstLap' /\ PoliteInv' /\ ValuesTell /\ [PoliteNext]_vars =>
        [Lock!Next]_<<Owners, Lines, current>>
  BY StepLocks
<1> QED BY <1>1, <1>2, <1>3, <1>4, <1>5, PTL DEF ProgramSpec, ImplementsFairLock, Lock!Spec

-----------------------------------------------------------------------------
(***************************************************************************)
(* The allocator's proofs, about the allocator of Programs.                *)
(***************************************************************************)
AP == INSTANCE AllocatorProofs WITH Lengths <- {Files[f].length : f \in DOMAIN Files}

LEMMA HeapAssumption ==
  /\ NPROC \in 1 .. 100
  /\ MEMORY \in Nat
  /\ NSPACES \in 1 .. 58
  /\ {Files[f].length : f \in DOMAIN Files} \subseteq 1 .. MEMORY - 1
BY SchedAssumption, MemoryAssumption, FilesAssumption

LEMMA SameHeap ==
  /\ \A h, n : /\ A!Location(h, n) = AP!Location(h, n)
               /\ A!AfterRequest(h, n) = AP!AfterRequest(h, n)
               /\ A!Refuses(h, n) <=> AP!Refuses(h, n)
               /\ A!Overruns(h, n) <=> AP!Overruns(h, n)
               /\ A!UsesLastHole(h, n) <=> AP!UsesLastHole(h, n)
  /\ \A h, b, n : /\ A!AfterRelease(h, b, n) = AP!AfterRelease(h, b, n)
                  /\ A!ReleaseFails(h, b, n) <=> AP!ReleaseFails(h, b, n)
BY DEF A!Heap, AP!Heap, A!MemBlock, AP!MemBlock, A!Fits, AP!Fits, A!BestFit, AP!BestFit,
       A!PerfectFit, AP!PerfectFit, A!Location, AP!Location, A!Refuses, AP!Refuses,
       A!Overruns, AP!Overruns, A!UsesLastHole, AP!UsesLastHole, A!Shrunk, AP!Shrunk,
       A!UsedUp, AP!UsedUp, A!FromEnd, AP!FromEnd, A!AfterRequest, AP!AfterRequest,
       A!Borders, AP!Borders, A!Merged, AP!Merged, A!Added, AP!Added,
       A!AfterRelease, AP!AfterRelease, A!ReleaseFails, AP!ReleaseFails

LEMMA SameInit == A!Init => AP!Init
BY DEF A!Init, AP!Init, A!Heap, AP!Heap, A!MemBlock, AP!MemBlock, A!PCBs, AP!PCBs

LEMMA SameFork ==
  ASSUME NEW p
  PROVE  /\ A!Clone(p) => AP!Clone(p)
         /\ A!NoClone(p) => AP!NoClone(p)
BY SameHeap DEF A!Clone, AP!Clone, A!NoClone, AP!NoClone, A!Insufficient, AP!Insufficient,
                A!CopyOverruns, AP!CopyOverruns, A!Request, AP!Request

LEMMA SameLoad ==
  ASSUME NEW p, NEW n, NEW words
  PROVE  /\ A!Load(p, n, words) => AP!Load(p, n, words)
         /\ A!GetsOwnMemory(p, n) => AP!GetsOwnMemory(p, n)
BY SameHeap DEF A!Load, AP!Load, A!GetsOwnMemory, AP!GetsOwnMemory, A!Request, AP!Request

-----------------------------------------------------------------------------
(***************************************************************************)
(* Which words an instruction writes.                                      *)
(***************************************************************************)
IsMemory(m) == m = [a \in 0 .. MEMORY - 1 |-> m[a]]

IsolationInv == IInv /\ AP!AllocInv /\ IsMemory(memory)

\* The step changes no word of another program.
OthersKept == \A p \in Created \ {current} : \A a \in A!Program(p) : memory'[a] = memory[a]

SameAllocation == UNCHANGED <<heap, br, lr, memoryNum, numPID>>

LEMMA BasesTyped ==
  ASSUME AP!AllocInv
  PROVE  /\ br \in [0 .. NPROC - 1 -> 0 .. MEMORY] /\ lr \in [0 .. NPROC - 1 -> 0 .. MEMORY]
         /\ numPID \in 1 .. NPROC
BY DEF AP!AllocInv, AP!VarsTyped, AP!PCBs

LEMMA Blocks ==
  ASSUME IsolationInv, NEW p \in Created
  PROVE  /\ current \in Created
         /\ br[p] \in Nat /\ lr[p] \in Nat \ {0} /\ br[p] + lr[p] <= MEMORY
         /\ \A a \in A!Program(p) : a \in 0 .. MEMORY - 1 /\ br[p] <= a /\ a < br[p] + lr[p]
         /\ \A q \in Created : p # q => AP!Apart(br[p], lr[p], br[q], lr[q])
<1>1. current \in Created /\ Created = AP!Created
  BY DEF IsolationInv, IInv, Placed, EveryProcessAccounted, Created, AP!Created
<1>2. /\ br \in [0 .. NPROC - 1 -> 0 .. MEMORY] /\ lr \in [0 .. NPROC - 1 -> 0 .. MEMORY]
      /\ numPID \in 1 .. NPROC
  BY BasesTyped DEF IsolationInv
<1>3. br[p] \in Nat /\ lr[p] \in Nat \ {0} /\ br[p] + lr[p] <= MEMORY
  <2>1. p \in 0 .. NPROC - 1
    BY <1>2, SchedAssumption DEF Created
  <2>2. lr[p] > 0 /\ br[p] + lr[p] <= MEMORY
    BY <1>1 DEF IsolationInv, AP!AllocInv, AP!ProgramsOK
  <2> QED BY <1>2, <2>1, <2>2, MemoryAssumption
<1>4. \A q \in Created : p # q => AP!Apart(br[p], lr[p], br[q], lr[q])
  BY <1>1 DEF IsolationInv, AP!AllocInv, AP!ProgramsOK
<1>5. \A a \in A!Program(p) : a \in 0 .. MEMORY - 1 /\ br[p] <= a /\ a < br[p] + lr[p]
  BY <1>3, HeapAssumption DEF A!Program, A!Block
<1> QED BY <1>1, <1>3, <1>4, <1>5

LEMMA WordKept ==
  ASSUME IsolationInv, memory' = memory
  PROVE  IsMemory(memory') /\ OthersKept
BY DEF IsolationInv, OthersKept

LEMMA OwnWordWritten ==
  ASSUME IsolationInv, NEW x \in OwnOffsets, NEW w, Write(x, w)
  PROVE  IsMemory(memory') /\ OthersKept
<1>1. IsMemory(memory) /\ current \in Created
  BY DEF IsolationInv, IInv, Placed, EveryProcessAccounted
<1>2. IsMemory(memory')
  BY <1>1 DEF Write, IsMemory
<1>3. ASSUME NEW p \in Created \ {current}, NEW a \in A!Program(p)
      PROVE  memory'[a] = memory[a]
  <2>1. br[current] \in Nat /\ lr[current] \in Nat
    BY <1>1, Blocks
  <2>2. /\ AP!Apart(br[p], lr[p], br[current], lr[current]) /\ br[p] \in Nat /\ lr[p] \in Nat
        /\ a \in 0 .. MEMORY - 1 /\ br[p] <= a /\ a < br[p] + lr[p]
    BY <1>1, Blocks
  <2>3. Address(x) # a
    BY <2>1, <2>2 DEF AP!Apart, Address, OwnOffsets
  <2> QED BY <1>1, <2>2, <2>3 DEF Write, IsMemory
<1> QED BY <1>2, <1>3 DEF OthersKept

LEMMA OtherBlockWritten ==
  ASSUME IsolationInv, IsMemory(memory'), NEW base \in Nat, NEW n \in Nat, NEW m \in 0 .. n,
         \A p \in Created \ {current} : AP!Apart(br[p], lr[p], base, n),
         \A a \in 0 .. MEMORY - 1 : a \notin A!Block(base, m) => memory'[a] = memory[a]
  PROVE  OthersKept
<1> SUFFICES ASSUME NEW p \in Created \ {current}, NEW a \in A!Program(p)
             PROVE  memory'[a] = memory[a]
  BY DEF OthersKept
<1>1. /\ br[p] \in Nat /\ lr[p] \in Nat
      /\ a \in 0 .. MEMORY - 1 /\ br[p] <= a /\ a < br[p] + lr[p]
  BY Blocks
<1>2. a \notin A!Block(base, m)
  BY <1>1 DEF AP!Apart, A!Block
<1> QED BY <1>1, <1>2

LEMMA LocalIsolates ==
  ASSUME IsolationInv, AddressesOwnWords, status = "running", tdma < TDMA_Setting,
         LocalStep(Fetched)
  PROVE  IsMemory(memory') /\ OthersKept /\ SameAllocation
<1>1. SameAllocation
  BY DEF LocalStep, Tick, Abort, Stop, allocation, SameAllocation
<1>2. \/ memory' = memory
      \/ \E x \in OwnOffsets : \E w : Write(x, w)
  <2>1. CASE UNCHANGED memory
    BY <2>1
  <2>2. CASE Fetched.op = "SR" /\ Write(Fetched.arg, R)
    BY <2>2 DEF AddressesOwnWords, Runs
  <2>3. CASE /\ Fetched.op = "PH"
             /\ Write(((SP + 1) % WORD) % 100, Data(R.arg % 10000))
    BY <2>3 DEF AddressesOwnWords, Runs
  <2>4. CASE /\ Fetched.op \in OnTheStack
             /\ Write(Below(SP) % 100, Data(OnStack(Fetched.op) % 10000))
    BY <2>4 DEF AddressesOwnWords, Runs
  <2> QED BY <2>1, <2>2, <2>3, <2>4 DEF LocalStep, Local, SetR, SetC, SetSP, Advance, Goto
<1> QED BY <1>1, <1>2, WordKept, OwnWordWritten

LEMMA SharedIsolates ==
  ASSUME IsolationInv, SharedStep(Fetched)
  PROVE  IsMemory(memory') /\ OthersKept /\ SameAllocation
<1>1. memory' = memory /\ UNCHANGED allocation
  BY DEF SharedStep, LS, ST, SetR, Advance, Goto
<1>2. numPID' = numPID
  BY DEF SharedStep, Tick, Halt, PE, Acquire, WaitFor, VE, Release, Free, HandOver, SI,
         SemContinue, SemExit, Stop
<1> QED BY <1>1, <1>2, WordKept DEF allocation, SameAllocation

\* FK, as far as other programs go: its clone is given words that nobody has.
LEMMA ForkIsolates ==
  ASSUME IsolationInv, AllocatesCarefully, status = "running", tdma < TDMA_Setting, ForkStep
  PROVE  IsMemory(memory') /\ OthersKept /\ AP!AllocInv'
<1>1. /\ current \in AP!Created /\ Created = AP!Created /\ AP!UsesLastHole(heap, lr[current])
      /\ AP!AllocInv /\ IsMemory(memory)
  BY SameHeap DEF IsolationInv, IInv, Placed, EveryProcessAccounted, Created, AP!Created,
                  ForkStep, AllocatesCarefully, Runs
<1>2. CASE A!Clone(current) /\ CopyProgram
  <2> DEFINE base == A!Location(heap, lr[current])
             n == lr[current]
  <2>1. AP!AllocInv'
    BY <1>1, <1>2, SameFork, AP!CloneKeeps, HeapAssumption
  <2>2. /\ numPID \in 1 .. NPROC - 1 /\ numPID' = numPID + 1
        /\ br' = [br EXCEPT ![numPID] = base] /\ lr' = [lr EXCEPT ![numPID] = n]
        /\ br \in [0 .. NPROC - 1 -> 0 .. MEMORY] /\ lr \in [0 .. NPROC - 1 -> 0 .. MEMORY]
    <3>1. /\ numPID < NPROC /\ numPID' = numPID + 1
          /\ br' = [br EXCEPT ![numPID] = base] /\ lr' = [lr EXCEPT ![numPID] = n]
      BY <1>2 DEF A!Clone, A!Request
    <3> HIDE DEF base, n
    <3>2. numPID \in 1 .. NPROC /\ NPROC \in Nat
      BY <1>1, BasesTyped, HeapAssumption
    <3>3. numPID \in 1 .. NPROC - 1
      BY <3>1, <3>2
    <3> QED BY <1>1, <3>1, <3>3, BasesTyped
  <2> HIDE DEF base, n
  <2>3. br'[numPID] = base /\ lr'[numPID] = n /\ numPID \in AP!Created'
    BY <2>2, HeapAssumption DEF AP!Created
  <2>4. \A p \in Created : /\ p # numPID /\ p \in AP!Created'
                           /\ br'[p] = br[p] /\ lr'[p] = lr[p]
    BY <2>2, HeapAssumption DEF Created, AP!Created
  <2>5. \A p \in Created : AP!Apart(br[p], lr[p], base, n)
    BY <2>1, <2>3, <2>4 DEF AP!AllocInv, AP!ProgramsOK, AP!Apart
  <2>6. base \in Nat /\ n \in Nat /\ n \in 0 .. n
    <3>1. br' \in [0 .. NPROC - 1 -> 0 .. MEMORY] /\ lr' \in [0 .. NPROC - 1 -> 0 .. MEMORY]
      BY <2>1 DEF AP!AllocInv, AP!VarsTyped, AP!PCBs
    <3> QED BY <2>2, <2>3, <3>1, HeapAssumption
  <2>7. /\ IsMemory(memory')
        /\ \A a \in 0 .. MEMORY - 1 : a \notin A!Block(base, n) => memory'[a] = memory[a]
    BY <1>1, <1>2 DEF CopyProgram, IsMemory, base, n
  <2> QED BY <2>1, <2>5, <2>6, <2>7, OtherBlockWritten
<1>3. CASE Tick /\ A!NoClone(current) /\ memory' = memory
  <2>1. AP!AllocInv'
    BY <1>1, <1>3, SameFork, AP!NoCloneKeeps, HeapAssumption
  <2> QED BY <1>3, <2>1, WordKept
<1>4. CASE A!ForkFails(current) /\ memory' = memory
  <2>1. SameAllocation
    BY <1>4 DEF A!ForkFails, A!RequestFails, A!Abort, SameAllocation
  <2>2. AP!AllocInv'
    BY <1>1, <2>1, AP!HaltKeeps, HeapAssumption DEF SameAllocation
  <2> QED BY <1>4, <2>2, WordKept
<1> QED BY <1>2, <1>3, <1>4 DEF ForkStep, SetR

\* EX: the new program lies where the old one was, and is apart from the others.
LEMMA ExecIsolates ==
  ASSUME IsolationInv, AllocatesCarefully, status = "running", tdma < TDMA_Setting, ExecStep
  PROVE  IsMemory(memory') /\ OthersKept /\ AP!AllocInv'
<1> DEFINE f == Fetched.arg
<1>1. /\ current \in AP!Created /\ current \in Created /\ Created = AP!Created
      /\ AP!AllocInv /\ IsMemory(memory)
  BY DEF IsolationInv, IInv, Placed, EveryProcessAccounted, Created, AP!Created
<1>2. CASE Tick /\ UNCHANGED allocation /\ memory' = memory
  <2>1. SameAllocation
    BY <1>2 DEF Tick, allocation, SameAllocation
  <2>2. AP!AllocInv'
    BY <1>1, <2>1, AP!HaltKeeps, HeapAssumption DEF SameAllocation
  <2> QED BY <1>2, <2>2, WordKept
<1>3. CASE /\ f \in DOMAIN Files /\ A!Load(current, Files[f].length, Len(Files[f].words))
           /\ LoadFile(br[current], Files[f].words)
  <2> DEFINE n == Files[f].length
             m == Len(Files[f].words)
             base == br[current]
  <2>1. n \in {Files[g].length : g \in DOMAIN Files} /\ n \in Nat /\ m \in 0 .. n
    BY <1>3, HeapAssumption, FilesAssumption
  <2>2. AP!GetsOwnMemory(current, n)
    <3>1. ~ A!ReleaseFails(heap, br[current], lr[current])
      BY <1>3 DEF A!Load
    <3> QED BY <1>3, <3>1, SameLoad DEF AllocatesCarefully, Runs, ExecStep
  <2>3. AP!AllocInv'
    BY <1>1, <1>3, <2>1, <2>2, SameLoad, AP!LoadKeeps, HeapAssumption
  <2>4. PICK location :
          /\ numPID < NPROC /\ numPID' = numPID
          /\ br' = [br EXCEPT ![numPID] = location] /\ lr' = [lr EXCEPT ![current] = n]
    BY <1>3 DEF A!Load, A!Request
  <2> HIDE DEF n, m
  <2>5. /\ br'[current] = base /\ lr'[current] = n /\ current \in AP!Created'
        /\ \A p \in Created \ {current} : /\ p \in AP!Created'
                                          /\ br'[p] = br[p] /\ lr'[p] = lr[p]
    <3>1. /\ br \in [0 .. NPROC - 1 -> 0 .. MEMORY] /\ lr \in [0 .. NPROC - 1 -> 0 .. MEMORY]
          /\ numPID \in 1 .. NPROC
      BY <1>1, BasesTyped
    <3>2. \A p \in Created : p # numPID /\ p \in 0 .. NPROC - 1 /\ p \in AP!Created'
      BY <2>4, <3>1, HeapAssumption DEF Created, AP!Created
    <3> QED BY <1>1, <2>4, <3>1, <3>2
  <2>6. \A p \in Created \ {current} : AP!Apart(br[p], lr[p], base, n)
    BY <2>3, <2>5 DEF AP!AllocInv, AP!ProgramsOK, AP!Apart
  <2>7. base \in Nat
    BY <1>1, Blocks
  <2>8. /\ IsMemory(memory')
        /\ \A a \in 0 .. MEMORY - 1 : a \notin A!Block(base, m) => memory'[a] = memory[a]
    BY <1>1, <1>3 DEF LoadFile, IsMemory, m
  <2> HIDE DEF base
  <2> QED BY <2>1, <2>3, <2>6, <2>7, <2>8, OtherBlockWritten
<1>4. CASE A!LoadFails(current, Files[f].length, Len(Files[f].words)) /\ memory' = memory
  <2>1. SameAllocation
    BY <1>4 DEF A!LoadFails, A!RequestFails, A!Abort, SameAllocation
  <2>2. AP!AllocInv'
    BY <1>1, <2>1, AP!HaltKeeps, HeapAssumption DEF SameAllocation
  <2> QED BY <1>4, <2>2, WordKept
<1> QED BY <1>2, <1>3, <1>4 DEF ExecStep, Advance, Goto

LEMMA Isolates ==
  ASSUME Text = ProgramText, IsolationInv, WellBehaved, [ExecuteNext]_machine
  PROVE  IsolationInv' /\ (OthersKept \/ UNCHANGED machine)
<1>1. IInv'
  <2>1. [Next]_vars
    BY ProgramStep DEF IsolationInv, WellBehaved, PoliteNext, PoliteStep, Next, Step
  <2> QED BY <2>1, NextIInv DEF IsolationInv
<1>2. SameAllocation => AP!AllocInv'
  BY AP!HaltKeeps, HeapAssumption DEF SameAllocation, IsolationInv
<1>3. CASE Execute
  <2>1. IsMemory(memory') /\ OthersKept /\ AP!AllocInv'
    BY <1>2, <1>3, LocalIsolates, SharedIsolates, ForkIsolates, ExecIsolates
       DEF Execute, WellBehaved
  <2> QED BY <1>1, <2>1 DEF IsolationInv, IsMemory
<1>4. CASE EndSlice
  <2>1. SameAllocation /\ memory' = memory
    BY <1>4 DEF EndSlice, SliceEnd, ContextSwitch, NothingReady, allocation, SameAllocation
  <2>2. IsMemory(memory') /\ OthersKept
    BY <2>1, WordKept
  <2> QED BY <1>1, <1>2, <2>1, <2>2 DEF IsolationInv, IsMemory
<1>5. CASE UNCHANGED machine
  <2>1. SameAllocation /\ memory' = memory
    BY <1>5 DEF machine, vars, schedVars, allocation, SameAllocation
  <2> QED BY <1>1, <1>2, <1>5, <2>1 DEF IsolationInv, IsMemory
<1> QED BY <1>3, <1>4, <1>5 DEF ExecuteNext, Off

LEMMA BootIsolates ==
  ASSUME SmallRegs, Boot
  PROVE  IsolationInv
<1>1. IInv
  BY InitIInv DEF Boot
<1>2. AP!AllocInv
  BY SameInit, AP!AllocInit, HeapAssumption DEF Boot
<1>3. IsMemory(memory)
  BY DEF Boot, IsMemory
<1> QED BY <1>1, <1>2, <1>3 DEF IsolationInv

(***************************************************************************)
(* A process changes no word of another one's program, for every set of    *)
(* files and every size of memory: no instruction compares an address with *)
(* LR, so the programs must address their own words, but that FK and EX    *)
(* give out words of nobody else follows from the allocator's invariant.   *)
(***************************************************************************)
THEOREM ProgramsIsolated ==
  ASSUME Text = ProgramText, SmallRegs
  PROVE  ProgramSpec /\ []WellBehaved => WritesStayInside
<1>1. Boot => IsolationInv
  BY BootIsolates
<1>2. IsolationInv /\ WellBehaved /\ [ExecuteNext]_machine => IsolationInv'
  BY Isolates
<1>3. IsolationInv /\ WellBehaved /\ [ExecuteNext]_machine =>
        [\A p \in Created \ {current} : \A a \in A!Program(p) : memory'[a] = memory[a]]_machine
  BY Isolates DEF OthersKept
<1> QED BY <1>1, <1>2, <1>3, PTL DEF ProgramSpec, WritesStayInside
-----------------------------------------------------------------------------
(***************************************************************************)
(* The repository's ProConsumer, for every length of a slice, number of    *)
(* PCBs, size of memory and size of the rings, until a ring comes to its   *)
(* last slot: its consumer and producer lose no update, the machine does   *)
(* not stop, and it is given no FK, EX or SR that it cannot do.            *)
(***************************************************************************)
\* The machine is started with ProConsumer, and has a PCB to spare for the
\* memory that EX requests and memory for the clone.
ConsumerMachine ==
  /\ Text = ProgramText /\ SmallRegs
  /\ Files = MCFiles /\ Starts = {"ProConsumer"}
  /\ NPROC > 2 /\ NSPACES > 1 /\ MEMORY > 100

-----------------------------------------------------------------------------
(***************************************************************************)
(* The inductive invariant: how far each of the two processes is.          *)
(***************************************************************************)
WordAt(p, k) == memory[br[p] + k]

HasForkingWords(p) ==
  /\ lr[p] = 40
  /\ WordAt(p, 0) = GP /\ WordAt(p, 1) = Instr("SR", 20) /\ WordAt(p, 2) = FK
  /\ WordAt(p, 3) = Instr("CE", 20) /\ WordAt(p, 4) = Instr("BT", 6)
  /\ WordAt(p, 5) = Instr("EX", "CO") /\ WordAt(p, 6) = Instr("EX", "PR")

HasLoopWords(p) ==
  /\ lr[p] = 20
  /\ WordAt(p, 0) = NP /\ WordAt(p, 1) = Instr("PE", 0) /\ WordAt(p, 2) = Instr("LS", 0)
  /\ WordAt(p, 3) \in {Instr("SU", 10), Instr("AD", 10)} /\ WordAt(p, 4) = Instr("ST", 0)
  /\ WordAt(p, 5) = Instr("VE", 0) /\ WordAt(p, 6) = Instr("BU", 1)
  /\ WordAt(p, 10) = Data(1)

\* Process 0 before its FK.
Starts0 ==
  /\ HasForkingWords(0) /\ 0 \notin Blocked /\ Holder(0) # 0
  /\ pcb[0].IC \in 0 .. 2
  /\ pcb[0].IC = 1 => pcb[0].R = Data(0)
  /\ pcb[0].IC = 2 => WordAt(0, 20) = Data(0)

\* A process between FK and EX: the clone is to find its R equal to word 20.
Forked(p) ==
  /\ HasForkingWords(p) /\ p \notin Blocked /\ Holder(0) # p
  /\ WordAt(p, 20) = Data(0) /\ pcb[p].R = Data(1 - p)
  /\ pcb[p].IC \in {3, 4, 5 + p}
  /\ pcb[p].IC = 4 => (pcb[p].C <=> p = 1)

\* A process in the loop of CO or PR.
InLoop(p) ==
  /\ HasLoopWords(p)
  /\ pcb[p].IC \in 0 .. 6
  /\ p \in Blocked => pcb[p].IC = 2
  /\ Holder(0) = p <=> p \notin Blocked /\ pcb[p].IC \in 2 .. 5
  /\ pcb[p].IC = 3 => pcb[p].R = Data(shared[0])
  /\ pcb[p].IC = 4 => \E n \in {(shared[0] + 1) % WORD, (shared[0] - 1) % WORD} : pcb[p].R = Data(n)

\* One hole, from at to the end of memory.
HoleFrom(h, at) ==
  /\ h.Holes = 1 /\ h.hq \in Nat \ {0}
  /\ DOMAIN h.Spaces = 0 .. NSPACES - 1
  /\ h.Spaces[0] = A!MemBlock(MEMORY - at, at, 0)

\* The clone runs EX before its parent does: it is scheduled first, and each has
\* as many instructions to go as the other.
Done(p) == IF pcb[p].IC = 3 THEN 0 ELSE IF pcb[p].IC = 4 THEN 1 ELSE 2

CloneIsAhead ==
  \/ current = 1 /\ tdma <= TDMA_Setting /\ Done(0) + tdma <= Done(1)
  \/ current = 0 /\ tdma <= TDMA_Setting /\ Done(0) + TDMA_Setting - tdma <= Done(1)
  \/ current = 0 /\ tdma > TDMA_Setting /\ Done(0) = 0

BeforeFork == numPID = 1 /\ br[0] = 0 /\ Starts0 /\ HoleFrom(heap, 40) /\ memoryNum = 8

AfterFork ==
  /\ numPID = 2 /\ br[0] = 0 /\ br[1] = 40
  /\ \/ Forked(0) /\ Forked(1) /\ HoleFrom(heap, 80) /\ CloneIsAhead
     \/ Forked(0) /\ InLoop(1) /\ HoleFrom(heap, 60)
     \/ InLoop(0) /\ InLoop(1)

Functions ==
  /\ DOMAIN pcb = PCBs /\ DOMAIN br = PCBs /\ DOMAIN lr = PCBs
  /\ DOMAIN memory = 0 .. MEMORY - 1 /\ DOMAIN shared = Semas

\* Nobody halts, those who wait do so for semaphore 0, and somebody has it then.
OnlyWaits ==
  /\ status = "running"
  /\ Halted = {}
  /\ Blocked \subseteq BlockedIn("PE", 0)
  /\ Blocked # {} => Holder(0) # NoHolder
  /\ Holder(0) \in Created \cup {NoHolder}

ConsumerInv ==
  /\ PoliteInv /\ ValuesTell /\ Functions /\ OnlyWaits
  /\ BeforeFork \/ AfterFork
-----------------------------------------------------------------------------
(***************************************************************************)
(* The files.                                                              *)
(***************************************************************************)
LEMMA FilesOfConsumer ==
  ASSUME ConsumerMachine
  PROVE  /\ {"ProConsumer", "CO", "PR"} \subseteq DOMAIN Files
         /\ Files["ProConsumer"] = ProConsumer
         /\ Files["CO"] = Loop("SU") /\ Files["PR"] = Loop("AD")
BY DEF ConsumerMachine, MCFiles

LEMMA ForkingWords ==
  /\ ProConsumer.length = 40 /\ Len(ProConsumer.words) = 8
  /\ ProConsumer.words[1] = GP /\ ProConsumer.words[2] = Instr("SR", 20)
  /\ ProConsumer.words[3] = FK /\ ProConsumer.words[4] = Instr("CE", 20)
  /\ ProConsumer.words[5] = Instr("BT", 6) /\ ProConsumer.words[6] = Instr("EX", "CO")
  /\ ProConsumer.words[7] = Instr("EX", "PR")
BY DEF ProConsumer, File

LEMMA ConcatEntry ==
  ASSUME NEW S, NEW s \in Seq(S), NEW t \in Seq(S)
  PROVE  /\ Len(s \o t) = Len(s) + Len(t)
         /\ \A k \in 1 .. Len(s) : (s \o t)[k] = s[k]
OBVIOUS

LEMMA LoopWords ==
  ASSUME NEW op
  PROVE  LET w == Loop(op).words IN
         /\ Loop(op).length = 20 /\ Len(w) = 20
         /\ w[1] = NP /\ w[2] = Instr("PE", 0) /\ w[3] = Instr("LS", 0) /\ w[4] = Instr(op, 10)
         /\ w[5] = Instr("ST", 0) /\ w[6] = Instr("VE", 0) /\ w[7] = Instr("BU", 1)
         /\ w[11] = Data(1)
<1> DEFINE s == <<NP, Instr("PE", 0), Instr("LS", 0), Instr(op, 10), Instr("ST", 0),
                  Instr("VE", 0), Instr("BU", 1), H, Data(0), Data(0), Data(1)>>
           t == Zeros(9)
           S == Range(s) \cup {Data(0)}
<1>1. Loop(op).length = 20 /\ Loop(op).words = s \o t
  BY DEF Loop, File
<1>2. /\ s[1] = NP /\ s[2] = Instr("PE", 0) /\ s[3] = Instr("LS", 0) /\ s[4] = Instr(op, 10)
      /\ s[5] = Instr("ST", 0) /\ s[6] = Instr("VE", 0) /\ s[7] = Instr("BU", 1)
      /\ s[11] = Data(1)
  OBVIOUS
<1>3. s \in Seq(S) /\ t \in Seq(S)
  BY DEF Range, Zeros
<1>4. Len(s) = 11 /\ Len(t) = 9
  BY DEF Zeros
<1> DEFINE w == s \o t
<1> HIDE DEF s, t, S
<1>5. Len(w) = Len(s) + Len(t) /\ \A k \in 1 .. Len(s) : w[k] = s[k]
  BY <1>3, ConcatEntry
<1> HIDE DEF w
<1>6. /\ Len(w) = 20 /\ w[1] = s[1] /\ w[2] = s[2] /\ w[3] = s[3] /\ w[4] = s[4] /\ w[5] = s[5]
      /\ w[6] = s[6] /\ w[7] = s[7] /\ w[11] = s[11]
  BY <1>4, <1>5
<1> QED BY <1>1, <1>2, <1>6 DEF w

-----------------------------------------------------------------------------
(***************************************************************************)
(* The allocator, while there is one hole.                                 *)
(***************************************************************************)
LEMMA FirstHole ==
  ASSUME NEW h, NEW at \in Nat, HoleFrom(h, at), NEW n \in Nat \ {0}, n < MEMORY - at
  PROVE  /\ ~ A!Refuses(h, n) /\ ~ A!Overruns(h, n)
         /\ A!Location(h, n) = at /\ A!UsesLastHole(h, n)
         /\ HoleFrom(A!AfterRequest(h, n), at + n)
<1>1. /\ h.Holes = 1 /\ h.hq \in Nat \ {0} /\ MEMORY \in Nat /\ NSPACES \in Nat \ {0}
      /\ h.Spaces[0].Size = MEMORY - at /\ h.Spaces[0].Location = at /\ h.Spaces[0].Num = 0
  BY MemoryAssumption DEF HoleFrom, A!MemBlock
<1>2. A!Fits(h, n) = {0}
  BY <1>1 DEF A!Fits
<1>3. A!BestFit(h, n) = 0
  BY <1>2 DEF A!BestFit
<1>4. ~ A!PerfectFit(h, n)
  BY <1>1, <1>3 DEF A!PerfectFit
<1>5. A!AfterRequest(h, n) = A!Shrunk(h, h.Spaces[0], n)
  BY <1>1, <1>3, <1>4 DEF A!AfterRequest
<1>6. HoleFrom(A!Shrunk(h, h.Spaces[0], n), at + n)
  <2>1. 0 \in DOMAIN h.Spaces /\ DOMAIN h.Spaces = 0 .. NSPACES - 1
    BY <1>1 DEF HoleFrom
  <2>2. MEMORY - at - n = MEMORY - (at + n) /\ h.hq + 1 \in Nat \ {0}
    BY <1>1
  <2> QED BY <1>1, <2>1, <2>2 DEF HoleFrom, A!Shrunk, A!Heap, A!MemBlock
<1> QED BY <1>1, <1>2, <1>3, <1>4, <1>5, <1>6
        DEF A!Refuses, A!Overruns, A!Location, A!UsesLastHole
LEMMA CloneLoads ==
  ASSUME NSPACES > 1, MEMORY > 100, NEW h, HoleFrom(h, 80)
  PROVE  LET released == A!AfterRelease(h, 40, 40) IN
         /\ ~ A!ReleaseFails(h, 40, 40) /\ ~ A!Refuses(released, 20) /\ ~ A!Overruns(released, 20)
         /\ A!UsesLastHole(released, 20) /\ A!Location(released, 20) = 40
         /\ HoleFrom(A!AfterRequest(released, 20), 60)
<1>1. /\ h.Holes = 1 /\ h.hq \in Nat \ {0} /\ MEMORY \in Nat /\ NSPACES \in Nat \ {0}
      /\ h.Spaces[0].Size = MEMORY - 80 /\ h.Spaces[0].Location = 80 /\ h.Spaces[0].Num = 0
      /\ DOMAIN h.Spaces = 0 .. NSPACES - 1 /\ 0 \in DOMAIN h.Spaces
  BY MemoryAssumption DEF HoleFrom, A!MemBlock
<1>2. A!Borders(h, 40, 40)
  BY <1>1 DEF A!Borders
<1>3. A!AfterRelease(h, 40, 40) = A!Merged(h, 40)
  BY <1>1, <1>2 DEF A!AfterRelease
<1>4. HoleFrom(A!Merged(h, 40), 40)
  <2>1. MEMORY - 80 + 40 = MEMORY - 40 /\ 80 - 40 = 40
    BY <1>1
  <2> QED BY <1>1, <2>1 DEF HoleFrom, A!Merged, A!Heap, A!MemBlock
<1>5. ~ A!ReleaseFails(h, 40, 40)
  BY <1>1, <1>2 DEF A!ReleaseFails
<1>6. 20 < MEMORY - 40 /\ 40 + 20 = 60
  BY <1>1
<1> QED BY <1>3, <1>4, <1>5, <1>6, FirstHole

LEMMA ParentLoads ==
  ASSUME NSPACES > 1, MEMORY > 100, NEW h, HoleFrom(h, 60)
  PROVE  LET released == A!AfterRelease(h, 0, 40) IN
         /\ ~ A!ReleaseFails(h, 0, 40) /\ ~ A!Refuses(released, 20) /\ ~ A!Overruns(released, 20)
         /\ A!UsesLastHole(released, 20) /\ A!Location(released, 20) = 0
<1> DEFINE r == A!Added(h, 0, 40)
<1>1. /\ h.Holes = 1 /\ h.hq \in Nat \ {0} /\ MEMORY \in Nat /\ NSPACES \in Nat \ {0}
      /\ h.Spaces[0].Size = MEMORY - 60 /\ h.Spaces[0].Location = 60 /\ h.Spaces[0].Num = 0
      /\ DOMAIN h.Spaces = 0 .. NSPACES - 1 /\ 0 \in DOMAIN h.Spaces /\ 1 \in DOMAIN h.Spaces
  BY MemoryAssumption DEF HoleFrom, A!MemBlock
<1>2. ~ A!Borders(h, 0, 40)
  BY <1>1 DEF A!Borders
<1>3. A!AfterRelease(h, 0, 40) = r
  BY <1>1, <1>2 DEF A!AfterRelease
<1>4. ~ A!ReleaseFails(h, 0, 40)
  BY <1>1 DEF A!ReleaseFails
<1>5. /\ r.Holes = 2 /\ r.hq = h.hq + 1
      /\ r.Spaces[0].Size = MEMORY - 60 /\ r.Spaces[1].Size = 40 /\ r.Spaces[1].Location = 0
  BY <1>1 DEF A!Added, A!Heap, A!MemBlock
<1> HIDE DEF r
<1>6. A!Fits(r, 20) = {0, 1}
  BY <1>1, <1>5 DEF A!Fits
<1>7. A!BestFit(r, 20) = 1
  <2> DEFINE Best(i) == \A j \in A!Fits(r, 20) : \/ r.Spaces[i].Size < r.Spaces[j].Size
                                                 \/ r.Spaces[i].Size = r.Spaces[j].Size /\ i <= j
  <2>1. Best(1) /\ 1 \in A!Fits(r, 20)
    BY <1>1, <1>5, <1>6
  <2>2. ~ Best(0)
    BY <1>1, <1>5, <1>6
  <2>3. \A i \in A!Fits(r, 20) : Best(i) => i = 1
    BY <1>6, <2>2
  <2> HIDE DEF Best
  <2>4. A!BestFit(r, 20) = CHOOSE i \in A!Fits(r, 20) : Best(i)
    BY DEF A!BestFit, Best
  <2> QED BY <2>1, <2>3, <2>4
<1>8. ~ A!PerfectFit(r, 20)
  BY <1>5, <1>7 DEF A!PerfectFit
<1>9. r.hq # 0 /\ r.hq > 0
  BY <1>1, <1>5
<1> QED BY <1>3, <1>4, <1>5, <1>6, <1>7, <1>8, <1>9
        DEF A!Refuses, A!Overruns, A!Location, A!UsesLastHole
-----------------------------------------------------------------------------
(***************************************************************************)
(* What the words of the three files make the machine do.                  *)
(***************************************************************************)
LEMMA Decoded ==
  ASSUME Execute
  PROVE  /\ Fetched.op \in {"NP", "GP", "SR", "CE", "BT", "SU", "AD", "BU", "LR", "LL", "MU"} =>
              Tick /\ Local(Fetched) /\ UNCHANGED <<shared, allocation>>
         /\ Fetched.op = "DI" /\ ~ DividesByZero(Fetched) =>
              Tick /\ Local(Fetched) /\ UNCHANGED <<shared, allocation>>
         /\ Fetched.op \in {"LS", "ST", "PE", "VE", "H"} => SharedStep(Fetched)
         /\ Fetched.op = "FK" => ForkStep
         /\ Fetched.op = "EX" => ExecStep
<1> DEFINE i == Fetched
<1>1. /\ LocalStep(i) =>
           /\ i.op \notin {"LS", "ST", "PE", "VE", "H", "FK", "EX"} \/ DividesByZero(i)
           /\ DividesByZero(i) \/ (Tick /\ Local(i) /\ UNCHANGED <<shared, allocation>>)
  BY DEF LocalStep, Local, InRegister, OnTheStack
<1>2. SharedStep(i) => i.op \in {"LS", "ST", "PE", "VE", "SI", "H"}
  BY DEF SharedStep
<1>3. DividesByZero(i) => i.op \in {"DI", "DS"}
  BY DEF DividesByZero
<1>4. (ForkStep => i.op = "FK") /\ (ExecStep => i.op = "EX")
  BY DEF ForkStep, ExecStep
<1>5. LocalStep(i) \/ SharedStep(i) \/ ForkStep \/ ExecStep
  BY DEF Execute
<1> HIDE DEF i
<1>6. /\ i.op \in {"NP", "GP", "SR", "CE", "BT", "SU", "AD", "BU", "LR", "LL", "MU"} =>
           Tick /\ Local(i) /\ UNCHANGED <<shared, allocation>>
      /\ i.op = "DI" /\ ~ DividesByZero(i) =>
           Tick /\ Local(i) /\ UNCHANGED <<shared, allocation>>
      /\ i.op \in {"LS", "ST", "PE", "VE", "H"} => SharedStep(i)
      /\ i.op = "FK" => ForkStep
      /\ i.op = "EX" => ExecStep
  BY <1>1, <1>2, <1>3, <1>4, <1>5
<1> QED BY <1>6 DEF i

\* What an instruction leaves in the registers of the process.
Becomes(r, c, ic) ==
  pcb' = [pcb EXCEPT ![current] = [R |-> r, SP |-> SP, C |-> c, IC |-> ic]]

LEMMA LocalEffects ==
  ASSUME NEW i, Local(i)
  PROVE  /\ i.op = "NP" => Becomes(R, C, NextIC) /\ memory' = memory
         /\ i.op = "GP" => Becomes(Data(current), C, NextIC) /\ memory' = memory
         /\ i.op = "SR" => Becomes(R, C, NextIC) /\ Write(i.arg, R)
         /\ i.op = "CE" => Becomes(R, R = Operand(i), NextIC) /\ memory' = memory
         /\ i.op = "BT" => Becomes(R, C, IF C THEN i.arg ELSE NextIC) /\ memory' = memory
         /\ i.op = "BU" => Becomes(R, C, i.arg) /\ memory' = memory
         /\ i.op \in InRegister =>
              Becomes(Data(Compute(i.op, R.arg, Operand(i).arg)), C, NextIC) /\ memory' = memory
         /\ i.op = "LR" => Becomes(Operand(i), C, NextIC) /\ memory' = memory
         /\ i.op = "LL" => Becomes(LowReplaced(R, Operand(i).arg), C, NextIC) /\ memory' = memory
<1>1. i.op = "NP" => Becomes(R, C, NextIC) /\ memory' = memory
  BY DEF Local, InRegister, OnTheStack, Advance, Goto, Registers, Becomes
<1>2. i.op = "GP" => Becomes(Data(current), C, NextIC) /\ memory' = memory
  BY DEF Local, InRegister, OnTheStack, SetR, Registers, Becomes
<1>3. i.op = "SR" => Becomes(R, C, NextIC) /\ Write(i.arg, R)
  BY DEF Local, InRegister, OnTheStack, Registers, Becomes
<1>4. i.op = "CE" => Becomes(R, R = Operand(i), NextIC) /\ memory' = memory
  BY DEF Local, InRegister, OnTheStack, SetC, Registers, Becomes
<1>5. i.op = "BT" => Becomes(R, C, IF C THEN i.arg ELSE NextIC) /\ memory' = memory
  BY DEF Local, InRegister, OnTheStack, Goto, Registers, Becomes
<1>6. i.op = "BU" => Becomes(R, C, i.arg) /\ memory' = memory
  BY DEF Local, InRegister, OnTheStack, Goto, Registers, Becomes
<1>7. i.op \in InRegister =>
        Becomes(Data(Compute(i.op, R.arg, Operand(i).arg)), C, NextIC) /\ memory' = memory
  BY DEF Local, InRegister, OnTheStack, SetR, Registers, Becomes
<1>8. i.op = "LR" => Becomes(Operand(i), C, NextIC) /\ memory' = memory
  BY DEF Local, InRegister, OnTheStack, SetR, Registers, Becomes
<1>9. i.op = "LL" => Becomes(LowReplaced(R, Operand(i).arg), C, NextIC) /\ memory' = memory
  BY DEF Local, InRegister, OnTheStack, SetR, Registers, Becomes
<1> QED BY <1>1, <1>2, <1>3, <1>4, <1>5, <1>6, <1>7, <1>8, <1>9

LEMMA SharedEffects ==
  ASSUME NEW i, SharedStep(i), i.op \in {"LS", "ST", "PE", "VE", "H"}
  PROVE  /\ UNCHANGED allocation /\ memory' = memory
         /\ i.op = "LS" => Tick /\ Becomes(Data(shared[i.arg]), C, NextIC) /\ shared' = shared
         /\ i.op = "ST" => /\ Tick /\ Becomes(R, C, NextIC)
                           /\ shared' = [shared EXCEPT ![i.arg] = R.arg]
         /\ i.op = "PE" => PE(i.arg) /\ Becomes(R, C, NextIC) /\ shared' = shared
         /\ i.op = "VE" => VE(i.arg) /\ Becomes(R, C, NextIC) /\ shared' = shared
         /\ i.op = "H" => Halt /\ Becomes(R, C, NextIC) /\ shared' = shared
BY DEF SharedStep, LS, ST, SetR, Advance, Goto, Registers, Becomes

LEMMA BecomesSo ==
  ASSUME DOMAIN pcb = PCBs, current \in PCBs, NEW r, NEW c, NEW ic, Becomes(r, c, ic)
  PROVE  /\ DOMAIN pcb' = PCBs
         /\ pcb'[current].R = r /\ pcb'[current].C = c /\ pcb'[current].IC = ic
         /\ \A q \in PCBs \ {current} : pcb'[q] = pcb[q]
BY DEF Becomes

LEMMA ReadBack ==
  Loaded(Data(0)) = Data(0) /\ Loaded(Data(1)) = Data(1)
BY StoredRoundTrip DEF Loaded, Data

-----------------------------------------------------------------------------
(***************************************************************************)
(* The queues.                                                             *)
(***************************************************************************)
LEMMA Scheduled ==
  ASSUME PoliteInv, status = "running", tdma < TDMA_Setting
  PROVE  /\ current \in Created /\ current \in PCBs /\ current \notin Blocked
         /\ Created \subseteq PCBs /\ Blocked \subseteq Created /\ tdma \in Nat
<1>1. Placed
  BY DEF PoliteInv, IInv
<1> QED BY <1>1, SchedAssumption
        DEF Placed, EveryProcessAccounted, EachInOnePlace, SchedTypeOK, Created, PCBs

LEMMA Runner ==
  ASSUME PoliteInv, Execute
  PROVE  /\ current \in Created /\ current \in PCBs /\ current \notin Blocked
         /\ Created \subseteq PCBs /\ Blocked \subseteq Created /\ tdma \in Nat
BY Scheduled DEF Execute

LEMMA StillNoneHalted ==
  ASSUME PoliteInv, PoliteInv', Halted = {}, current \in PCBs, NEW i, i # HaltInstr,
         Continue \/ GiveUpSlice(i)
  PROVE  Halted' = {}
<1>1. /\ blockedOn \in [PCBs -> Text \cup {NoInstr, HaltInstr}]
      /\ \A p \in PCBs \ Created : blockedOn[p] = NoInstr
      /\ Created' \subseteq PCBs
  <2>1. Placed /\ Placed'
    BY DEF PoliteInv, IInv
  <2>2. numPID' \in 1 .. NPROC
    BY <2>1 DEF Placed, SchedTypeOK
  <2>3. Created' \subseteq PCBs
    <3>1. NPROC \in Nat /\ numPID' \in Nat /\ numPID' <= NPROC
      BY <2>2, SchedAssumption
    <3>2. \A n, m \in Nat : n <= m => 0 .. n - 1 \subseteq 0 .. m - 1
      OBVIOUS
    <3> QED BY <3>1, <3>2 DEF Created, PCBs
  <2>4. blockedOn \in [PCBs -> Text \cup {NoInstr, HaltInstr}]
    BY <2>1 DEF Placed, SchedTypeOK
  <2> QED BY <2>1, <2>3, <2>4 DEF Placed, UnusedClean
<1>2. NoInstr # HaltInstr
  BY DEF NoInstr, HaltInstr, Instr
<1>3. \A p \in PCBs : blockedOn[p] # HaltInstr
  BY <1>1, <1>2 DEF Halted
<1>4. \A p \in PCBs : blockedOn'[p] # HaltInstr
  BY <1>1, <1>2, <1>3 DEF Continue, GiveUpSlice
<1> QED BY <1>1, <1>4 DEF Halted

LEMMA OthersSleepOn ==
  ASSUME PoliteInv, current \in PCBs, NEW i, Continue \/ GiveUpSlice(i), NEW p \in PCBs \ {current}
  PROVE  blockedOn'[p] = blockedOn[p]
<1>1. blockedOn \in [PCBs -> Text \cup {NoInstr, HaltInstr}]
  BY DEF PoliteInv, IInv, Placed, SchedTypeOK
<1> QED BY <1>1 DEF Continue, GiveUpSlice

LEMMA TickWaits ==
  ASSUME PoliteInv, PoliteInv', OnlyWaits, Execute, Tick
  PROVE  OnlyWaits' /\ numPID' = numPID /\ Blocked' = Blocked /\ Holder(0)' = Holder(0)
<1>1. /\ Continue /\ numPID' = numPID /\ bq' = bq /\ status' = status /\ semaphore' = semaphore
      /\ current' = current
  BY DEF Tick
<1>2. Blocked' = Blocked /\ Holder(0)' = Holder(0) /\ Created' = Created
  BY <1>1 DEF Blocked, Holder, Created
<1>3. current \in PCBs /\ current \notin Blocked /\ Blocked \subseteq PCBs
  BY Runner
<1>4. NoInstr # HaltInstr
  BY DEF NoInstr, HaltInstr, Instr
<1>5. Halted' = {}
  BY <1>1, <1>3, <1>4, StillNoneHalted DEF OnlyWaits
<1>6. \A p \in Blocked : blockedOn'[p] = blockedOn[p]
  BY <1>1, <1>3, OthersSleepOn
<1>7. Blocked' \subseteq BlockedIn("PE", 0)'
  BY <1>2, <1>6 DEF OnlyWaits, BlockedIn
<1> QED BY <1>1, <1>2, <1>5, <1>7 DEF OnlyWaits

LEMMA PEWaits ==
  ASSUME PoliteInv, PoliteInv', ValuesTell, OnlyWaits, Execute, PE(0)
  PROVE  /\ OnlyWaits' /\ numPID' = numPID
         /\ \/ Holder(0) = NoHolder /\ Holder(0)' = current /\ Blocked' = Blocked
            \/ /\ Holder(0) # NoHolder /\ Holder(0)' = Holder(0)
               /\ Blocked' = Blocked \cup {current}
<1>1. /\ 0 \in Semas /\ semaphore[0].value = IF Holder(0) = NoHolder THEN 1 ELSE 0
      /\ semaphore[0].tail < LastSlot /\ semaphore[0].tail \in Nat /\ LastSlot \in Nat
      /\ semaphore \in [Semas -> SemRecord]
  <2>1. 0 \in Semas /\ LastSlot \in Nat
    BY SemAssumption DEF Semas, LastSlot
  <2>2. FirstLap /\ SemTypeOK
    BY DEF PoliteInv, IInv
  <2>3. semaphore \in [Semas -> SemRecord] /\ semaphore[0] \in SemRecord
    BY <2>1, <2>2 DEF SemTypeOK
  <2>4. semaphore[0].tail \in Nat
    BY <2>3 DEF SemRecord
  <2>5. semaphore[0].tail < LastSlot
    BY <2>1, <2>2 DEF FirstLap
  <2> QED BY <2>1, <2>3, <2>4, <2>5 DEF ValuesTell
<1>2. current \in Created /\ current \in PCBs /\ current \notin Blocked /\ Blocked \subseteq PCBs
  BY Runner DEF PCBs
<1>3. Instr("PE", 0) # HaltInstr /\ NoInstr # HaltInstr
  BY DEF NoInstr, HaltInstr, Instr
<1>4. ~ RingFull(0)
  BY <1>1 DEF RingFull
<1>5. (Acquire(0) /\ Holder(0) = NoHolder) \/ (WaitFor(0) /\ Holder(0) # NoHolder)
  BY <1>1, <1>4 DEF PE, Acquire, WaitFor
<1>6. CASE Acquire(0) /\ Holder(0) = NoHolder
  <2>1. Continue /\ numPID' = numPID /\ bq' = bq /\ status' = status
    BY <1>6 DEF Acquire, SemContinue
  <2>2. Holder(0)' = current
    BY <1>1, <1>6 DEF Acquire, Holder
  <2>3. Blocked' = Blocked /\ Blocked = {} /\ Created' = Created
    BY <1>6, <2>1 DEF Blocked, OnlyWaits, Created
  <2>4. Halted' = {}
    BY <1>2, <1>3, <2>1, StillNoneHalted DEF OnlyWaits
  <2>5. OnlyWaits'
    BY <1>2, <2>1, <2>2, <2>3, <2>4 DEF OnlyWaits
  <2> QED BY <1>6, <2>1, <2>2, <2>3, <2>5
<1>7. CASE WaitFor(0) /\ Holder(0) # NoHolder
  <2>1. /\ GiveUpSlice(Instr("PE", 0)) /\ numPID' = numPID /\ bq' = Append(bq, current)
        /\ status' = status /\ bq \in Seq(PCBs)
    BY <1>7 DEF WaitFor, PoliteInv, IInv, Placed, SchedTypeOK
  <2>2. Holder(0)' = Holder(0)
    BY <1>1, <1>7 DEF WaitFor, Holder, Enqwait
  <2>3. Blocked' = Blocked \cup {current} /\ Created' = Created
    BY <1>2, <2>1, AppendRange DEF Blocked, Created
  <2>4. Halted' = {}
    BY <1>2, <1>3, <2>1, StillNoneHalted DEF OnlyWaits
  <2>5. /\ \A p \in Blocked : blockedOn'[p] = blockedOn[p]
        /\ blockedOn'[current] = Instr("PE", 0)
    <3>1. blockedOn \in [PCBs -> Text \cup {NoInstr, HaltInstr}]
      BY DEF PoliteInv, IInv, Placed, SchedTypeOK
    <3> QED BY <1>2, <2>1, <3>1 DEF GiveUpSlice
  <2>6. Blocked' \subseteq BlockedIn("PE", 0)'
    BY <2>3, <2>5 DEF OnlyWaits, BlockedIn
  <2>7. OnlyWaits'
    BY <1>7, <2>1, <2>2, <2>3, <2>4, <2>6 DEF OnlyWaits
  <2> QED BY <1>7, <2>1, <2>2, <2>3, <2>7
<1> QED BY <1>5, <1>6, <1>7

LEMMA VEWakes ==
  ASSUME PoliteInv, PoliteInv', ValuesTell, OnlyWaits, Execute, Holder(0) = current, VE(0)
  PROVE  /\ OnlyWaits' /\ numPID' = numPID
         /\ \/ Holder(0)' = NoHolder /\ Blocked = {} /\ Blocked' = {}
            \/ \E w \in Blocked \cap Created : Holder(0)' = w /\ Blocked' = Blocked \ {w}
<1>1. current \in Created /\ current \in PCBs /\ current \notin Blocked /\ Blocked \subseteq PCBs
  BY Runner DEF PCBs
<1>2. /\ 0 \in Semas /\ current # NoHolder /\ semaphore[0].value = 0
      /\ semaphore \in [Semas -> SemRecord]
  BY <1>1, SemAssumption DEF ValuesTell, PoliteInv, IInv, SemTypeOK, Semas, NoHolder, PCBs
<1>3. NoInstr # HaltInstr
  BY DEF NoInstr, HaltInstr, Instr
<1>4. Release(0)
  BY <1>2 DEF VE
<1>5. ~ RingEmpty(0) => HandOver(0)
  BY <1>2, <1>4, HeadWaits DEF Release, Free
<1>6. CASE RingEmpty(0)
  <2>1. Free(0)
    BY <1>4, <1>6 DEF Release, HandOver
  <2>2. Continue /\ numPID' = numPID /\ bq' = bq /\ status' = status
    BY <2>1 DEF Free, SemContinue
  <2>3. Holder(0)' = NoHolder
    BY <1>2, <2>1 DEF Free, Holder
  <2>4. BlockedIn("PE", 0) = {}
    <3>1. RingLists(0) /\ semaphore[0].head \in Int /\ Slots(0) = {}
      BY <1>2, <1>6, SemAssumption
         DEF PoliteInv, RingEmpty, Slots, SemRecord, LastSlot
    <3> QED BY <3>1 DEF RingLists
  <2>5. Blocked = {} /\ Blocked' = {} /\ Created' = Created
    BY <2>2, <2>4 DEF OnlyWaits, Blocked, Created
  <2>6. Halted' = {}
    BY <1>1, <1>3, <2>2, StillNoneHalted DEF OnlyWaits
  <2>7. OnlyWaits'
    BY <2>2, <2>3, <2>5, <2>6 DEF OnlyWaits
  <2> QED BY <2>2, <2>3, <2>5, <2>7
<1>7. CASE ~ RingEmpty(0)
  <2> DEFINE w == NextWaiting(semaphore[0])
  <2>1. w \in Created /\ w \in Blocked /\ PidOf(w) = w /\ IsBlocked(w)
    BY <1>2, <1>7, HeadWaits
  <2>2. HandOver(0)
    BY <1>5, <1>7
  <2>3. /\ Continue /\ numPID' = numPID /\ bq' = BqWithout(w) /\ status' = status
        /\ semaphore' = [semaphore EXCEPT ![0] = [Deqwait(@) EXCEPT !.PID = w]]
    BY <2>1, <2>2 DEF HandOver
  <2>4. Holder(0)' = w
    <3> DEFINE sem == semaphore[0]
               new == [Deqwait(sem) EXCEPT !.PID = w]
    <3>1. new \in SemRecord /\ sem \in SemRecord
      BY <1>2, DeqwaitType
    <3>2. Deqwait(sem).PID = sem.PID /\ Deqwait(sem) \in SemRecord
      BY <3>1, SemAssumption DEF Deqwait, SemRecord, LastSlot
    <3>3. new.PID = w
      BY <3>2 DEF SemRecord
    <3>4. semaphore'[0] = new
      BY <1>2, <2>3
    <3> QED BY <3>3, <3>4 DEF Holder
  <2>5. Blocked' = Blocked \ {w} /\ Created' = Created
    BY <2>1, <2>3, Unlinked DEF Blocked, PoliteInv, IInv, Created
  <2>6. Halted' = {}
    BY <1>1, <1>3, <2>3, StillNoneHalted DEF OnlyWaits
  <2>7. \A p \in Blocked : blockedOn'[p] = blockedOn[p]
    BY <1>1, <2>3, OthersSleepOn
  <2>8. Blocked' \subseteq BlockedIn("PE", 0)'
    BY <2>5, <2>7 DEF OnlyWaits, BlockedIn
  <2>9. w # NoHolder
    BY <2>1, <1>1 DEF PCBs, NoHolder
  <2>10. OnlyWaits'
    BY <2>1, <2>3, <2>4, <2>5, <2>6, <2>8, <2>9 DEF OnlyWaits
  <2> QED BY <2>1, <2>3, <2>4, <2>5, <2>10
<1> QED BY <1>6, <1>7
-----------------------------------------------------------------------------
(***************************************************************************)
(* A process that does not run keeps its place.                            *)
(***************************************************************************)
SameProgram(q) ==
  /\ br'[q] = br[q] /\ lr'[q] = lr[q] /\ pcb'[q] = pcb[q]
  /\ \A k \in 0 .. 20 : WordAt(q, k)' = WordAt(q, k)

\* It waits or has the semaphore as before, or was woken by its holder.
SameTurn(q) ==
  \/ (q \in Blocked)' = (q \in Blocked) /\ (Holder(0)' = q) = (Holder(0) = q)
  \/ q \in Blocked /\ q \notin Blocked' /\ Holder(0)' = q

LEMMA ForkedKept ==
  ASSUME NEW q, Forked(q), SameProgram(q), SameTurn(q)
  PROVE  Forked(q)'
<1>1. HasForkingWords(q)' /\ WordAt(q, 20)' = Data(0)
  BY DEF Forked, HasForkingWords, SameProgram
<1>2. q \notin Blocked' /\ Holder(0)' # q
  BY DEF Forked, SameTurn
<1>3. pcb'[q] = pcb[q]
  BY DEF SameProgram
<1> QED BY <1>1, <1>2, <1>3 DEF Forked

LEMMA LoopKept ==
  ASSUME NEW q, InLoop(q), SameProgram(q), SameTurn(q), shared' = shared \/ Holder(0) # q
  PROVE  InLoop(q)'
<1>1. HasLoopWords(q)'
  BY DEF InLoop, HasLoopWords, SameProgram
<1>2. pcb'[q] = pcb[q]
  BY DEF SameProgram
<1>3. /\ q \in Blocked' => pcb'[q].IC = 2
      /\ Holder(0)' = q <=> q \notin Blocked' /\ pcb'[q].IC \in 2 .. 5
  BY <1>2 DEF InLoop, SameTurn
<1>4. CASE shared' = shared
  BY <1>1, <1>2, <1>3, <1>4 DEF InLoop
<1>5. CASE Holder(0) # q
  <2>1. q \in Blocked \/ pcb[q].IC \notin 2 .. 5
    BY <1>5 DEF InLoop
  <2>2. pcb[q].IC \notin {3, 4}
    BY <2>1 DEF InLoop
  <2> QED BY <1>1, <1>2, <1>3, <2>2 DEF InLoop
<1> QED BY <1>4, <1>5

-----------------------------------------------------------------------------
(***************************************************************************)
(* From FK to EX.                                                          *)
(***************************************************************************)
LEMMA ForkedFetches ==
  ASSUME Forked(current)
  PROVE  /\ pcb[current].IC = 3 => Fetched = Instr("CE", 20)
         /\ pcb[current].IC = 4 => Fetched = Instr("BT", 6)
         /\ pcb[current].IC = 5 => Fetched = Instr("EX", "CO")
         /\ pcb[current].IC = 6 => Fetched = Instr("EX", "PR")
BY DEF Forked, HasForkingWords, Fetched, Address, WordAt

LEMMA ForkedMoves ==
  ASSUME PoliteInv, PoliteInv', OnlyWaits, Functions, Execute, current \in {0, 1},
         Forked(current), pcb[current].IC \in {3, 4}
  PROVE  /\ Forked(current)' /\ Tick /\ memory' = memory /\ UNCHANGED <<shared, allocation>>
         /\ DOMAIN pcb' = PCBs /\ \A q \in PCBs \ {current} : pcb'[q] = pcb[q]
         /\ pcb'[current].IC = pcb[current].IC + 1 \/ pcb'[current].IC \in {5, 6}
         /\ pcb[current].IC = 3 => pcb'[current].IC = 4
<1>1. /\ current \in PCBs /\ current \notin Blocked /\ DOMAIN pcb = PCBs
  BY Runner DEF Functions
<1>2. Fetched.op \in {"CE", "BT"}
  BY ForkedFetches DEF Instr
<1>3. Tick /\ Local(Fetched) /\ UNCHANGED <<shared, allocation>>
  BY <1>2, Decoded
<1>4. Blocked' = Blocked /\ Holder(0)' = Holder(0) /\ current' = current
  BY <1>3, TickWaits DEF Tick
<1>5. /\ br' = br /\ lr' = lr
  BY <1>3 DEF allocation
<1>6. /\ pcb[current].R = Data(1 - current) /\ WordAt(current, 20) = Data(0)
      /\ pcb[current].IC = 4 => (C <=> current = 1)
  BY DEF Forked, C
<1>7. CASE pcb[current].IC = 3
  <2>1. Fetched = Instr("CE", 20)
    BY <1>7, ForkedFetches
  <2>2. Operand(Fetched) = Data(0)
    BY <1>6, <2>1, ReadBack DEF Operand, Address, WordAt, Instr
  <2>3. Becomes(R, R = Data(0), 4) /\ memory' = memory
    BY <1>3, <1>7, <2>1, <2>2, LocalEffects DEF Instr, NextIC
  <2>4. /\ pcb'[current].R = R /\ pcb'[current].C = (R = Data(0)) /\ pcb'[current].IC = 4
        /\ DOMAIN pcb' = PCBs /\ \A q \in PCBs \ {current} : pcb'[q] = pcb[q]
    BY <1>1, <2>3, BecomesSo
  <2>5. pcb'[current].C <=> current = 1
    <3>1. Data(1) # Data(0) /\ R = Data(1 - current)
      BY <1>6 DEF R, Data
    <3>2. 1 - 0 = 1 /\ 1 - 1 = 0
      OBVIOUS
    <3>3. (R = Data(0)) <=> current = 1
      BY <3>1, <3>2, Zenon
    <3> QED BY <2>4, <3>3, Zenon
  <2>6. Forked(current)'
    BY <1>1, <1>4, <1>5, <2>3, <2>4, <2>5 DEF Forked, HasForkingWords, WordAt, R
  <2> QED BY <1>3, <1>7, <2>3, <2>4, <2>6
<1>8. CASE pcb[current].IC = 4
  <2>1. Fetched = Instr("BT", 6)
    BY <1>8, ForkedFetches
  <2>2. Becomes(R, C, IF C THEN 6 ELSE 5) /\ memory' = memory
    BY <1>3, <1>8, <2>1, LocalEffects DEF Instr, NextIC
  <2>3. Becomes(R, C, 5 + current)
    <3>1. (IF C THEN 6 ELSE 5) = 5 + current
      BY <1>6, <1>8
    <3> QED BY <2>2, <3>1
  <2>4. /\ pcb'[current].R = R /\ pcb'[current].IC = 5 + current
        /\ DOMAIN pcb' = PCBs /\ \A q \in PCBs \ {current} : pcb'[q] = pcb[q]
    BY <1>1, <2>3, BecomesSo
  <2>5. Forked(current)'
    BY <1>1, <1>4, <1>5, <2>2, <2>4 DEF Forked, HasForkingWords, WordAt, R
  <2> QED BY <1>3, <1>8, <2>2, <2>4, <2>5
<1> QED BY <1>7, <1>8
-----------------------------------------------------------------------------
(***************************************************************************)
(* The loop.                                                               *)
(***************************************************************************)
LEMMA LoopFetches ==
  ASSUME InLoop(current)
  PROVE  /\ pcb[current].IC = 0 => Fetched = NP
         /\ pcb[current].IC = 1 => Fetched = Instr("PE", 0)
         /\ pcb[current].IC = 2 => Fetched = Instr("LS", 0)
         /\ pcb[current].IC = 3 => Fetched \in {Instr("SU", 10), Instr("AD", 10)}
         /\ pcb[current].IC = 4 => Fetched = Instr("ST", 0)
         /\ pcb[current].IC = 5 => Fetched = Instr("VE", 0)
         /\ pcb[current].IC = 6 => Fetched = Instr("BU", 1)
BY DEF InLoop, HasLoopWords, Fetched, Address, WordAt

\* What a turn in the loop leaves to the other process.
TurnTaken ==
  /\ OnlyWaits' /\ numPID' = numPID /\ current' = current
  /\ memory' = memory /\ UNCHANGED allocation
  /\ DOMAIN pcb' = PCBs /\ \A q \in PCBs \ {current} : pcb'[q] = pcb[q]
  /\ \A q \in PCBs \ {current} : SameTurn(q)

StoresNext ==
  /\ Holder(0) = current
  /\ \E n \in {(shared[0] + 1) % WORD, (shared[0] - 1) % WORD} :
       shared' = [shared EXCEPT ![0] = n]

\* A turn that leaves the semaphores and the shared words alone.
LEMMA QuietTurn ==
  ASSUME PoliteInv, PoliteInv', OnlyWaits, Functions, Execute, InLoop(current),
         Tick, UNCHANGED allocation, memory' = memory, shared' = shared,
         NEW r, NEW c, NEW ic \in 0 .. 6, Becomes(r, c, ic),
         pcb[current].IC \in 2 .. 5 <=> ic \in 2 .. 5,
         ic = 3 => r = Data(shared[0]),
         ic = 4 => \E n \in {(shared[0] + 1) % WORD, (shared[0] - 1) % WORD} : r = Data(n)
  PROVE  InLoop(current)' /\ TurnTaken
<1>1. /\ current \in PCBs /\ current \notin Blocked /\ DOMAIN pcb = PCBs
  BY Runner DEF Functions
<1>2. /\ OnlyWaits' /\ numPID' = numPID /\ Blocked' = Blocked /\ Holder(0)' = Holder(0)
      /\ current' = current
  BY TickWaits DEF Tick
<1>3. /\ pcb'[current].R = r /\ pcb'[current].IC = ic
      /\ DOMAIN pcb' = PCBs /\ \A q \in PCBs \ {current} : pcb'[q] = pcb[q]
  BY <1>1, BecomesSo
<1>4. br' = br /\ lr' = lr
  BY DEF allocation
<1>5. HasLoopWords(current)'
  BY <1>2, <1>4 DEF InLoop, HasLoopWords, WordAt
<1>6. Holder(0) = current <=> ic \in 2 .. 5
  BY <1>1 DEF InLoop
<1>7. InLoop(current)'
  BY <1>1, <1>2, <1>3, <1>5, <1>6 DEF InLoop
<1>8. \A q \in PCBs \ {current} : SameTurn(q)
  BY <1>2 DEF SameTurn
<1> QED BY <1>2, <1>3, <1>7, <1>8 DEF TurnTaken

LEMMA LoopMoves ==
  ASSUME PoliteInv, PoliteInv', ValuesTell, OnlyWaits, Functions, Execute, InLoop(current)
  PROVE  InLoop(current)' /\ TurnTaken /\ (shared' = shared \/ StoresNext)
<1>1. /\ current \in PCBs /\ current \notin Blocked /\ DOMAIN pcb = PCBs /\ current # NoHolder
      /\ 0 \in Semas /\ DOMAIN shared = Semas
  BY Runner, SemAssumption DEF Functions, PCBs, NoHolder, Semas
<1>2. pcb[current].IC \in 0 .. 6 /\ (Holder(0) = current <=> pcb[current].IC \in 2 .. 5)
  BY <1>1 DEF InLoop
<1>3. CASE pcb[current].IC = 0
  <2>1. Fetched.op = "NP"
    BY <1>3, LoopFetches DEF NP, Instr
  <2>2. Tick /\ Becomes(R, C, 1) /\ memory' = memory /\ UNCHANGED <<shared, allocation>>
    BY <1>3, <2>1, Decoded, LocalEffects DEF NextIC
  <2> QED BY <1>3, <2>2, QuietTurn
<1>4. CASE pcb[current].IC = 6
  <2>1. Fetched = Instr("BU", 1)
    BY <1>4, LoopFetches
  <2>2. Tick /\ Becomes(R, C, 1) /\ memory' = memory /\ UNCHANGED <<shared, allocation>>
    BY <2>1, Decoded, LocalEffects DEF Instr
  <2> QED BY <1>4, <2>2, QuietTurn
<1>5. CASE pcb[current].IC = 2
  <2>1. Fetched = Instr("LS", 0)
    BY <1>5, LoopFetches
  <2>2. SharedStep(Fetched) /\ Fetched.op = "LS" /\ Fetched.arg = 0
    BY <2>1, Decoded DEF Instr
  <2>3. /\ Tick /\ Becomes(Data(shared[0]), C, 3) /\ memory' = memory /\ shared' = shared
        /\ UNCHANGED allocation
    BY <1>5, <2>2, SharedEffects DEF NextIC
  <2> QED BY <1>5, <2>3, QuietTurn
<1>6. CASE pcb[current].IC = 3
  <2> DEFINE n == Compute(Fetched.op, R.arg, Operand(Fetched).arg)
  <2>1. Fetched \in {Instr("SU", 10), Instr("AD", 10)}
    BY <1>6, LoopFetches
  <2>2. Fetched.op \in {"SU", "AD"} /\ Fetched.arg = 10
    BY <2>1 DEF Instr
  <2>3. /\ Tick /\ Becomes(Data(n), C, 4) /\ memory' = memory /\ UNCHANGED <<shared, allocation>>
    BY <1>6, <2>2, Decoded, LocalEffects DEF NextIC, InRegister
  <2>4. R.arg = shared[0] /\ Operand(Fetched).arg = 1
    BY <1>6, <2>2, ReadBack DEF InLoop, HasLoopWords, R, Operand, Address, WordAt, Data
  <2>5. n \in {(shared[0] + 1) % WORD, (shared[0] - 1) % WORD}
    BY <2>2, <2>4 DEF Compute
  <2> HIDE DEF n
  <2> QED BY <1>6, <2>3, <2>5, QuietTurn
<1>7. CASE pcb[current].IC = 4
  <2>1. Fetched = Instr("ST", 0)
    BY <1>7, LoopFetches
  <2>2. SharedStep(Fetched) /\ Fetched.op = "ST" /\ Fetched.arg = 0
    BY <2>1, Decoded DEF Instr
  <2>3. /\ Tick /\ Becomes(R, C, 5) /\ memory' = memory
        /\ shared' = [shared EXCEPT ![0] = R.arg] /\ UNCHANGED allocation
    BY <1>7, <2>2, SharedEffects DEF NextIC
  <2>4. \E n \in {(shared[0] + 1) % WORD, (shared[0] - 1) % WORD} : R.arg = n
    BY <1>7 DEF InLoop, R, Data
  <2>5. StoresNext
    <3>1. Holder(0) = current
      BY <1>2, <1>7
    <3> DEFINE next == {(shared[0] + 1) % WORD, (shared[0] - 1) % WORD}
    <3> HIDE DEF next
    <3>2. PICK n \in next : R.arg = n
      BY <2>4 DEF next
    <3>3. shared' = [shared EXCEPT ![0] = n]
      BY <2>3, <3>2
    <3> QED BY <3>1, <3>3 DEF StoresNext, next
  <2>6. /\ OnlyWaits' /\ numPID' = numPID /\ Blocked' = Blocked /\ Holder(0)' = Holder(0)
        /\ current' = current
    BY <2>3, TickWaits DEF Tick
  <2>7. /\ pcb'[current].IC = 5
        /\ DOMAIN pcb' = PCBs /\ \A q \in PCBs \ {current} : pcb'[q] = pcb[q]
    BY <1>1, <2>3, BecomesSo
  <2>8. HasLoopWords(current)'
    BY <2>3, <2>6 DEF InLoop, HasLoopWords, WordAt, allocation
  <2>9. InLoop(current)'
    BY <1>1, <1>2, <1>7, <2>6, <2>7, <2>8 DEF InLoop
  <2>10. \A q \in PCBs \ {current} : SameTurn(q)
    BY <2>6 DEF SameTurn
  <2> QED BY <2>3, <2>5, <2>6, <2>7, <2>9, <2>10 DEF TurnTaken
<1>8. CASE pcb[current].IC \in {1, 5}
  <2> DEFINE Has(q) == Holder(0)' = q <=> q \notin Blocked' /\ pcb'[q].IC \in 2 .. 5
  <2>1. Fetched = IF pcb[current].IC = 1 THEN Instr("PE", 0) ELSE Instr("VE", 0)
    BY <1>8, LoopFetches
  <2>2. /\ SharedStep(Fetched) /\ Fetched.op = IF pcb[current].IC = 1 THEN "PE" ELSE "VE"
        /\ Fetched.arg = 0
    BY <2>1, Decoded DEF Instr
  <2>3. /\ IF pcb[current].IC = 1 THEN PE(0) ELSE VE(0)
        /\ Becomes(R, C, NextIC) /\ memory' = memory /\ shared' = shared
        /\ UNCHANGED allocation
    BY <2>2, SharedEffects
  <2>4. /\ pcb'[current].IC = pcb[current].IC + 1
        /\ DOMAIN pcb' = PCBs /\ \A q \in PCBs \ {current} : pcb'[q] = pcb[q]
    BY <1>1, <2>3, BecomesSo DEF NextIC
  <2>5. current' = current
    BY <1>1, <2>3 DEF PE, VE, Acquire, WaitFor, Release, Free, HandOver, SemExit, SemContinue, Stop
  <2>6. HasLoopWords(current)'
    BY <2>3, <2>5 DEF InLoop, HasLoopWords, WordAt, allocation
  <2>7. CASE pcb[current].IC = 1
    <3>1. /\ OnlyWaits' /\ numPID' = numPID
          /\ \/ Holder(0) = NoHolder /\ Holder(0)' = current /\ Blocked' = Blocked
             \/ Holder(0) # NoHolder /\ Holder(0)' = Holder(0) /\ Blocked' = Blocked \cup {current}
      BY <2>3, <2>7, PEWaits
    <3>2. Holder(0) # current /\ pcb'[current].IC = 2
      BY <1>2, <2>4, <2>7
    <3>3. \A q \in PCBs \ {current} : SameTurn(q)
      BY <1>1, <3>1 DEF SameTurn, NoHolder, PCBs
    <3>4. InLoop(current)'
      BY <1>1, <2>5, <2>6, <3>1, <3>2 DEF InLoop
    <3> QED BY <2>3, <2>4, <2>5, <3>1, <3>3, <3>4 DEF TurnTaken
  <2>8. CASE pcb[current].IC = 5
    <3>1. Holder(0) = current /\ pcb'[current].IC = 6
      BY <1>2, <2>4, <2>8
    <3>2. /\ OnlyWaits' /\ numPID' = numPID
          /\ \/ Holder(0)' = NoHolder /\ Blocked = {} /\ Blocked' = {}
             \/ \E w \in Blocked \cap Created : Holder(0)' = w /\ Blocked' = Blocked \ {w}
      BY <2>3, <2>8, <3>1, VEWakes
    <3>3. \A q \in PCBs \ {current} : SameTurn(q)
      BY <1>1, <3>1, <3>2 DEF SameTurn, NoHolder, PCBs
    <3>4. InLoop(current)'
      BY <1>1, <2>5, <2>6, <3>1, <3>2 DEF InLoop
    <3> QED BY <2>3, <2>4, <2>5, <3>2, <3>3, <3>4 DEF TurnTaken
  <2> QED BY <1>8, <2>7, <2>8
<1> QED BY <1>2, <1>3, <1>4, <1>5, <1>6, <1>7, <1>8
-----------------------------------------------------------------------------
(***************************************************************************)
(* FK.                                                                     *)
(***************************************************************************)
LEMMA Alone ==
  ASSUME PoliteInv, OnlyWaits, BeforeFork, Execute
  PROVE  /\ current = 0 /\ 0 \in PCBs /\ Created = {0} /\ Blocked = {} /\ Holder(0) = NoHolder
<1>1. Created = {0}
  BY DEF BeforeFork, Created
<1>2. /\ current \in Created /\ current \in PCBs /\ Blocked \subseteq Created
  BY Runner
<1>3. 0 \notin Blocked /\ Holder(0) # 0 /\ Holder(0) \in Created \cup {NoHolder}
  BY DEF BeforeFork, Starts0, OnlyWaits
<1> QED BY <1>1, <1>2, <1>3

LEMMA ForkSucceeds ==
  ASSUME ConsumerMachine, BeforeFork, current = 0, ForkStep
  PROVE  /\ MakeClone /\ A!Clone(0) /\ CopyProgram /\ CloneRegisters /\ shared' = shared
         /\ HoleFrom(heap', 80) /\ br' = [br EXCEPT ![1] = 40] /\ lr' = [lr EXCEPT ![1] = 40]
         /\ A!Location(heap, 40) = 40
<1>1. /\ br[0] = 0 /\ lr[0] = 40 /\ HoleFrom(heap, 40) /\ memoryNum = 8 /\ numPID = 1 /\ MEMORY > 100
      /\ MEMORY \in Nat /\ NPROC > 2
  BY MemoryAssumption DEF BeforeFork, Starts0, HasForkingWords, ConsumerMachine
<1>2. 40 \in Nat \ {0} /\ 40 < MEMORY - 40 /\ 40 + 40 = 80
  BY <1>1
<1>3. /\ ~ A!Refuses(heap, 40) /\ ~ A!Overruns(heap, 40) /\ A!Location(heap, 40) = 40
      /\ HoleFrom(A!AfterRequest(heap, 40), 80)
  BY <1>1, <1>2, FirstHole
<1>4. ~ A!Insufficient(0)
  BY <1>1 DEF A!Insufficient
<1>5. ~ A!ForkFails(current)
  BY <1>1, <1>3 DEF A!ForkFails, A!RequestFails, A!CopyOverruns
<1>6. ~ A!NoClone(current)
  BY <1>4 DEF A!NoClone
<1>7. MakeClone /\ A!Clone(0) /\ CopyProgram /\ CloneRegisters /\ shared' = shared
  BY <1>5, <1>6 DEF ForkStep
<1>8. /\ heap' = A!AfterRequest(heap, 40) /\ br' = [br EXCEPT ![1] = 40]
      /\ lr' = [lr EXCEPT ![1] = 40]
  BY <1>1, <1>3, <1>7 DEF A!Clone, A!Request
<1> QED BY <1>3, <1>7, <1>8

LEMMA WordsCopied ==
  ASSUME ConsumerMachine, Functions, BeforeFork, current = 0, CopyProgram,
         A!Location(heap, 40) = 40, br'[0] = 0, br'[1] = 40
  PROVE  /\ DOMAIN memory' = DOMAIN memory
         /\ \A k \in 0 .. 20 : WordAt(0, k)' = WordAt(0, k) /\ WordAt(1, k)' = WordAt(0, k)
<1>1. lr[0] = 40 /\ br[0] = 0 /\ MEMORY > 100 /\ MEMORY \in Nat /\ DOMAIN memory = 0 .. MEMORY - 1
  BY MemoryAssumption DEF BeforeFork, Starts0, HasForkingWords, ConsumerMachine, Functions
<1>2. memory' = [a \in DOMAIN memory |->
                   IF a \in 40 .. 79 THEN memory[0 + (a - 40)] ELSE memory[a]]
  <2>1. \A a \in 40 .. 79 : CopySource(40, a - 40) = 0 + (a - 40)
    BY <1>1, BelowModulus DEF CopySource
  <2>2. A!Block(40, 40) = 40 .. 79
    BY DEF A!Block
  <2> QED BY <1>1, <2>1, <2>2 DEF CopyProgram
<1>3. ASSUME NEW k \in 0 .. 20
      PROVE  memory'[0 + k] = memory[0 + k] /\ memory'[40 + k] = memory[0 + k]
  <2>1. 0 + k \in 0 .. MEMORY - 1 /\ 40 + k \in 0 .. MEMORY - 1 /\ 40 + k - 40 = k
        /\ 0 + k \notin 40 .. 79 /\ 40 + k \in 40 .. 79
    BY <1>1
  <2> QED BY <1>1, <1>2, <2>1
<1>4. ASSUME NEW k \in 0 .. 20
      PROVE  WordAt(0, k)' = WordAt(0, k) /\ WordAt(1, k)' = WordAt(0, k)
  BY <1>1, <1>3 DEF WordAt
<1>5. DOMAIN memory' = DOMAIN memory
  BY <1>2
<1> QED BY <1>4, <1>5

LEMMA ForkMoves ==
  ASSUME ConsumerMachine, PoliteInv, PoliteInv', OnlyWaits, Functions, BeforeFork, Execute,
         pcb[0].IC = 2
  PROVE  OnlyWaits' /\ Functions' /\ shared' = shared /\ AfterFork'
<1>1. current = 0 /\ 0 \in PCBs /\ 1 \in PCBs /\ Blocked = {} /\ Holder(0) = NoHolder
  BY Alone, SchedAssumption DEF ConsumerMachine, PCBs
<1>2. HasForkingWords(0) /\ br[0] = 0 /\ numPID = 1 /\ WordAt(0, 20) = Data(0) /\ NPROC \in Nat
  BY SchedAssumption DEF BeforeFork, Starts0
<1>3. /\ DOMAIN pcb = PCBs /\ DOMAIN br = PCBs /\ DOMAIN lr = PCBs
      /\ DOMAIN memory = 0 .. MEMORY - 1 /\ DOMAIN shared = Semas
  BY DEF Functions
<1>4. Fetched.op = "FK"
  BY <1>1, <1>2 DEF HasForkingWords, Fetched, Address, WordAt, FK, Instr
<1>5. ForkStep
  BY <1>4, Decoded
<1>6. /\ MakeClone /\ A!Clone(0) /\ CopyProgram /\ CloneRegisters /\ shared' = shared
      /\ HoleFrom(heap', 80) /\ br' = [br EXCEPT ![1] = 40] /\ lr' = [lr EXCEPT ![1] = 40]
      /\ A!Location(heap, 40) = 40
  BY <1>1, <1>5, ForkSucceeds
<1>7. /\ numPID' = 2 /\ GiveUpSlice(NoInstr) /\ bq' = bq /\ current' = 0 /\ status' = status
      /\ semaphore' = semaphore /\ tdma' = TDMA_Setting + 1
  BY <1>1, <1>2, <1>6 DEF MakeClone, GiveUpSlice
<1>8. br'[0] = 0 /\ br'[1] = 40 /\ lr'[0] = 40 /\ lr'[1] = 40
  BY <1>1, <1>2, <1>3, <1>6 DEF HasForkingWords
<1>9. /\ DOMAIN memory' = DOMAIN memory
      /\ \A k \in 0 .. 20 : WordAt(0, k)' = WordAt(0, k) /\ WordAt(1, k)' = WordAt(0, k)
  BY <1>1, <1>6, <1>8, WordsCopied
<1>10. HasForkingWords(0)' /\ HasForkingWords(1)' /\ WordAt(0, 20)' = Data(0) /\ WordAt(1, 20)' = Data(0)
  BY <1>2, <1>8, <1>9 DEF HasForkingWords
<1>11. /\ pcb'[0].R = Data(1) /\ pcb'[0].IC = 3 /\ pcb'[1].R = Data(0) /\ pcb'[1].IC = 3
       /\ DOMAIN pcb' = PCBs
  BY <1>1, <1>2, <1>3, <1>6 DEF CloneRegisters, NextIC
<1>12. Blocked' = {} /\ Holder(0)' = NoHolder /\ NoHolder \notin {0, 1}
  BY <1>1, <1>7 DEF Blocked, Holder, NoHolder
<1>13. Forked(0)' /\ Forked(1)'
  <2>1. 1 - 0 = 1 /\ 1 - 1 = 0
    OBVIOUS
  <2> QED BY <1>10, <1>11, <1>12, <2>1 DEF Forked
<1>14. CloneIsAhead'
  BY <1>7, <1>11, SchedAssumption DEF CloneIsAhead, Done
<1>15. Halted' = {}
  <2>1. NoInstr # HaltInstr
    BY DEF NoInstr, HaltInstr, Instr
  <2> QED BY <1>1, <1>7, <2>1, StillNoneHalted DEF OnlyWaits
<1>16. OnlyWaits'
  BY <1>7, <1>12, <1>15 DEF OnlyWaits
<1>17. Functions'
  BY <1>3, <1>6, <1>9, <1>11 DEF Functions
<1> QED BY <1>6, <1>7, <1>8, <1>13, <1>14, <1>16, <1>17 DEF AfterFork

LEMMA StartMoves ==
  ASSUME ConsumerMachine, PoliteInv, PoliteInv', OnlyWaits, Functions, BeforeFork, Execute,
         pcb[0].IC \in {0, 1}
  PROVE  OnlyWaits' /\ Functions' /\ shared' = shared /\ BeforeFork'
<1>1. current = 0 /\ 0 \in PCBs /\ Blocked = {} /\ Holder(0) = NoHolder
  BY Alone
<1>2. HasForkingWords(0) /\ br[0] = 0 /\ numPID = 1 /\ HoleFrom(heap, 40) /\ memoryNum = 8
      /\ (pcb[0].IC = 1 => R = Data(0))
  BY <1>1 DEF BeforeFork, Starts0, R
<1>3. /\ DOMAIN pcb = PCBs /\ DOMAIN br = PCBs /\ DOMAIN lr = PCBs
      /\ DOMAIN memory = 0 .. MEMORY - 1 /\ DOMAIN shared = Semas /\ 20 \in DOMAIN memory
  BY MemoryAssumption DEF Functions, ConsumerMachine
<1>4. Fetched = IF pcb[0].IC = 0 THEN GP ELSE Instr("SR", 20)
  BY <1>1, <1>2 DEF HasForkingWords, Fetched, Address, WordAt
<1>5. Fetched.op = IF pcb[0].IC = 0 THEN "GP" ELSE "SR"
  BY <1>4 DEF GP, Instr
<1>6. Tick /\ Local(Fetched) /\ UNCHANGED <<shared, allocation>>
  BY <1>5, Decoded
<1>7. OnlyWaits' /\ numPID' = numPID /\ Blocked' = Blocked /\ Holder(0)' = Holder(0)
  BY <1>6, TickWaits
<1>8. br' = br /\ lr' = lr /\ heap' = heap /\ memoryNum' = memoryNum /\ shared' = shared
  BY <1>6 DEF allocation
<1>9. CASE pcb[0].IC = 0
  <2>1. Becomes(Data(0), C, 1) /\ memory' = memory
    BY <1>1, <1>5, <1>6, <1>9, LocalEffects DEF NextIC
  <2>2. DOMAIN pcb' = PCBs /\ pcb'[0].R = Data(0) /\ pcb'[0].IC = 1
    BY <1>1, <1>3, <2>1, BecomesSo
  <2>3. HasForkingWords(0)'
    BY <1>2, <1>8, <2>1 DEF HasForkingWords, WordAt
  <2>4. BeforeFork'
    BY <1>1, <1>2, <1>7, <1>8, <2>2, <2>3 DEF BeforeFork, Starts0, NoHolder
  <2> QED BY <1>3, <1>7, <1>8, <2>1, <2>2, <2>4 DEF Functions
<1>10. CASE pcb[0].IC = 1
  <2>1. Becomes(R, C, 2) /\ Write(20, Data(0))
    <3>1. Fetched.op = "SR" /\ Fetched.arg = 20 /\ R = Data(0)
      BY <1>2, <1>4, <1>10 DEF Instr
    <3>2. Becomes(R, C, NextIC) /\ Write(Fetched.arg, R)
      BY <1>6, <3>1, LocalEffects
    <3>3. NextIC = 2
      BY <1>1, <1>10 DEF NextIC
    <3> QED BY <3>1, <3>2, <3>3, Zenon
  <2>2. DOMAIN pcb' = PCBs /\ pcb'[0].IC = 2
    BY <1>1, <1>3, <2>1, BecomesSo
  <2>3. memory' = [memory EXCEPT ![20] = Data(0)]
    <3>1. Address(20) = 20
      BY <1>1, <1>2 DEF Address
    <3> QED BY <2>1, <3>1 DEF Write
  <2>4. /\ DOMAIN memory' = DOMAIN memory /\ WordAt(0, 20)' = Data(0)
        /\ \A k \in 0 .. 6 : WordAt(0, k)' = WordAt(0, k)
    <3>1. /\ DOMAIN memory' = DOMAIN memory /\ memory'[20] = Data(0)
          /\ \A k \in 0 .. 6 : memory'[k] = memory[k]
      BY <1>3, <2>3, MemoryAssumption DEF ConsumerMachine
    <3>2. \A k \in 0 .. 20 : WordAt(0, k)' = memory'[k] /\ WordAt(0, k) = memory[k]
      <4>1. \A k \in 0 .. 20 : 0 + k = k
        OBVIOUS
      <4> QED BY <1>2, <1>8, <4>1 DEF WordAt
    <3> QED BY <3>1, <3>2
  <2>5. HasForkingWords(0)'
    BY <1>2, <1>8, <2>4 DEF HasForkingWords
  <2>6. BeforeFork'
    BY <1>1, <1>2, <1>7, <1>8, <2>2, <2>4, <2>5 DEF BeforeFork, Starts0, NoHolder
  <2> QED BY <1>3, <1>7, <1>8, <2>2, <2>4, <2>6 DEF Functions
<1> QED BY <1>9, <1>10
-----------------------------------------------------------------------------
(***************************************************************************)
(* EX.                                                                     *)
(***************************************************************************)
LEMMA OwnMemory ==
  ASSUME ConsumerMachine, lr[current] = 40, br[current] = IF current = 1 THEN 40 ELSE 0,
         HoleFrom(heap, IF current = 1 THEN 80 ELSE 60)
  PROVE  LET released == A!AfterRelease(heap, br[current], lr[current]) IN
         /\ ~ A!ReleaseFails(heap, br[current], lr[current])
         /\ ~ A!Refuses(released, 20) /\ ~ A!Overruns(released, 20)
         /\ A!UsesLastHole(released, 20) /\ A!Location(released, 20) = br[current]
         /\ current = 1 => HoleFrom(A!AfterRequest(released, 20), 60)
<1>1. NSPACES > 1 /\ MEMORY > 100
  BY DEF ConsumerMachine
<1>2. CASE current = 1
  <2>1. br[current] = 40 /\ HoleFrom(heap, 80)
    BY <1>2
  <2> QED BY <1>1, <1>2, <2>1, CloneLoads
<1>3. CASE current # 1
  <2>1. br[current] = 0 /\ HoleFrom(heap, 60)
    BY <1>3
  <2> QED BY <1>1, <1>3, <2>1, ParentLoads
<1> QED BY <1>2, <1>3

LEMMA GetsOwnMemory20 ==
  ASSUME ConsumerMachine, lr[current] = 40, br[current] = IF current = 1 THEN 40 ELSE 0,
         HoleFrom(heap, IF current = 1 THEN 80 ELSE 60)
  PROVE  A!GetsOwnMemory(current, 20)
BY OwnMemory DEF A!GetsOwnMemory

LEMMA LoopFiles ==
  ASSUME ConsumerMachine, NEW f \in {"CO", "PR"}
  PROVE  f \in DOMAIN Files /\ Files[f].length = 20 /\ Len(Files[f].words) = 20
<1>1. /\ Loop("SU").length = 20 /\ Loop("AD").length = 20
      /\ Len(Loop("SU").words) = 20 /\ Len(Loop("AD").words) = 20
  BY LoopWords
<1>2. f \in DOMAIN Files /\ Files[f] \in {Loop("SU"), Loop("AD")}
  BY FilesOfConsumer
<1> QED BY <1>1, <1>2

LEMMA ExecSucceeds ==
  ASSUME ConsumerMachine, NEW f \in {"CO", "PR"}, Fetched = Instr("EX", f), ExecStep, numPID = 2,
         lr[current] = 40, br[current] = IF current = 1 THEN 40 ELSE 0,
         HoleFrom(heap, IF current = 1 THEN 80 ELSE 60)
  PROVE  /\ Tick /\ A!Load(current, 20, 20) /\ shared' = shared /\ Registers(R, SP, C, 0)
         /\ LoadFile(br[current], Files[f].words)
         /\ current = 1 => HoleFrom(heap', 60)
<1> DEFINE released == A!AfterRelease(heap, br[current], lr[current])
<1>1. /\ f \in DOMAIN Files /\ Files[f].length = 20 /\ Len(Files[f].words) = 20
      /\ Fetched.arg = f
  BY LoopFiles DEF Instr
<1>2. MEMORY > 100 /\ NPROC > 2 /\ MEMORY \in Nat /\ numPID # NPROC
  BY MemoryAssumption DEF ConsumerMachine
<1>3. /\ ~ A!ReleaseFails(heap, br[current], lr[current])
      /\ ~ A!Refuses(released, 20) /\ ~ A!Overruns(released, 20)
      /\ current = 1 => HoleFrom(A!AfterRequest(released, 20), 60)
  BY OwnMemory
<1> HIDE DEF released
<1>4. ~ A!LoadFails(current, 20, 20)
  BY <1>2, <1>3 DEF A!LoadFails, A!RequestFails, released
<1>5. /\ Tick /\ A!Load(current, 20, 20) /\ shared' = shared /\ Registers(R, SP, C, 0)
      /\ LoadFile(br[current], Files[f].words)
  BY <1>1, <1>4 DEF ExecStep
<1>6. heap' = A!AfterRequest(released, 20)
  BY <1>5 DEF A!Load, A!Request, released
<1> QED BY <1>3, <1>5, <1>6

LEMMA WordsLoaded ==
  ASSUME ConsumerMachine, NEW b \in {0, 40}, NEW words, Len(words) = 20, LoadFile(b, words),
         DOMAIN memory = 0 .. MEMORY - 1
  PROVE  /\ DOMAIN memory' = DOMAIN memory
         /\ \A k \in 0 .. 19 : memory'[b + k] = words[k + 1]
         /\ \A k \in 0 .. 20 : memory'[40 - b + k] = memory[40 - b + k]
<1>1. MEMORY > 100 /\ MEMORY \in Nat
  BY MemoryAssumption DEF ConsumerMachine
<1>2. memory' = [a \in DOMAIN memory |-> IF a \in b .. b + 19 THEN words[a - b + 1] ELSE memory[a]]
  <2>1. A!Block(b, Len(words)) = b .. b + 19
    BY DEF A!Block
  <2> QED BY <2>1 DEF LoadFile
<1>3. ASSUME NEW k \in 0 .. 19 PROVE memory'[b + k] = words[k + 1]
  <2> DEFINE a == b + k
  <2>1. a \in 0 .. MEMORY - 1 /\ a \in b .. b + 19 /\ a - b + 1 = k + 1
    BY <1>1
  <2> HIDE DEF a
  <2>2. memory'[a] = words[k + 1]
    BY <1>2, <2>1
  <2> QED BY <2>2 DEF a
<1>4. ASSUME NEW k \in 0 .. 20 PROVE memory'[40 - b + k] = memory[40 - b + k]
  <2> DEFINE a == 40 - b + k
  <2>1. a \in 0 .. MEMORY - 1 /\ a \notin b .. b + 19
    BY <1>1
  <2> HIDE DEF a
  <2>2. memory'[a] = memory[a]
    BY <1>2, <2>1
  <2> QED BY <2>2 DEF a
<1>5. DOMAIN memory' = DOMAIN memory
  BY <1>2
<1> QED BY <1>3, <1>4, <1>5, Zenon

LEMMA ExecFetches ==
  ASSUME current \in {0, 1}, Forked(current), pcb[current].IC \notin {3, 4}
  PROVE  Fetched = Instr("EX", IF current = 1 THEN "PR" ELSE "CO") /\ lr[current] = 40
<1>1. pcb[current].IC = 5 + current /\ lr[current] = 40
  BY DEF Forked, HasForkingWords
<1> QED BY <1>1, ForkedFetches

LEMMA ExecMoves ==
  ASSUME ConsumerMachine, PoliteInv, PoliteInv', OnlyWaits, Functions, Execute,
         numPID = 2, br[0] = 0, br[1] = 40, current \in {0, 1},
         Forked(current), pcb[current].IC \notin {3, 4},
         HoleFrom(heap, IF current = 1 THEN 80 ELSE 60)
  PROVE  /\ InLoop(current)' /\ Tick /\ shared' = shared /\ Functions'
         /\ \A q \in PCBs \ {current} : pcb'[q] = pcb[q] /\ lr'[q] = lr[q]
         /\ br'[0] = 0 /\ br'[1] = 40
         /\ \A k \in 0 .. 20 : WordAt(1 - current, k)' = WordAt(1 - current, k)
         /\ current = 1 => HoleFrom(heap', 60)
<1> DEFINE f == IF current = 1 THEN "PR" ELSE "CO"
           words == Files[f].words
           b == br[current]
<1>1. /\ current \in PCBs /\ current \notin Blocked /\ Holder(0) # current
      /\ 0 \in PCBs /\ 1 \in PCBs /\ 2 \in PCBs
  BY Runner, SchedAssumption DEF Forked, ConsumerMachine, PCBs
<1>2. /\ DOMAIN pcb = PCBs /\ DOMAIN br = PCBs /\ DOMAIN lr = PCBs
      /\ DOMAIN memory = 0 .. MEMORY - 1 /\ DOMAIN shared = Semas
  BY DEF Functions
<1>3. Fetched = Instr("EX", f) /\ lr[current] = 40 /\ f \in {"CO", "PR"}
  BY ExecFetches
<1>4. ExecStep
  BY <1>3, Decoded DEF Instr
<1>5. b = (IF current = 1 THEN 40 ELSE 0) /\ b \in {0, 40} /\ br[1 - current] = 40 - b
  OBVIOUS
<1>6. /\ Tick /\ A!Load(current, 20, 20) /\ shared' = shared /\ Registers(R, SP, C, 0)
      /\ LoadFile(b, words) /\ (current = 1 => HoleFrom(heap', 60))
  BY <1>3, <1>4, <1>5, ExecSucceeds
<1>7. PICK op \in {"SU", "AD"} : words = Loop(op).words
  BY FilesOfConsumer
<1>8. br' = [br EXCEPT ![2] = A!Location(A!AfterRelease(heap, br[current], lr[current]), 20)]
      /\ lr' = [lr EXCEPT ![current] = 20]
  BY <1>6 DEF A!Load, A!Request
<1>9. /\ br'[0] = 0 /\ br'[1] = 40 /\ br'[current] = b /\ lr'[current] = 20
      /\ DOMAIN br' = PCBs /\ DOMAIN lr' = PCBs
      /\ \A q \in PCBs \ {current} : lr'[q] = lr[q]
  BY <1>1, <1>2, <1>8
<1> HIDE DEF words, b, f
<1>10. /\ Len(words) = 20
       /\ words[1] = NP /\ words[2] = Instr("PE", 0) /\ words[3] = Instr("LS", 0)
       /\ words[4] = Instr(op, 10) /\ words[5] = Instr("ST", 0) /\ words[6] = Instr("VE", 0)
       /\ words[7] = Instr("BU", 1) /\ words[11] = Data(1)
  BY <1>7, LoopWords
<1>11. /\ DOMAIN memory' = DOMAIN memory
       /\ \A k \in 0 .. 19 : memory'[b + k] = words[k + 1]
       /\ \A k \in 0 .. 20 : memory'[40 - b + k] = memory[40 - b + k]
  <2>1. /\ Len(words) = 20 /\ LoadFile(b, words) /\ b \in {0, 40}
        /\ DOMAIN memory = 0 .. MEMORY - 1
    BY <1>2, <1>5, <1>6, <1>10
  <2>2. \A w : \A c \in {0, 40} :
          Len(w) = 20 /\ LoadFile(c, w) =>
            /\ DOMAIN memory' = DOMAIN memory
            /\ \A k \in 0 .. 19 : memory'[c + k] = w[k + 1]
            /\ \A k \in 0 .. 20 : memory'[40 - c + k] = memory[40 - c + k]
    BY <2>1, WordsLoaded
  <2> QED BY <2>1, <2>2, Zenon
<1>12. current' = current /\ Blocked' = Blocked /\ Holder(0)' = Holder(0)
  BY <1>6, TickWaits DEF Tick
<1>13. /\ pcb'[current].IC = 0 /\ DOMAIN pcb' = PCBs
       /\ \A q \in PCBs \ {current} : pcb'[q] = pcb[q]
  BY <1>1, <1>2, <1>6 DEF Registers
<1>14. \A k \in 0 .. 19 : WordAt(current, k)' = words[k + 1]
  BY <1>9, <1>11, <1>12 DEF WordAt
<1>15. HasLoopWords(current)'
  <2>1. /\ WordAt(current, 0)' = NP /\ WordAt(current, 1)' = Instr("PE", 0)
        /\ WordAt(current, 2)' = Instr("LS", 0) /\ WordAt(current, 3)' = Instr(op, 10)
        /\ WordAt(current, 4)' = Instr("ST", 0) /\ WordAt(current, 5)' = Instr("VE", 0)
        /\ WordAt(current, 6)' = Instr("BU", 1) /\ WordAt(current, 10)' = Data(1)
    BY <1>10, <1>14
  <2> QED BY <1>7, <1>9, <1>12, <2>1 DEF HasLoopWords
<1>16. InLoop(current)'
  BY <1>1, <1>12, <1>13, <1>15 DEF InLoop
<1>17. \A k \in 0 .. 20 : WordAt(1 - current, k)' = WordAt(1 - current, k)
  <2>1. br'[1 - current] = 40 - b
    BY <1>5, <1>9 DEF b
  <2> QED BY <1>5, <1>11, <1>12, <2>1 DEF WordAt
<1>18. Functions'
  BY <1>2, <1>6, <1>9, <1>11, <1>13 DEF Functions
<1> QED BY <1>6, <1>9, <1>13, <1>16, <1>17, <1>18
-----------------------------------------------------------------------------
(***************************************************************************)
(* The end of a slice.                                                     *)
(***************************************************************************)
LEMMA AllKept ==
  ASSUME UNCHANGED <<pcb, memory, shared, allocation, bq, semaphore, numPID, blockedOn, status>>
  PROVE  /\ \A p : Forked(p)' = Forked(p) /\ InLoop(p)' = InLoop(p)
         /\ BeforeFork' = BeforeFork /\ OnlyWaits' = OnlyWaits /\ Functions' = Functions
         /\ \A at : HoleFrom(heap, at)' = HoleFrom(heap, at)
<1>1. /\ br' = br /\ lr' = lr /\ heap' = heap /\ memoryNum' = memoryNum
      /\ pcb' = pcb /\ memory' = memory /\ shared' = shared /\ numPID' = numPID
      /\ blockedOn' = blockedOn /\ status' = status
      /\ Blocked' = Blocked /\ Holder(0)' = Holder(0)
  BY DEF allocation, Blocked, Holder
<1>2. \A p, k : WordAt(p, k)' = WordAt(p, k)
  BY <1>1 DEF WordAt
<1>3. \A p : Forked(p)' = Forked(p)
  BY <1>1, <1>2 DEF Forked, HasForkingWords
<1>4. \A p : InLoop(p)' = InLoop(p)
  BY <1>1, <1>2 DEF InLoop, HasLoopWords
<1>5. \A at : HoleFrom(heap, at)' = HoleFrom(heap, at)
  BY <1>1 DEF HoleFrom
<1>6. BeforeFork' = BeforeFork
  BY <1>1, <1>2, <1>5 DEF BeforeFork, Starts0, HasForkingWords
<1>7. OnlyWaits' = OnlyWaits
  BY <1>1 DEF OnlyWaits, Halted, BlockedIn, Created
<1>8. Functions' = Functions
  BY <1>1 DEF Functions
<1> QED BY <1>3, <1>4, <1>5, <1>6, <1>7, <1>8

\* The process that has the semaphore does not wait.
LEMMA HolderAwake ==
  ASSUME ConsumerInv
  PROVE  Holder(0) \notin Blocked
<1>1. Holder(0) \in Created \cup {NoHolder}
  BY DEF ConsumerInv, OnlyWaits
<1>2. Blocked \subseteq Nat
  <2>1. bq \in Seq(PCBs)
    BY DEF ConsumerInv, PoliteInv, IInv, Placed, SchedTypeOK
  <2>2. \A k \in DOMAIN bq : bq[k] \in PCBs
    BY <2>1
  <2> QED BY <2>2 DEF Blocked, Range, PCBs
<1>3. \A p : Forked(p) \/ InLoop(p) => p \notin Blocked \/ Holder(0) # p
  BY DEF Forked, InLoop
<1>4. CASE BeforeFork
  <2>1. Created = {0} /\ 0 \notin Blocked
    BY <1>4 DEF BeforeFork, Created, Starts0
  <2> QED BY <1>1, <1>2, <2>1 DEF NoHolder
<1>5. CASE AfterFork
  <2>1. \A p \in Created : p \notin Blocked \/ Holder(0) # p
    BY <1>3, <1>5 DEF AfterFork, Created
  <2> QED BY <1>1, <1>2, <2>1 DEF NoHolder
<1> QED BY <1>4, <1>5 DEF ConsumerInv

LEMMA SomeoneReady ==
  ASSUME ConsumerInv
  PROVE  ~ NothingReady
<1> SUFFICES ASSUME NothingReady PROVE FALSE
  OBVIOUS
<1>1. Placed /\ OnlyWaits
  BY DEF ConsumerInv, PoliteInv, IInv
<1>2. rq \in Seq(PCBs) /\ current \in Created /\ block \in [PCBs -> {0, 1}] /\ current \in PCBs
      /\ Created = Ready \cup Blocked \cup Halted \cup {current} /\ Halted = {}
      /\ (block[current] = 1 <=> current \in Blocked)
  BY <1>1 DEF Placed, SchedTypeOK, EveryProcessAccounted, OnlyWaits
<1>3. Append(rq, current) # <<>>
  BY <1>2
<1>4. block[current] = 1 /\ rq = <<>>
  BY <1>2, <1>3 DEF NothingReady, Requeued
<1>5. Ready = {}
  BY <1>4 DEF Ready, Range
<1>6. Created = Blocked /\ Blocked # {}
  BY <1>2, <1>4, <1>5
<1>7. Holder(0) \in Created
  BY <1>1, <1>6 DEF OnlyWaits
<1> QED BY <1>6, <1>7, HolderAwake

LEMMA OtherNext ==
  ASSUME ConsumerInv, numPID = 2, Blocked = {}, ContextSwitch
  PROVE  current \in {0, 1} /\ current' = 1 - current
<1>1. Placed /\ OnlyWaits
  BY DEF ConsumerInv, PoliteInv, IInv
<1>2. rq \in Seq(PCBs) /\ current \in Created /\ block \in [PCBs -> {0, 1}] /\ current \in PCBs
      /\ Created = Ready \cup {current} /\ current \notin Ready
      /\ (block[current] # 1)
  BY <1>1 DEF Placed, SchedTypeOK, EveryProcessAccounted, EachInOnePlace, OnlyWaits
<1>3. Created = {0, 1}
  BY DEF Created
<1>4. Requeued = Append(rq, current)
  BY <1>2 DEF Requeued
<1>5. Ready = {1 - current}
  <2>1. current \in {0, 1} /\ 1 - current \in {0, 1} /\ 1 - current # current
    BY <1>2, <1>3
  <2> QED BY <1>2, <1>3, <2>1
<1>6. rq # <<>>
  BY <1>5 DEF Ready, Range
<1>7. Head(Requeued) = Head(rq) /\ Head(rq) \in Ready
  BY <1>2, <1>4, <1>6 DEF Ready, Range
<1>8. current' = PidOf(1 - current)
  BY <1>5, <1>7 DEF ContextSwitch
<1> QED BY <1>2, <1>3, <1>8 DEF PidOf

LEMMA SwitchMoves ==
  ASSUME ConsumerInv, EndSlice
  PROVE  OnlyWaits' /\ Functions' /\ shared' = shared /\ (BeforeFork' \/ AfterFork')
<1>1. ContextSwitch /\ UNCHANGED <<pcb, memory, shared, allocation, semaphore>>
  BY SomeoneReady DEF EndSlice, SliceEnd
<1>2. /\ UNCHANGED <<bq, numPID, blockedOn, status>> /\ tdma >= TDMA_Setting /\ tdma' = 0
      /\ br' = br
  BY <1>1 DEF ContextSwitch, allocation
<1>3. /\ \A p : Forked(p)' = Forked(p) /\ InLoop(p)' = InLoop(p)
      /\ BeforeFork' = BeforeFork /\ OnlyWaits' = OnlyWaits /\ Functions' = Functions
      /\ \A at : HoleFrom(heap, at)' = HoleFrom(heap, at)
  BY <1>1, <1>2, AllKept
<1>4. OnlyWaits' /\ Functions' /\ shared' = shared
  BY <1>1, <1>3 DEF ConsumerInv
<1>5. CASE BeforeFork
  BY <1>3, <1>4, <1>5
<1>6. CASE AfterFork /\ ~ (Forked(0) /\ Forked(1) /\ HoleFrom(heap, 80) /\ CloneIsAhead)
  <2>1. AfterFork'
    BY <1>2, <1>3, <1>6 DEF AfterFork
  <2> QED BY <1>4, <2>1
<1>7. CASE AfterFork /\ Forked(0) /\ Forked(1) /\ HoleFrom(heap, 80) /\ CloneIsAhead
  <2>1. numPID = 2 /\ Blocked = {}
    <3>1. numPID = 2 /\ Created = {0, 1} /\ 0 \notin Blocked /\ 1 \notin Blocked
      BY <1>7 DEF AfterFork, Forked, Created
    <3>2. Blocked \subseteq Created
      BY DEF ConsumerInv, PoliteInv, IInv, Placed, EveryProcessAccounted
    <3> QED BY <3>1, <3>2
  <2>2. current \in {0, 1} /\ current' = 1 - current
    BY <1>1, <2>1, OtherNext
  <2>3. \A p : Done(p)' = Done(p)
    BY <1>1 DEF Done
  <2>4. CloneIsAhead'
    <3>1. Done(0) \in 0 .. 2 /\ Done(1) \in 0 .. 2 /\ TDMA_Setting \in Nat \ {0} /\ tdma \in Nat
      BY SchedAssumption DEF Done, ConsumerInv, PoliteInv, IInv, Placed, SchedTypeOK
    <3> QED BY <1>2, <1>7, <2>2, <2>3, <3>1 DEF CloneIsAhead
  <2>5. AfterFork'
    BY <1>2, <1>3, <1>7, <2>4 DEF AfterFork
  <2> QED BY <1>4, <2>5
<1> QED BY <1>5, <1>6, <1>7 DEF ConsumerInv
-----------------------------------------------------------------------------
(***************************************************************************)
(* The two processes take turns.                                           *)
(***************************************************************************)
Both == numPID = 2 /\ br[0] = 0 /\ br[1] = 40

\* What any instruction of the one leaves to the other, q.
LeavesOther(q) ==
  /\ OnlyWaits' /\ Functions' /\ Both' /\ current' = current
  /\ SameProgram(q) /\ SameTurn(q)
  /\ shared' = shared \/ StoresNext

LEMMA Pair ==
  ASSUME PoliteInv, Execute, Both
  PROVE  current \in {0, 1} /\ {0, 1} \subseteq PCBs
<1>1. current \in Created /\ Created = {0, 1} /\ Created \subseteq PCBs
  BY Runner DEF Both, Created
<1> QED BY <1>1

LEMMA ForkedLeaves ==
  ASSUME PoliteInv, PoliteInv', OnlyWaits, Functions, Both, Execute,
         Forked(current), pcb[current].IC \in {3, 4}, NEW q \in {0, 1} \ {current}
  PROVE  LeavesOther(q) /\ Forked(current)' /\ heap' = heap
<1>1. current \in {0, 1} /\ q \in PCBs \ {current}
  BY Pair
<1>2. /\ Forked(current)' /\ Tick /\ memory' = memory /\ UNCHANGED <<shared, allocation>>
      /\ DOMAIN pcb' = PCBs /\ pcb'[q] = pcb[q]
  BY <1>1, ForkedMoves
<1>3. OnlyWaits' /\ numPID' = numPID /\ Blocked' = Blocked /\ Holder(0)' = Holder(0)
      /\ current' = current
  BY <1>2, TickWaits DEF Tick
<1>4. br' = br /\ lr' = lr /\ heap' = heap
  BY <1>2 DEF allocation
<1>5. SameProgram(q)
  BY <1>2, <1>4 DEF SameProgram, WordAt
<1>6. SameTurn(q)
  BY <1>3 DEF SameTurn
<1>7. Functions'
  BY <1>2, <1>4 DEF Functions
<1> QED BY <1>2, <1>3, <1>4, <1>5, <1>6, <1>7 DEF LeavesOther, Both

LEMMA ExecLeaves ==
  ASSUME ConsumerMachine, PoliteInv, PoliteInv', OnlyWaits, Functions, Both, Execute,
         Forked(current), pcb[current].IC \notin {3, 4},
         HoleFrom(heap, IF current = 1 THEN 80 ELSE 60), NEW q \in {0, 1} \ {current}
  PROVE  LeavesOther(q) /\ InLoop(current)' /\ (current = 1 => HoleFrom(heap', 60))
<1>1. current \in {0, 1} /\ q = 1 - current /\ q \in PCBs \ {current}
  BY Pair
<1>2. br[0] = 0 /\ br[1] = 40 /\ numPID = 2
  BY DEF Both
<1>3. /\ InLoop(current)' /\ Tick /\ shared' = shared /\ Functions'
      /\ \A p \in PCBs \ {current} : pcb'[p] = pcb[p] /\ lr'[p] = lr[p]
      /\ br'[0] = 0 /\ br'[1] = 40
      /\ \A k \in 0 .. 20 : WordAt(1 - current, k)' = WordAt(1 - current, k)
      /\ current = 1 => HoleFrom(heap', 60)
  BY <1>1, <1>2, ExecMoves
<1>4. OnlyWaits' /\ numPID' = numPID /\ Blocked' = Blocked /\ Holder(0)' = Holder(0)
      /\ current' = current
  BY <1>3, TickWaits DEF Tick
<1>5. SameProgram(q)
  <2>1. br'[q] = br[q]
    BY <1>1, <1>2, <1>3
  <2>2. \A k \in 0 .. 20 : WordAt(q, k)' = WordAt(q, k)
    BY <1>1, <1>3, <1>4 DEF WordAt
  <2> QED BY <1>1, <1>3, <2>1, <2>2 DEF SameProgram
<1>6. SameTurn(q)
  BY <1>4 DEF SameTurn
<1> QED BY <1>2, <1>3, <1>4, <1>5, <1>6 DEF LeavesOther, Both

LEMMA LoopLeaves ==
  ASSUME PoliteInv, PoliteInv', ValuesTell, OnlyWaits, Functions, Both, Execute, InLoop(current),
         NEW q \in {0, 1} \ {current}
  PROVE  LeavesOther(q) /\ InLoop(current)' /\ heap' = heap
<1>1. current \in {0, 1} /\ q \in PCBs \ {current}
  BY Pair
<1>2. InLoop(current)' /\ TurnTaken /\ (shared' = shared \/ StoresNext)
  BY LoopMoves
<1>3. /\ OnlyWaits' /\ numPID' = numPID /\ current' = current
      /\ memory' = memory /\ UNCHANGED allocation
      /\ DOMAIN pcb' = PCBs /\ pcb'[q] = pcb[q] /\ SameTurn(q)
  BY <1>1, <1>2 DEF TurnTaken
<1>4. br' = br /\ lr' = lr /\ heap' = heap
  BY <1>3 DEF allocation
<1>5. SameProgram(q)
  BY <1>3, <1>4 DEF SameProgram, WordAt
<1>6. DOMAIN shared' = DOMAIN shared
  BY <1>2 DEF StoresNext
<1>7. Functions'
  BY <1>3, <1>4, <1>6 DEF Functions
<1> QED BY <1>2, <1>3, <1>4, <1>5, <1>7 DEF LeavesOther, Both

LEMMA OtherKept ==
  ASSUME NEW q, q # current, LeavesOther(q)
  PROVE  (Forked(q) => Forked(q)') /\ (InLoop(q) => InLoop(q)')
<1>1. SameProgram(q) /\ SameTurn(q) /\ (shared' = shared \/ Holder(0) # q)
  BY DEF LeavesOther, StoresNext
<1> QED BY <1>1, ForkedKept, LoopKept

\* The parent does not come to its EX as long as the clone has not.
LEMMA CloneStaysAhead ==
  ASSUME ConsumerMachine, PoliteInv, PoliteInv', OnlyWaits, Functions, Both, Execute,
         Forked(0), Forked(1), CloneIsAhead
  PROVE  IF pcb[current].IC \in {3, 4} THEN CloneIsAhead' ELSE current = 1
<1>1. current \in {0, 1} /\ {0, 1} \subseteq PCBs /\ Forked(current)
  BY Pair
<1>2. /\ Done(0) \in 0 .. 2 /\ Done(1) \in 0 .. 2 /\ tdma \in Nat /\ TDMA_Setting \in Nat \ {0}
      /\ tdma < TDMA_Setting
  BY Runner, SchedAssumption DEF Done, Execute
<1>3. CASE pcb[current].IC \in {3, 4}
  <2>1. /\ Tick /\ \A q \in PCBs \ {current} : pcb'[q] = pcb[q]
        /\ pcb'[current].IC = pcb[current].IC + 1 \/ pcb'[current].IC \in {5, 6}
        /\ pcb[current].IC = 3 => pcb'[current].IC = 4
    BY <1>1, <1>3, ForkedMoves
  <2>2. tdma' = tdma + 1 /\ current' = current
    BY <2>1 DEF Tick, Continue
  <2>3. /\ current = 0 => Done(0)' = Done(0) + 1 /\ Done(1)' = Done(1)
        /\ current = 1 => Done(1)' = Done(1) + 1 /\ Done(0)' = Done(0)
    BY <1>1, <1>3, <2>1 DEF Done
  <2>4. CloneIsAhead'
    BY <1>1, <1>2, <2>2, <2>3 DEF CloneIsAhead
  <2> QED BY <1>3, <2>4
<1>4. CASE pcb[current].IC \notin {3, 4}
  <2>1. Done(current) = 2
    BY <1>4 DEF Done
  <2>2. current # 0
    BY <1>2, <2>1 DEF CloneIsAhead
  <2> QED BY <1>1, <1>4, <2>2
<1> QED BY <1>3, <1>4

LEMMA AfterForkMoves ==
  ASSUME ConsumerMachine, ConsumerInv, PoliteInv', AfterFork, Execute
  PROVE  OnlyWaits' /\ Functions' /\ AfterFork' /\ (shared' = shared \/ StoresNext)
<1>1. PoliteInv /\ ValuesTell /\ OnlyWaits /\ Functions /\ Both
  BY DEF ConsumerInv, AfterFork, Both
<1>2. PICK p \in {0, 1} : p = current
  BY <1>1, Pair
<1>3. PICK q \in {0, 1} : q # p
  OBVIOUS
<1>4. q \in {0, 1} \ {current}
  BY <1>2, <1>3
<1>5. LeavesOther(q) => /\ OnlyWaits' /\ Functions' /\ Both' /\ (shared' = shared \/ StoresNext)
                        /\ current' = p
                        /\ (Forked(q) => Forked(q)') /\ (InLoop(q) => InLoop(q)')
  BY <1>2, <1>4, OtherKept DEF LeavesOther
<1>6. CASE Forked(0) /\ Forked(1) /\ HoleFrom(heap, 80) /\ CloneIsAhead
  <2>1. Forked(current) /\ Forked(q)
    BY <1>2, <1>6
  <2>2. CASE pcb[current].IC \in {3, 4}
    <3>1. LeavesOther(q) /\ Forked(current)' /\ heap' = heap
      BY <1>1, <1>4, <2>1, <2>2, ForkedLeaves
    <3>2. Forked(p)' /\ Forked(q)'
      BY <1>5, <2>1, <3>1
    <3>3. CloneIsAhead'
      BY <1>1, <1>6, <2>2, CloneStaysAhead
    <3>4. Forked(0)' /\ Forked(1)' /\ HoleFrom(heap', 80)
      BY <1>3, <1>6, <3>1, <3>2
    <3> QED BY <1>5, <3>1, <3>3, <3>4 DEF AfterFork, Both
  <2>3. CASE pcb[current].IC \notin {3, 4}
    <3>1. p = 1 /\ q = 0 /\ current = 1
      BY <1>1, <1>2, <1>3, <1>6, <2>3, CloneStaysAhead
    <3>2. LeavesOther(q) /\ InLoop(current)' /\ HoleFrom(heap', 60)
      BY <1>1, <1>4, <1>6, <2>1, <2>3, <3>1, ExecLeaves
    <3>3. Forked(0)' /\ InLoop(1)'
      BY <1>5, <2>1, <3>1, <3>2
    <3> QED BY <1>5, <3>2, <3>3 DEF AfterFork, Both
  <2> QED BY <2>2, <2>3
<1>7. CASE Forked(0) /\ InLoop(1) /\ HoleFrom(heap, 60)
  <2>1. CASE p = 0 /\ pcb[current].IC \in {3, 4}
    <3>1. q = 1 /\ Forked(current) /\ InLoop(q)
      BY <1>2, <1>3, <1>7, <2>1
    <3>2. LeavesOther(q) /\ Forked(current)' /\ heap' = heap
      BY <1>1, <1>4, <2>1, <3>1, ForkedLeaves
    <3>3. Forked(0)' /\ InLoop(1)' /\ HoleFrom(heap', 60)
      BY <1>5, <1>7, <2>1, <3>1, <3>2
    <3> QED BY <1>5, <3>2, <3>3 DEF AfterFork, Both
  <2>2. CASE p = 0 /\ pcb[current].IC \notin {3, 4}
    <3>1. q = 1 /\ Forked(current) /\ InLoop(q) /\ current = 0
      BY <1>2, <1>3, <1>7, <2>2
    <3>2. LeavesOther(q) /\ InLoop(current)'
      BY <1>1, <1>4, <1>7, <2>2, <3>1, ExecLeaves
    <3>3. InLoop(0)' /\ InLoop(1)'
      BY <1>5, <2>2, <3>1, <3>2
    <3> QED BY <1>5, <3>2, <3>3 DEF AfterFork, Both
  <2>3. CASE p = 1
    <3>1. q = 0 /\ Forked(q) /\ InLoop(current)
      BY <1>2, <1>3, <1>7, <2>3
    <3>2. LeavesOther(q) /\ InLoop(current)' /\ heap' = heap
      BY <1>1, <1>4, <3>1, LoopLeaves
    <3>3. Forked(0)' /\ InLoop(1)' /\ HoleFrom(heap', 60)
      BY <1>5, <1>7, <2>3, <3>1, <3>2
    <3> QED BY <1>5, <3>2, <3>3 DEF AfterFork, Both
  <2> QED BY <2>1, <2>2, <2>3
<1>8. CASE InLoop(0) /\ InLoop(1)
  <2>1. InLoop(current) /\ InLoop(q)
    BY <1>2, <1>8
  <2>2. LeavesOther(q) /\ InLoop(current)'
    BY <1>1, <1>4, <2>1, LoopLeaves
  <2>3. InLoop(p)' /\ InLoop(q)'
    BY <1>5, <2>1, <2>2
  <2>4. InLoop(0)' /\ InLoop(1)'
    BY <1>3, <2>3
  <2> QED BY <1>5, <2>2, <2>4 DEF AfterFork, Both
<1> QED BY <1>6, <1>7, <1>8 DEF AfterFork

-----------------------------------------------------------------------------
(***************************************************************************)
(* Every instruction that is fetched is one the machine can do.            *)
(***************************************************************************)
LEMMA StartFetches ==
  ASSUME PoliteInv, OnlyWaits, BeforeFork, tdma < TDMA_Setting
  PROVE  /\ current = 0
         /\ pcb[0].IC = 0 => Fetched = GP
         /\ pcb[0].IC = 1 => Fetched = Instr("SR", 20)
         /\ pcb[0].IC = 2 => Fetched = FK
<1>1. current = 0
  <2>1. current \in Created /\ Created = {0}
    BY Scheduled DEF OnlyWaits, BeforeFork, Created
  <2> QED BY <2>1
<1>2. HasForkingWords(0) /\ br[0] = 0
  BY DEF BeforeFork, Starts0
<1> QED BY <1>1, <1>2 DEF HasForkingWords, Fetched, Address, WordAt

\* The hole that EX finds, and the words and registers it finds it with.
ExecsCarefully ==
  /\ Fetched \in {Instr("EX", "CO"), Instr("EX", "PR")} /\ lr[current] = 40
  /\ br[current] = IF current = 1 THEN 40 ELSE 0
  /\ HoleFrom(heap, IF current = 1 THEN 80 ELSE 60)

LEMMA AheadNow ==
  ASSUME ConsumerMachine, CloneIsAhead, current \in {0, 1}, tdma \in Nat, tdma < TDMA_Setting,
         pcb[current].IC \notin {3, 4}
  PROVE  current = 1
<1>1. Done(0) \in 0 .. 2 /\ Done(1) \in 0 .. 2 /\ TDMA_Setting \in Nat \ {0}
  BY SchedAssumption DEF Done
<1>2. Done(current) = 2
  BY DEF Done
<1>3. current # 0
  BY <1>1, <1>2 DEF CloneIsAhead
<1> QED BY <1>3

LEMMA ForkedFetchesNow ==
  ASSUME Both, current \in {0, 1}, Forked(current),
         pcb[current].IC \notin {3, 4} => HoleFrom(heap, IF current = 1 THEN 80 ELSE 60)
  PROVE  Fetched.op \in {"CE", "BT"} \/ ExecsCarefully
<1>1. CASE pcb[current].IC \in {3, 4}
  BY <1>1, ForkedFetches DEF Instr
<1>2. CASE pcb[current].IC \notin {3, 4}
  BY <1>2, ExecFetches DEF ExecsCarefully, Both
<1> QED BY <1>1, <1>2

LEMMA LoopFetchesNow ==
  ASSUME InLoop(current)
  PROVE  Fetched.op \in {"NP", "PE", "LS", "SU", "AD", "ST", "VE", "BU"}
<1>1. pcb[current].IC \in 0 .. 6
  BY DEF InLoop
<1> QED BY <1>1, LoopFetches DEF Instr, NP

LEMMA FetchesNow ==
  ASSUME ConsumerMachine, ConsumerInv, tdma < TDMA_Setting
  PROVE  \/ Fetched.op \in {"NP", "GP", "CE", "BT", "PE", "LS", "SU", "AD", "ST", "VE", "BU"}
         \/ Fetched = Instr("SR", 20) /\ lr[current] = 40
         \/ Fetched = FK /\ lr[current] = 40 /\ HoleFrom(heap, 40)
         \/ ExecsCarefully
<1>1. PoliteInv /\ OnlyWaits /\ status = "running"
  BY DEF ConsumerInv, OnlyWaits
<1>2. CASE BeforeFork
  <2>1. lr[0] = 40 /\ HoleFrom(heap, 40) /\ pcb[0].IC \in 0 .. 2
    BY <1>2 DEF BeforeFork, Starts0, HasForkingWords
  <2> QED BY <1>1, <1>2, <2>1, StartFetches DEF GP, Instr
<1>3. CASE AfterFork
  <2>1. Both
    BY <1>3 DEF AfterFork, Both
  <2>2. current \in {0, 1} /\ tdma \in Nat
    <3>1. current \in Created /\ Created = {0, 1} /\ tdma \in Nat
      BY <1>1, <2>1, Scheduled DEF Both, Created
    <3> QED BY <3>1
  <2>3. CASE Forked(0) /\ Forked(1) /\ HoleFrom(heap, 80) /\ CloneIsAhead
    BY <2>1, <2>2, <2>3, AheadNow, ForkedFetchesNow
  <2>4. CASE Forked(0) /\ InLoop(1) /\ HoleFrom(heap, 60)
    <3>1. CASE current = 0
      BY <2>1, <2>2, <2>4, <3>1, ForkedFetchesNow
    <3>2. CASE current = 1
      BY <2>4, <3>2, LoopFetchesNow
    <3> QED BY <2>2, <3>1, <3>2
  <2>5. CASE InLoop(0) /\ InLoop(1)
    BY <2>2, <2>5, LoopFetchesNow
  <2> QED BY <1>3, <2>3, <2>4, <2>5 DEF AfterFork
<1> QED BY <1>2, <1>3 DEF ConsumerInv

LEMMA Behaves ==
  ASSUME ConsumerMachine, ConsumerInv
  PROVE  WellBehaved /\ ExitMeansDone
<1>1. status = "running"
  BY DEF ConsumerInv, OnlyWaits
<1>2. CASE tdma < TDMA_Setting
  <2>1. Fetched.op \notin {"SI", "PH"} \cup OnTheStack
    BY <1>2, FetchesNow DEF OnTheStack, ExecsCarefully, Instr, FK
  <2>2. Fetched.op = "SR" => Fetched.arg \in OwnOffsets
    <3>1. SUFFICES ASSUME Fetched.op = "SR" PROVE Fetched.arg \in OwnOffsets
      OBVIOUS
    <3>2. Fetched = Instr("SR", 20) /\ lr[current] = 40
      BY <1>2, <3>1, FetchesNow DEF ExecsCarefully, Instr, FK
    <3> QED BY <3>2 DEF OwnOffsets, Instr
  <2>3. Fetched.op = "FK" => A!UsesLastHole(heap, lr[current])
    <3>1. SUFFICES ASSUME Fetched.op = "FK" PROVE A!UsesLastHole(heap, lr[current])
      OBVIOUS
    <3>2. lr[current] = 40 /\ HoleFrom(heap, 40)
      BY <1>2, <3>1, FetchesNow DEF ExecsCarefully, Instr
    <3>3. 40 \in Nat \ {0} /\ 40 < MEMORY - 40
      BY MemoryAssumption DEF ConsumerMachine
    <3> QED BY <3>2, <3>3, FirstHole
  <2>4. Fetched.op = "EX" => A!GetsOwnMemory(current, Files[Fetched.arg].length)
    <3>1. SUFFICES ASSUME Fetched.op = "EX"
                   PROVE  A!GetsOwnMemory(current, Files[Fetched.arg].length)
      OBVIOUS
    <3>2. ExecsCarefully
      BY <1>2, <3>1, FetchesNow DEF Instr, FK
    <3>3. Fetched.arg \in {"CO", "PR"} /\ A!GetsOwnMemory(current, 20)
      BY <3>2, GetsOwnMemory20 DEF ExecsCarefully, Instr
    <3>4. Files[Fetched.arg].length = 20
      BY <3>3, LoopFiles
    <3> QED BY <3>3, <3>4
  <2> QED BY <1>1, <2>1, <2>2, <2>3, <2>4
          DEF WellBehaved, StoresRegs, AddressesOwnWords, AllocatesCarefully, Runs, ExitMeansDone
<1>3. CASE ~ tdma < TDMA_Setting
  BY <1>1, <1>3 DEF WellBehaved, StoresRegs, AddressesOwnWords, AllocatesCarefully, Runs, ExitMeansDone
<1> QED BY <1>2, <1>3
-----------------------------------------------------------------------------
(***************************************************************************)
(* The invariant.                                                          *)
(***************************************************************************)
LEMMA ExecuteMoves ==
  ASSUME ConsumerMachine, ConsumerInv, PoliteInv', Execute
  PROVE  OnlyWaits' /\ Functions' /\ (BeforeFork' \/ AfterFork') /\ (shared' = shared \/ StoresNext)
<1>1. PoliteInv /\ OnlyWaits /\ Functions
  BY DEF ConsumerInv
<1>2. CASE BeforeFork
  <2>1. pcb[0].IC \in 0 .. 2
    BY <1>2 DEF BeforeFork, Starts0
  <2>2. CASE pcb[0].IC \in {0, 1}
    BY <1>1, <1>2, <2>2, StartMoves
  <2>3. CASE pcb[0].IC = 2
    BY <1>1, <1>2, <2>3, ForkMoves
  <2> QED BY <2>1, <2>2, <2>3
<1>3. CASE AfterFork
  BY <1>3, AfterForkMoves
<1> QED BY <1>2, <1>3 DEF ConsumerInv

LEMMA IdleMoves ==
  ASSUME ConsumerInv, UNCHANGED machine
  PROVE  OnlyWaits' /\ Functions' /\ (BeforeFork' \/ AfterFork') /\ shared' = shared
<1>1. /\ UNCHANGED <<pcb, memory, shared, allocation, bq, semaphore, numPID, blockedOn, status>>
      /\ UNCHANGED <<current, tdma>>
  BY DEF machine, vars, schedVars
<1>2. /\ \A p : Forked(p)' = Forked(p) /\ InLoop(p)' = InLoop(p)
      /\ BeforeFork' = BeforeFork /\ OnlyWaits' = OnlyWaits /\ Functions' = Functions
      /\ \A at : HoleFrom(heap, at)' = HoleFrom(heap, at)
  BY <1>1, AllKept
<1>3. CloneIsAhead' = CloneIsAhead
  BY <1>1 DEF CloneIsAhead, Done
<1>4. br' = br
  BY <1>1 DEF allocation
<1>5. AfterFork' = AfterFork
  BY <1>1, <1>2, <1>3, <1>4 DEF AfterFork
<1> QED BY <1>1, <1>2, <1>5 DEF ConsumerInv

LEMMA ConsumerStep ==
  ASSUME ConsumerMachine, ConsumerInv, FirstLap', [ExecuteNext]_machine
  PROVE  ConsumerInv' /\ (shared' = shared \/ StoresNext)
<1>1. Text = ProgramText /\ PoliteInv /\ IInv /\ ValuesTell /\ status = "running"
  BY DEF ConsumerMachine, ConsumerInv, PoliteInv, OnlyWaits
<1>2. StoresRegs /\ ~ Runs({"SI"})
  <2>1. ~ Runs({"SI"})
    BY FetchesNow DEF Runs, ExecsCarefully, Instr, FK
  <2> QED BY <2>1 DEF StoresRegs
<1>3. PoliteInv'
  BY <1>1, <1>2, ProgramStep, NextPolite
<1>4. ValuesTell'
  BY <1>1, <1>2, ProgramTakesOrGives, Tells
<1>5. OnlyWaits' /\ Functions' /\ (BeforeFork' \/ AfterFork') /\ (shared' = shared \/ StoresNext)
  <2>1. CASE Execute
    BY <1>3, <2>1, ExecuteMoves
  <2>2. CASE EndSlice
    BY <2>2, SwitchMoves
  <2>3. CASE UNCHANGED machine
    BY <2>3, IdleMoves
  <2> QED BY <1>1, <2>1, <2>2, <2>3 DEF ExecuteNext, Off
<1> QED BY <1>3, <1>4, <1>5 DEF ConsumerInv

LEMMA Booted ==
  ASSUME ConsumerMachine, Boot
  PROVE  ConsumerInv
<1>1. PoliteInv /\ ValuesTell
  BY InitPolite, InitTells DEF Boot, ConsumerMachine
<1>2. PICK f \in Starts :
        /\ lr[0] = Files[f].length /\ memoryNum = Len(Files[f].words)
        /\ memory = [a \in 0 .. MEMORY - 1 |->
                       IF a < Len(Files[f].words) THEN Files[f].words[a + 1] ELSE Data(0)]
  BY DEF Boot
<1>3. Files[f] = ProConsumer
  BY FilesOfConsumer DEF ConsumerMachine
<1>4. /\ lr[0] = 40 /\ memoryNum = 8
      /\ memory = [a \in 0 .. MEMORY - 1 |-> IF a < 8 THEN ProConsumer.words[a + 1] ELSE Data(0)]
  BY <1>2, <1>3, ForkingWords
<1>5. PICK length \in {Files[g].length : g \in DOMAIN Files} :
        /\ heap = A!Heap([i \in 0 .. NSPACES - 1 |->
                             IF i = 0 THEN A!MemBlock(MEMORY - length, length, 0)
                             ELSE A!MemBlock(0, 0, 0)], 1, 1, length)
        /\ br = [p \in PCBs |-> 0]
        /\ lr = [p \in PCBs |-> IF p = 0 THEN length ELSE 0]
  BY DEF Boot, A!Init, A!PCBs, PCBs
<1>6. 0 \in PCBs /\ 0 \in 0 .. NSPACES - 1 /\ MEMORY > 100 /\ MEMORY \in Nat
  BY SchedAssumption, MemoryAssumption DEF PCBs, ConsumerMachine
<1>7. length = 40
  BY <1>4, <1>5, <1>6
<1>8. HoleFrom(heap, 40)
  BY <1>5, <1>6, <1>7 DEF HoleFrom, A!Heap
<1>9. HasForkingWords(0) /\ br[0] = 0
  <2>1. br[0] = 0
    BY <1>5, <1>6
  <2>2. \A k \in 0 .. 7 : memory[0 + k] = ProConsumer.words[k + 1]
    BY <1>4, <1>6
  <2>3. \A k \in 0 .. 7 : WordAt(0, k) = ProConsumer.words[k + 1]
    BY <2>1, <2>2 DEF WordAt
  <2>4. /\ WordAt(0, 0) = ProConsumer.words[1] /\ WordAt(0, 1) = ProConsumer.words[2]
        /\ WordAt(0, 2) = ProConsumer.words[3] /\ WordAt(0, 3) = ProConsumer.words[4]
        /\ WordAt(0, 4) = ProConsumer.words[5] /\ WordAt(0, 5) = ProConsumer.words[6]
        /\ WordAt(0, 6) = ProConsumer.words[7]
    BY <2>3
  <2> QED BY <1>4, <2>1, <2>4, ForkingWords DEF HasForkingWords
<1>10. /\ Blocked = {} /\ numPID = 1 /\ status = "running" /\ Halted = {}
       /\ Holder(0) = NoHolder
  BY <1>6, SemAssumption
     DEF Boot, Init, SchedInit, SemInit, Blocked, Range, Halted, Created, Holder, Semas,
         NoInstr, HaltInstr, Instr
<1>11. pcb = [p \in PCBs |-> NewPCB] /\ shared = [s \in Semas |-> 0]
  BY DEF Boot
<1>12. Functions
  BY <1>4, <1>5, <1>11 DEF Functions
<1>13. OnlyWaits
  BY <1>10 DEF OnlyWaits
<1>14. Starts0
  BY <1>6, <1>9, <1>10, <1>11 DEF Starts0, NewPCB, NoHolder
<1>15. BeforeFork
  BY <1>4, <1>8, <1>9, <1>10, <1>14 DEF BeforeFork
<1> QED BY <1>1, <1>12, <1>13, <1>15 DEF ConsumerInv

-----------------------------------------------------------------------------
(***************************************************************************)
(* What ProConsumer does until a ring comes to its last slot, where the    *)
(* rings fail: every beginning of a run that has not got there is one of a *)
(* behaviour of UntilLastSlot, which leaves out the fairness.              *)
(***************************************************************************)
UntilLastSlot == Boot /\ [][ExecuteNext]_machine /\ []FirstLap

LEMMA ConsumerInvariant ==
  ASSUME ConsumerMachine
  PROVE  UntilLastSlot => []ConsumerInv
<1>1. Boot => ConsumerInv
  BY Booted
<1>2. ConsumerInv /\ FirstLap' /\ [ExecuteNext]_machine => ConsumerInv'
  BY ConsumerStep
<1> QED BY <1>1, <1>2, PTL DEF UntilLastSlot

(***************************************************************************)
(* ProConsumer never stops the machine: no process runs off the block      *)
(* queue or finds the memory or the holes used up, and both never wait, so *)
(* that it does not exit while a process is left.                          *)
(***************************************************************************)
THEOREM ConsumerExits ==
  ASSUME ConsumerMachine
  PROVE  UntilLastSlot => [](status = "running" /\ ExitMeansDone)
<1>1. ConsumerInv => status = "running" /\ ExitMeansDone
  BY Behaves DEF ConsumerInv, OnlyWaits
<1> QED BY <1>1, ConsumerInvariant, PTL

(***************************************************************************)
(* ProConsumer keeps what the machine leaves to its programs: its SR       *)
(* writes a word of its own, and its FK and its two EX come in the order   *)
(* in which the allocator gives each process its own memory.               *)
(***************************************************************************)
THEOREM ConsumerBehaves ==
  ASSUME ConsumerMachine
  PROVE  UntilLastSlot => []WellBehaved
<1>1. ConsumerInv => WellBehaved
  BY Behaves
<1> QED BY <1>1, ConsumerInvariant, PTL

(***************************************************************************)
(* No update is lost: wherever the slices of the consumer and the producer *)
(* end, the word they share changes by one from the value that it has.     *)
(***************************************************************************)
THEOREM ConsumerCounts ==
  ASSUME ConsumerMachine
  PROVE  UntilLastSlot => UpdatesByOne
<1>1. ConsumerInv /\ FirstLap' /\ [ExecuteNext]_machine =>
        [\A s \in Semas : shared'[s] # shared[s] =>
           shared'[s] \in {(shared[s] + 1) % WORD, (shared[s] - 1) % WORD}]_machine
  <2> SUFFICES ASSUME ConsumerInv, FirstLap', [ExecuteNext]_machine, NEW s \in Semas,
                      shared'[s] # shared[s]
               PROVE  shared'[s] \in {(shared[s] + 1) % WORD, (shared[s] - 1) % WORD}
    OBVIOUS
  <2>1. StoresNext
    BY ConsumerStep
  <2>2. DOMAIN shared = Semas
    BY DEF ConsumerInv, Functions
  <2> QED BY <2>1, <2>2 DEF StoresNext
<1> QED BY <1>1, ConsumerInvariant, PTL DEF UntilLastSlot, UpdatesByOne

(***************************************************************************)
(* Neither process changes a word of the other one's program.              *)
(***************************************************************************)
THEOREM ConsumerIsolated ==
  ASSUME ConsumerMachine
  PROVE  UntilLastSlot => WritesStayInside
<1>1. Boot => IsolationInv
  BY BootIsolates DEF ConsumerMachine
<1>2. ConsumerInv => WellBehaved
  BY Behaves
<1>3. IsolationInv /\ WellBehaved /\ [ExecuteNext]_machine =>
        /\ IsolationInv'
        /\ [\A p \in Created \ {current} : \A a \in A!Program(p) : memory'[a] = memory[a]]_machine
  BY Isolates DEF ConsumerMachine, OthersKept
<1> QED BY <1>1, <1>2, <1>3, ConsumerInvariant, PTL DEF UntilLastSlot, WritesStayInside
=============================================================================
