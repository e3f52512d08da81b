----------------------------- MODULE MCPrograms -----------------------------
(* Program files of the repository, word by word, and one that computes on *)
(* the stack.  The digits of a word are its operand or a number.           *)
EXTENDS Programs

NP == Instr("NP", 0)
GP == Instr("GP", 0)
FK == Instr("FK", 0)
H == Instr("H", 0)
Zeros(n) == [k \in 1 .. n |-> Data(0)]
File(length, words) == [length |-> length, words |-> words]

\* ProConsumer forks a consumer and a producer, which loop.
ProConsumer ==
  File(40, <<GP, Instr("SR", 20), FK, Instr("CE", 20), Instr("BT", 6), Instr("EX", "CO"),
             Instr("EX", "PR"), H>>)

Loop(op) ==
  File(20, <<NP, Instr("PE", 0), Instr("LS", 0), Instr(op, 10), Instr("ST", 0), Instr("VE", 0),
             Instr("BU", 1), H, Data(0), Data(0), Data(1)>> \o Zeros(9))

\* philosopherseman forks three philosophers, each of which runs PH.
Philosophers ==
  File(50, <<Instr("BU", 11), Data(1), Data(1), Data(3), Data(4), Data(3), Data(6), Data(7),
             Data(8), Data(2), Data(0), NP, NP, NP, Instr("LR", 3), Instr("CE", 10),
             Instr("BT", 37), Instr("SU", 1), Instr("SR", 3), NP, FK, Instr("CE", 10),
             Instr("BT", 36), Instr("SR", 4), Instr("LR", 29), Instr("LL", 4), NP, NP, NP, NP,
             NP, NP, Instr("LR", 2), Instr("AD", 1), Instr("SR", 2), Instr("BU", 11),
             Instr("EX", "PH"), H>>)

Philosopher ==
  File(50, <<Instr("BU", 8), Data(1), Data(0), Data(0), Data(0), Data(3), Data(0), Data(0),
             GP, Instr("SU", 1), Instr("SR", 2), NP, Instr("LR", 15), Instr("LL", 2),
             Instr("SR", 15), Instr("PE", 0), Instr("LR", 2), Instr("AD", 1), Instr("SR", 3),
             Instr("DI", 5), Instr("MU", 3), Instr("SR", 4), Instr("LR", 3), Instr("SU", 4),
             Instr("SR", 6), Instr("LR", 28), Instr("LL", 6), Instr("SR", 28), Instr("PE", 0),
             Instr("LR", 32), Instr("LL", 2), Instr("SR", 32), Instr("VE", 0), Instr("LR", 36),
             Instr("LL", 6), Instr("SR", 36), Instr("VE", 0), H, Instr("LR", 3),
             Instr("SR", 2), H>>)

\* TP counts from 1 to 5.
Counting ==
  File(23, <<Instr("BU", 5), Data(1), Data(2), Data(3), Data(5), Instr("LR", 1),
             Instr("AD", 1), NP, NP, Instr("CE", 4), Instr("BT", 12), Instr("BU", 6), H>>)

\* TestFK: every process forks, again and again.
ForkBomb == File(12, <<FK, Instr("BU", 0)>>)

\* FT and ET: fork, and run each other.
ForkThenExec == File(10, <<FK, Instr("EX", "ET"), Instr("BU", 0)>>)
ExecThenLoop == File(10, <<Instr("BU", 1), Instr("EX", "FT"), Instr("BU", 0)>>)

\* A calculation on the stack, ((7 - 3) * 5 / 3 + 9999) modulo 10000; its last two bits.
Calculation ==
  File(60, <<Instr("LR", 30), Instr("SP", 0), Instr("LR", 31), Instr("PH", 0), Instr("LR", 32),
             Instr("PH", 0), Instr("SS", 0), Instr("LR", 33), Instr("PH", 0), Instr("MS", 0),
             Instr("LR", 32), Instr("PH", 0), Instr("DS", 0), Instr("LR", 34), Instr("PH", 0),
             Instr("AS", 0), Instr("PP", 0), Instr("SR", 35), Instr("PS", 0), Instr("CE", 30),
             Instr("BT", 22), H, Instr("LR", 35), Instr("CL", 31), Instr("SI", 1),
             Instr("LH", 32), H>> \o Zeros(3)
             \o <<Data(40), Data(7), Data(3), Data(5), Data(9999), Data(0)>>)

\* A file that is not there, then a division by zero.
Failing == File(5, <<Instr("EX", "??"), Instr("DI", 4), H, Data(0), Data(0)>>)

\* Forks until the memory seems insufficient; the clones and the caller halt.
Crowd ==
  File(60, <<FK, Instr("CE", 20), Instr("BT", 4), Instr("BU", 0), Instr("EX", "halt")>>
             \o Zeros(20))

MCFiles ==
  [f \in {"ProConsumer", "CO", "PR", "philosopherseman", "PH", "TP", "TestFK", "FT", "ET",
          "calculation", "failing", "crowd", "halt"} |->
     CASE f = "ProConsumer" -> ProConsumer
       [] f = "CO" -> Loop("SU")
       [] f = "PR" -> Loop("AD")
       [] f = "philosopherseman" -> Philosophers
       [] f = "PH" -> Philosopher
       [] f = "TP" -> Counting
       [] f = "TestFK" -> ForkBomb
       [] f = "FT" -> ForkThenExec
       [] f = "ET" -> ExecThenLoop
       [] f = "calculation" -> Calculation
       [] f = "failing" -> Failing
       [] f = "crowd" -> Crowd
       [] f = "halt" -> File(10, <<H>>)]
-----------------------------------------------------------------------------
(***************************************************************************)
(* CO and PR guard their LS, AD or SU, and ST with PE and VE: no update of *)
(* the shared word is lost, wherever a slice ends.                         *)
(***************************************************************************)
UpdatesByOne ==
  [][\A s \in Semas :
       shared'[s] # shared[s] => shared'[s] \in {(shared[s] + 1) % WORD, (shared[s] - 1) % WORD}
    ]_machine

(***************************************************************************)
(* A philosopher between its two acquisitions and its two releases holds   *)
(* both forks.  It wrote the numbers of the forks into its own PE and VE.  *)
(***************************************************************************)
Philosophizes(p) == p # 0 /\ lr[p] = 50 /\ memory[br[p]] = Instr("BU", 8)

EatsWithBothForks ==
  \A p \in Created :
    Philosophizes(p) /\ pcb[p].IC \in 29 .. 32 /\ p \notin Blocked =>
      Holder(p - 1) = p /\ Holder(p % 3) = p

(***************************************************************************)
(* What the calculating programs leave in R: TP the value it counts to,    *)
(* the other one the last two bits of the value of its expression.         *)
(***************************************************************************)
Results ==
  numPID = 1 /\ 0 \in Halted =>
    CASE lr[0] = 23 -> pcb[0].R = Data(5)
      [] lr[0] = 60 -> pcb[0].R = Data((((((7 - 3) * 5) \div 3) + 9999) % 10000) % 4) /\ pcb[0].C
      [] OTHER -> TRUE
=============================================================================
