------------------------------- MODULE Polite -------------------------------
(***************************************************************************)
(* Kernel under the discipline its message primitives need, and which      *)
(* nothing in the code enforces: a program sends only to a process that    *)
(* exists, is not itself, and is not at that moment blocked sending to it, *)
(* and receives from a process it names.  Under it SD and RC implement     *)
(* Rendezvous.                                                             *)
(***************************************************************************)
EXTENDS Kernel

SendsPolitely(d) == d \in Created \ {current} /\ d \notin BlockedIn("SD", current)

PoliteStep ==
  \E i \in Text : /\ i.op # "RX"
                  /\ i.op = "SD" => SendsPolitely(i.arg)
                  /\ Fetches(i)
                  /\ Instruction(i)

PoliteNext == PoliteStep \/ SliceEnd \/ Stopped

PoliteSpec == Init /\ [][PoliteNext]_vars /\ WF_vars(PoliteNext)

(***************************************************************************)
(* A process is sending while it is blocked in SD; it is receiving from    *)
(* the RC that blocked until that RC, tried again, has its message.        *)
(***************************************************************************)
Talk ==
  [p \in PCBs |->
     LET i == blockedOn[p] IN
     IF i.op = "SD" /\ p \in Blocked THEN [kind |-> "sending", with |-> {i.arg}]
     ELSE IF i.op = "RC" THEN [kind |-> "receiving", with |-> {i.arg}]
     ELSE [kind |-> "idle", with |-> {}]]

Synchronous == INSTANCE Rendezvous WITH Procs <- PCBs, talk <- Talk

(***************************************************************************)
(* Under the discipline the message instructions are synchronous.          *)
(***************************************************************************)
ImplementsRendezvous == Synchronous!Spec
-----------------------------------------------------------------------------
(***************************************************************************)
(* SI stores any value in a semaphore, held or not.  PE and VE keep to the *)
(* values 1 for a free semaphore and 0 for a held one.                     *)
(***************************************************************************)
ValuesTell ==
  \A s \in Semas : semaphore[s].value = IF Holder(s) = NoHolder THEN 1 ELSE 0

Owners == [s \in Semas |-> Holder(s)]
Lines == [s \in Semas |-> Ring(semaphore[s])]

Lock == INSTANCE FairLock WITH Procs <- PCBs, Locks <- Semas, NoOwner <- NoHolder,
                               owner <- Owners, line <- Lines, actor <- current

(***************************************************************************)
(* PE and VE are a fair lock: from its PE to its VE a process is the only  *)
(* holder, those that wait are served in the order in which they came, and *)
(* none of them runs before.                                               *)
(***************************************************************************)
ImplementsFairLock == Lock!Spec
=============================================================================
