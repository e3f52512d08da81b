----------------------------- MODULE Rendezvous -----------------------------
(***************************************************************************)
(* What SD and RC promise: synchronous messages.  A process that sends to  *)
(* another stays in its send until that process has received from it, and  *)
(* a process that receives stays in its receive until there is a message.  *)
(***************************************************************************)
CONSTANT Procs

VARIABLE talk      \* what each process waits for

Idle == [kind |-> "idle", with |-> {}]
Sending(d) == [kind |-> "sending", with |-> {d}]
Receiving(s) == [kind |-> "receiving", with |-> {s}]

Init == talk = [p \in Procs |-> Idle]

StartSend(p, d) ==
  /\ talk[p] = Idle
  /\ talk' = [talk EXCEPT ![p] = Sending(d)]

StartReceive(p, s) ==
  /\ talk[p] = Idle
  /\ talk' = [talk EXCEPT ![p] = Receiving(s)]

\* d takes the message p is sending it, whether or not it had begun to wait.
Meet(p, d) ==
  /\ talk[p] = Sending(d)
  /\ talk[d] \in {Idle, Receiving(p)}
  /\ talk' = [talk EXCEPT ![p] = Idle, ![d] = Idle]

Next == \E p, q \in Procs : StartSend(p, q) \/ StartReceive(p, q) \/ Meet(p, q)

Spec == Init /\ [][Next]_talk
=============================================================================
