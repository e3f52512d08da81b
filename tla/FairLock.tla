------------------------------ MODULE FairLock ------------------------------
(***************************************************************************)
(* What PE and VE promise: locks with one owner each, which is the only    *)
(* one to release it, and a line of processes that wait for it, do not run *)
(* meanwhile, and own it in the order in which they came.                  *)
(***************************************************************************)
EXTENDS Sequences, Functions

CONSTANTS Procs, Locks, NoOwner

VARIABLES
  owner,     \* the process that has each lock, or NoOwner
  line,      \* the processes that wait for it, first come first
  actor      \* the process that runs

Waiting(p) == \E l \in Locks : p \in Range(line[l])

Init ==
  /\ owner = [l \in Locks |-> NoOwner]
  /\ line = [l \in Locks |-> <<>>]
  /\ actor \in Procs

Take(l) ==
  /\ owner[l] = NoOwner
  /\ owner' = [owner EXCEPT ![l] = actor]
  /\ UNCHANGED line

Join(l) ==
  /\ owner[l] # NoOwner
  /\ line' = [line EXCEPT ![l] = Append(@, actor)]
  /\ UNCHANGED owner

Release(l) ==
  /\ owner[l] = actor
  /\ \/ line[l] = <<>> /\ owner' = [owner EXCEPT ![l] = NoOwner] /\ UNCHANGED line
     \/ /\ line[l] # <<>>
        /\ owner' = [owner EXCEPT ![l] = Head(line[l])]
        /\ line' = [line EXCEPT ![l] = Tail(@)]

Act == /\ ~ Waiting(actor)
       /\ \E l \in Locks : Take(l) \/ Join(l) \/ Release(l)
       /\ UNCHANGED actor

Switch == /\ actor' \in Procs
          /\ ~ Waiting(actor')
          /\ UNCHANGED <<owner, line>>

Next == Act \/ Switch

Spec == Init /\ [][Next]_<<owner, line, actor>>
=============================================================================
