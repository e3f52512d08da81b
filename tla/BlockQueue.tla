----------------------------- MODULE BlockQueue -----------------------------
(***************************************************************************)
(* blockq of sched.c over the linked list: how the scheduler uses its      *)
(* block queue.  blockq(pid, 1) enqueues; blockq(pid, 0) jumps to the      *)
(* front, steps backward to the first node with that PID and deletes it.   *)
(* The call is one step of Kernel; here each turn of its loop is a step.   *)
(* Values are the PIDs that the entries of the queue point at.             *)
(***************************************************************************)
EXTENDS CurlyQueue

VARIABLES
  walking,   \* whether a blockq(pid, 0) is under way
  pPID       \* the PID it looks for

bVars == <<qVars, walking, pPID>>

Push ==
  /\ ~ walking
  /\ Enqueue
  /\ UNCHANGED <<walking, pPID>>

PopStart ==
  /\ ~ walking
  /\ walking' = TRUE
  /\ pPID' \in Values
  /\ JumpToFront

(***************************************************************************)
(* A turn of the loop: get the value, compare it, step on or delete.  The  *)
(* value of a null iterator is NULL, which the comparison dereferences;    *)
(* IteratorIsLive says there is no other case.                             *)
(***************************************************************************)
RunOff ==
  /\ iterator = NULL
  /\ status' = "segv"
  /\ result' = <<"get", "null_iter">>
  /\ UNCHANGED <<list, iterator, curr, isRq, walking>>

WalkOn ==
  /\ iterator \in live
  /\ node[iterator].value # pPID
  /\ StepBackward
  /\ UNCHANGED walking

Found ==
  /\ iterator \in live
  /\ node[iterator].value = pPID
  /\ Delete
  /\ walking' = FALSE

Walk ==
  /\ walking
  /\ RunOff \/ WalkOn \/ Found
  /\ UNCHANGED pPID

\* buildq
bInit == qInit /\ isRq = FALSE /\ walking = FALSE /\ pPID \in Values

Running == status = "ok"

bNext ==
  \/ Running /\ (Push \/ PopStart \/ Walk)
  \/ ~ Running /\ UNCHANGED bVars

\* The thread that called blockq goes on with its loop.
bSpec == bInit /\ [][bNext]_bVars /\ WF_bVars(Running /\ Walk)
-----------------------------------------------------------------------------
(***************************************************************************)
(* The block queue of Sched, whose operators the kernel's handlers use.    *)
(* Every process is created, so that the PID of an entry is its index.     *)
(***************************************************************************)
MaxPIDs == 100

Sched ==
  INSTANCE Sched WITH
    NPROC <- MaxPIDs, TDMA_Setting <- 1, numPID <- MaxPIDs, bq <- Items,
    rq <- <<>>, current <- 0, tdma <- 0, block <- <<>>, blockedOn <- <<>>,
    status <- status

(***************************************************************************)
(* blockq does to the linked list what Kernel does to its sequence:        *)
(* blockq(pid, 0) unlinks the first entry of that PID and leaves the       *)
(* others in order, and it runs off the list exactly when there is none.   *)
(***************************************************************************)
UnlinksFirstEntry ==
  [][walking =>
       /\ ~ walking' => status' = "ok" /\ Items' = Sched!BqWithout(pPID)
       /\ walking' => Items' = Items
       /\ status' = "segv" => ~ Sched!IsBlocked(pPID)]_bVars

(***************************************************************************)
(* The iterator of the block queue, which is left over from earlier calls, *)
(* never points at a freed node.                                           *)
(***************************************************************************)
IteratorIsLive == ~ Dangling

(***************************************************************************)
(* The do-while loop of blockq ends.                                       *)
(***************************************************************************)
WalkEnds == walking ~> (~ walking \/ status = "segv")
=============================================================================
