----------------------------- MODULE CurlyQueue -----------------------------
(***************************************************************************)
(* The doubly linked list of curlyqueue.c at the level of its pointers: a  *)
(* heap of nodes, the fields of the manager struct, and every function of  *)
(* the interface as an action.  next leads to the front, prev to the back. *)
(*                                                                         *)
(* Every caller passes an except_t, as sched.c does.                       *)
(***************************************************************************)
EXTENDS Integers, Sequences, FiniteSets

CONSTANTS
  Nodes,      \* Bound: the addresses malloc can return
  Values,     \* the values, pointers that the queue never follows
  NULL

ASSUME NodesAssumption == IsFiniteSet(Nodes) /\ NULL \notin Nodes

VARIABLES
  live,       \* the nodes allocated and not freed
  node,       \* the value, prev and next of every node
  front, back, iterator, count,
  curr,       \* the cursor of curlyqueue_destroy_queue
  result,     \* what the last call was and what it returned or threw
  status,     \* "ok", or why there are no more calls
  isRq        \* whether the struct is the one rq points at

list == <<live, node, front, back, count>>
qVars == <<list, iterator, curr, result, status, isRq>>

Node(v, p, n) == [value |-> v, prev |-> p, next |-> n]
Blank == Node(NULL, NULL, NULL)        \* memory malloc has not handed out

Returns(call, what) == result' = <<call, what>>

\* The calls that leave the list as it is.
Report(call, what) ==
  Returns(call, what) /\ UNCHANGED <<list, iterator, curr, status, isRq>>

MoveTo(call, n) ==
  /\ iterator' = n
  /\ Returns(call, "void")
  /\ UNCHANGED <<list, curr, status, isRq>>

\* The iterator is followed to a node that was freed: undefined behaviour.
Dangling == iterator \notin live \cup {NULL}

UseAfterFree(call) ==
  /\ Dangling
  /\ status' = "undefined"
  /\ Returns(call, "void")
  /\ UNCHANGED <<list, iterator, curr, isRq>>

(***************************************************************************)
(* create_node: malloc returns any free address.  Each caller links the    *)
(* neighbours of the new node and counts it.                               *)
(***************************************************************************)
CreateNode(n, v, p, x) == [node EXCEPT ![n] = Node(v, p, x)]

\* Mutant: the new node is not counted.
MallocUncounted(n) ==
  /\ n \in Nodes \ live
  /\ live' = live \cup {n}
  /\ UNCHANGED <<count, curr, status, isRq>>

Malloc(n) ==
  /\ n \in Nodes \ live
  /\ live' = live \cup {n}
  /\ count' = count + 1
  /\ UNCHANGED <<curr, status, isRq>>

IsEmpty == count = 0

\* Mutant: the old back does not learn of the node behind it.
AddUnlinked(call, n, v) ==
  /\ Malloc(n)
  /\ node' = CreateNode(n, v, NULL, back)
  /\ front' = IF IsEmpty THEN n ELSE front
  /\ back' = n
  /\ iterator' = n
  /\ Returns(call, "void")

Add(call, n, v) ==
  /\ Malloc(n)
  /\ node' = LET new == CreateNode(n, v, NULL, back)
             IN  IF IsEmpty THEN new ELSE [new EXCEPT ![back].prev = n]
  /\ front' = IF IsEmpty THEN n ELSE front
  /\ back' = n
  /\ iterator' = n
  /\ Returns(call, "void")

Enqueue == \E n \in Nodes, v \in Values : Add("enqueue", n, v)

(***************************************************************************)
(* dequeue.  The iterator is left where it is, also on the freed node.  An *)
(* empty ready queue is the end of the program.                            *)
(***************************************************************************)
FrontAfterPop == IF count = 1 THEN NULL ELSE node[front].prev

Pop ==
  /\ front' = FrontAfterPop
  /\ back' = IF count = 1 THEN NULL ELSE back
  /\ live' = live \ {front}
  /\ node' = LET freed == [node EXCEPT ![front] = Blank]
             IN  IF count = 1 THEN freed ELSE [freed EXCEPT ![FrontAfterPop].next = NULL]
  /\ count' = count - 1
  /\ Returns("dequeue", node[front].value)
  /\ UNCHANGED <<iterator, curr, status, isRq>>

Dequeue ==
  \/ ~ IsEmpty /\ Pop
  \/ IsEmpty /\ ~ isRq /\ Report("dequeue", "empty_q")
  \/ /\ IsEmpty /\ isRq
     /\ status' = "exit"
     /\ Returns("dequeue", "void")
     /\ UNCHANGED <<list, iterator, curr, isRq>>

(***************************************************************************)
(* The iterator.                                                           *)
(***************************************************************************)
\* Mutant: the wrong end.
JumpToOtherEnd == MoveTo("jump_to_front", back)

JumpToFront == MoveTo("jump_to_front", front)
JumpToBack == MoveTo("jump_to_back", back)

\* A function that returns on a null iterator and then follows it.
Follow(call, effect) ==
  \/ iterator = NULL /\ Report(call, "null_iter")
  \/ UseAfterFree(call)
  \/ iterator \in live /\ effect

\* Mutants: the wrong direction; no step.
StepOtherWay == Follow("step_forward", MoveTo("step_forward", node[iterator].prev))
StepNowhere == Follow("step_backward", MoveTo("step_backward", iterator))

StepForward == Follow("step_forward", MoveTo("step_forward", node[iterator].next))
StepBackward == Follow("step_backward", MoveTo("step_backward", node[iterator].prev))
GetValue == Follow("get", Report("get", node[iterator].value))

Flag(n) == IF n = NULL THEN 0 ELSE 1

HasNext ==
  \/ IsEmpty /\ Report("has_next", "empty_q")
  \/ ~ IsEmpty /\ Follow("has_next", Report("has_next", Flag(node[iterator].next)))

HasPrev ==
  \/ IsEmpty /\ Report("has_prev", "empty_q")
  \/ ~ IsEmpty /\ Follow("has_prev", Report("has_prev", Flag(node[iterator].prev)))

(***************************************************************************)
(* insert_value_before_iterator: towards the back.  A single node, or the  *)
(* back one, is not followed: the value is enqueued.  Only there does the  *)
(* iterator come to the new node.  Elsewhere (340-353) it stays, although  *)
(* curlyqueue.c:318 says "the q iter points at the enew node".             *)
(***************************************************************************)
\* Mutant: the back of a longer list is not told apart.
AtBackIfSingle == count = 1

AtBack == count = 1 \/ iterator = back

LinkBefore(n, v) ==
  LET p == node[iterator].prev IN
  /\ Malloc(n)
  /\ node' = [CreateNode(n, v, p, iterator) EXCEPT ![p].next = n, ![iterator].prev = n]
  /\ Returns("insert_before", "void")
  /\ UNCHANGED <<front, back, iterator>>

InsertBefore ==
  \/ iterator = NULL /\ Report("insert_before", "null_iter")
  \/ /\ iterator # NULL /\ AtBack
     /\ \E n \in Nodes, v \in Values : Add("insert_before", n, v)
  \/ ~ AtBack /\ UseAfterFree("insert_before")
  \/ /\ iterator \in live /\ ~ AtBack
     /\ \E n \in Nodes, v \in Values : LinkBefore(n, v)

(***************************************************************************)
(* insert_value_after_iterator: towards the front.                         *)
(***************************************************************************)
LinkAfter(n, v) ==
  LET x == node[iterator].next
      new == [CreateNode(n, v, iterator, x) EXCEPT ![iterator].next = n]
      atFront == count = 1 \/ iterator = front
  IN
  /\ Malloc(n)
  /\ node' = IF atFront THEN new ELSE [new EXCEPT ![x].prev = n]
  /\ front' = IF atFront THEN n ELSE front
  /\ Returns("insert_after", "void")
  /\ UNCHANGED <<back, iterator>>

InsertAfter ==
  Follow("insert_after", \E n \in Nodes, v \in Values : LinkAfter(n, v))

(***************************************************************************)
(* delete_value_at_iterator.  A null iterator is not reported to the       *)
(* caller (409), although curlyqueue.c:405 says "@throws null_iter if      *)
(* iterator is not set to an element".                                     *)
(***************************************************************************)
Bypassed(p, x) ==
  LET ahead == IF x = NULL THEN node ELSE [node EXCEPT ![x].prev = p]
  IN  IF p = NULL THEN ahead ELSE [ahead EXCEPT ![p].next = x]

\* Removes the node at the iterator, which has p behind it and x ahead.
TakeOut(p, x) ==
  /\ front' = IF iterator = front THEN p ELSE front
  /\ back' = IF iterator = back THEN x ELSE back
  /\ node' = [Bypassed(p, x) EXCEPT ![iterator] = Blank]
  /\ live' = live \ {iterator}
  /\ count' = count - 1

\* Mutant: the iterator stays.
UnlinkInPlace ==
  /\ TakeOut(node[iterator].prev, node[iterator].next)
  /\ Returns("delete", "void")
  /\ UNCHANGED <<iterator, curr, status, isRq>>

Unlink ==
  /\ TakeOut(node[iterator].prev, node[iterator].next)
  /\ iterator' = NULL
  /\ Returns("delete", "void")
  /\ UNCHANGED <<curr, status, isRq>>

Delete ==
  \/ (IsEmpty \/ iterator = NULL) /\ Report("delete", "void")
  \/ ~ IsEmpty /\ UseAfterFree("delete")
  \/ ~ IsEmpty /\ iterator \in live /\ Unlink

(***************************************************************************)
(* destroy_queue walks from the back and frees; it is one call, here one   *)
(* step for each turn of its loop, after which the struct is freed.        *)
(***************************************************************************)
\* Mutant: the walk starts at the front, where next is null.
DestroyFromFront ==
  /\ status' = "destroying"
  /\ curr' = front
  /\ Returns("destroy", "void")
  /\ UNCHANGED <<list, iterator, isRq>>

Destroy ==
  /\ status' = "destroying"
  /\ curr' = back
  /\ Returns("destroy", "void")
  /\ UNCHANGED <<list, iterator, isRq>>

DestroyNode ==
  /\ status = "destroying"
  /\ curr # NULL
  /\ curr' = node[curr].next
  /\ live' = live \ {curr}
  /\ node' = [node EXCEPT ![curr] = Blank]
  /\ count' = count - 1
  /\ UNCHANGED <<front, back, iterator, result, status, isRq>>

DestroyEnd ==
  /\ status = "destroying"
  /\ curr = NULL
  /\ status' = "destroyed"
  /\ UNCHANGED <<list, iterator, curr, result, isRq>>

qInit ==
  /\ live = {}
  /\ node = [n \in Nodes |-> Blank]
  /\ front = NULL /\ back = NULL /\ iterator = NULL /\ curr = NULL
  /\ count = 0
  /\ result = <<"create", "void">>
  /\ status = "ok"
  /\ isRq \in BOOLEAN

Call ==
  /\ status = "ok"
  /\ \/ Enqueue \/ Dequeue
     \/ JumpToFront \/ JumpToBack \/ StepForward \/ StepBackward
     \/ GetValue \/ HasNext \/ HasPrev
     \/ InsertBefore \/ InsertAfter \/ Delete \/ Destroy

Over == status \in {"exit", "undefined", "destroyed"} /\ UNCHANGED qVars

qNext == Call \/ DestroyNode \/ DestroyEnd \/ Over

qSpec == qInit /\ [][qNext]_qVars
-----------------------------------------------------------------------------
(***************************************************************************)
(* The types of the variables.                                             *)
(***************************************************************************)
Pointers == Nodes \cup {NULL}

qTypeOK ==
  /\ live \subseteq Nodes
  /\ node \in [Nodes -> [value : Values \cup {NULL}, prev : Pointers, next : Pointers]]
  /\ {front, back, iterator, curr} \subseteq Pointers
  /\ count \in Nat
  /\ status \in {"ok", "exit", "undefined", "destroying", "destroyed"}
  /\ isRq \in BOOLEAN

(***************************************************************************)
(* The nodes in the order dequeue comes to them, over prev.                *)
(***************************************************************************)
FromFront ==
  LET at[k \in 1 .. count] == IF k = 1 THEN front ELSE node[at[k - 1]].prev
  IN  at

(***************************************************************************)
(* The list is well linked: count steps over prev lead from the front to   *)
(* the back over every live node once, and next is the way back.  Inserts, *)
(* deletes and dequeues in any order update the five fields one at a time  *)
(* and must keep both directions, the ends and count in step.              *)
(***************************************************************************)
WellLinked ==
  status \notin {"destroying", "destroyed"} =>
    /\ count = Cardinality(live)
    /\ {FromFront[k] : k \in 1 .. count} = live
    /\ count = 0 => front = NULL /\ back = NULL
    /\ count > 0 => FromFront[count] = back /\ node[back].prev = NULL
                                          /\ node[front].next = NULL
    /\ \A k \in 2 .. count : node[FromFront[k]].next = FromFront[k - 1]

(***************************************************************************)
(* No node outlives the queue: the loop of destroy_queue frees them all    *)
(* and counts down to zero.                                                *)
(***************************************************************************)
NoLeak == status = "destroyed" => live = {} /\ count = 0

(***************************************************************************)
(* Every function, whatever it does to the pointers, does to the sequence  *)
(* of values and the place of the iterator in it what CursorQueue says:    *)
(* insertions, removals and moves of the iterator in any order keep the    *)
(* values in order, and the iterator at its value until that is dequeued.  *)
(***************************************************************************)
Items ==
  IF status \in {"destroying", "destroyed"} THEN <<>>
  ELSE [k \in 1 .. count |-> node[FromFront[k]].value]

Cursor ==
  IF iterator = NULL \/ status \in {"destroying", "destroyed"} THEN 0
  ELSE IF iterator \in live THEN CHOOSE k \in 1 .. count : FromFront[k] = iterator
  ELSE -1

Abstract ==
  INSTANCE CursorQueue WITH
    MaxItems <- Cardinality(Nodes), items <- Items, cursor <- Cursor,
    status <- IF status = "destroying" THEN "destroyed" ELSE status

ImplementsCursorQueue == Abstract!aSpec
=============================================================================
