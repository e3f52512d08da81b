---------------------------- MODULE CursorQueue ----------------------------
(***************************************************************************)
(* What the functions of curlyqueue.c do, without nodes: a queue of values *)
(* with a cursor that stays on its item while others come and go.  The     *)
(* abstract specification that the linked list of CurlyQueue implements.   *)
(*                                                                         *)
(* It follows the code where the comments there say otherwise:             *)
(*   - curlyqueue.c:318 says that after insert_before the iterator is at   *)
(*     the new node, which is so at the back only (PutBehind);             *)
(*   - curlyqueue.c:405 says that delete throws null_iter if the iterator  *)
(*     is not at an element, where it returns without a word (Delete).     *)
(***************************************************************************)
EXTENDS Integers, Sequences, SequencesExt

CONSTANTS
  Values,        \* what the queue holds
  MaxItems       \* Bound: the number of items memory has room for

VARIABLES
  items,    \* front first
  cursor,   \* the position the iterator is at, or NoItem or Lost
  result,   \* what the last call was and what it returned or threw
  status,   \* "ok", or why there are no more calls
  isRq      \* whether this is the ready queue

aVars == <<items, cursor, result, status, isRq>>

NoItem == 0
Lost == -1      \* the item the cursor was on has been dequeued

Returns(call, what) == result' = <<call, what>>

\* A call that changes nothing but the cursor.
MoveTo(call, position) ==
  /\ cursor' = position
  /\ Returns(call, "void")
  /\ UNCHANGED <<items, status, isRq>>

Report(call, what) ==
  /\ Returns(call, what)
  /\ UNCHANGED <<items, cursor, status, isRq>>

\* The caller went on with a cursor whose item is gone.
Misuse(call) ==
  /\ status' = "undefined"
  /\ Returns(call, "void")
  /\ UNCHANGED <<items, cursor, isRq>>

Back == Len(items)

Add(call, v) ==
  /\ Len(items) < MaxItems
  /\ items' = Append(items, v)
  /\ cursor' = Back + 1
  /\ Returns(call, "void")
  /\ UNCHANGED <<status, isRq>>

Enqueue == \E v \in Values : Add("enqueue", v)

Dequeue ==
  \/ /\ items # <<>>
     /\ items' = Tail(items)
     /\ cursor' = IF cursor = 1 THEN Lost
                  ELSE IF cursor > 1 THEN cursor - 1 ELSE cursor
     /\ Returns("dequeue", Head(items))
     /\ UNCHANGED <<status, isRq>>
  \/ items = <<>> /\ ~ isRq /\ Report("dequeue", "empty_q")
  \/ /\ items = <<>> /\ isRq
     /\ status' = "exit"
     /\ Returns("dequeue", "void")
     /\ UNCHANGED <<items, cursor, isRq>>

JumpToFront == MoveTo("jump_to_front", IF items = <<>> THEN NoItem ELSE 1)
JumpToBack == MoveTo("jump_to_back", Back)

\* A call that uses the item under the cursor.
Use(call, effect) ==
  \/ cursor = NoItem /\ Report(call, "null_iter")
  \/ cursor = Lost /\ Misuse(call)
  \/ cursor > 0 /\ effect

StepForward == Use("step_forward", MoveTo("step_forward", cursor - 1))

StepBackward ==
  Use("step_backward", MoveTo("step_backward", IF cursor = Back THEN NoItem ELSE cursor + 1))

GetValue == Use("get", Report("get", items[cursor]))

HasNext ==
  \/ items = <<>> /\ Report("has_next", "empty_q")
  \/ items # <<>> /\ Use("has_next", Report("has_next", IF cursor > 1 THEN 1 ELSE 0))

HasPrev ==
  \/ items = <<>> /\ Report("has_prev", "empty_q")
  \/ items # <<>> /\ Use("has_prev", Report("has_prev", IF cursor < Back THEN 1 ELSE 0))

\* Between the item and the one behind it; at the back this is an enqueue,
\* and only then is the cursor at the new item afterwards.
PutBehind(v) ==
  /\ Len(items) < MaxItems
  /\ items' = InsertAt(items, cursor + 1, v)
  /\ cursor' = IF cursor = Back THEN cursor + 1 ELSE cursor
  /\ Returns("insert_before", "void")
  /\ UNCHANGED <<status, isRq>>

InsertBefore ==
  \/ /\ ~ (cursor = Lost /\ Len(items) = 1)
     /\ Use("insert_before", \E v \in Values : PutBehind(v))
  \/ /\ cursor = Lost /\ Len(items) = 1
     /\ \E v \in Values : Add("insert_before", v)

\* Between the item and the one ahead of it.
PutAhead(v) ==
  /\ Len(items) < MaxItems
  /\ items' = InsertAt(items, cursor, v)
  /\ cursor' = cursor + 1
  /\ Returns("insert_after", "void")
  /\ UNCHANGED <<status, isRq>>

InsertAfter == Use("insert_after", \E v \in Values : PutAhead(v))

\* Without an item under the cursor it does nothing, and throws nothing.
Delete ==
  \/ (items = <<>> \/ cursor = NoItem) /\ Report("delete", "void")
  \/ items # <<>> /\ cursor = Lost /\ Misuse("delete")
  \/ /\ cursor > 0
     /\ items' = RemoveAt(items, cursor)
     /\ cursor' = NoItem
     /\ Returns("delete", "void")
     /\ UNCHANGED <<status, isRq>>

Destroy ==
  /\ items' = <<>>
  /\ cursor' = NoItem
  /\ status' = "destroyed"
  /\ Returns("destroy", "void")
  /\ UNCHANGED isRq

aInit ==
  /\ items = <<>>
  /\ cursor = NoItem
  /\ result = <<"create", "void">>
  /\ status = "ok"
  /\ isRq \in BOOLEAN

aNext ==
  /\ status = "ok"
  /\ \/ Enqueue \/ Dequeue
     \/ JumpToFront \/ JumpToBack \/ StepForward \/ StepBackward
     \/ GetValue \/ HasNext \/ HasPrev
     \/ InsertBefore \/ InsertAfter \/ Delete \/ Destroy

aSpec == aInit /\ [][aNext]_aVars
=============================================================================
