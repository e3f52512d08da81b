----------------------------- MODULE ListProofs -----------------------------
(***************************************************************************)
(* The linked list is well linked, leaks nothing, and every function does  *)
(* to the sequence of its values and the iterator's place in it what       *)
(* CursorQueue says, for any number of nodes; and blockq does to it what   *)
(* Sched says it does to a sequence.                                       *)
(***************************************************************************)
EXTENDS BlockQueue, DataLemmas, FiniteSetTheorems

-----------------------------------------------------------------------------
(***************************************************************************)
(* The inductive invariant.  WellLinked follows the pointers; here the     *)
(* order they lead through is a witness.  While destroy_queue walks, the   *)
(* nodes it has not come to are still chained over next, and the cursor is *)
(* at the last of them.                                                    *)
(***************************************************************************)
Ahead(order, k) == IF k = 1 THEN NULL ELSE order[k - 1]
Behind(order, k) == IF k = Len(order) THEN NULL ELSE order[k + 1]
FirstOf(order) == IF order = <<>> THEN NULL ELSE order[1]
LastOf(order) == IF order = <<>> THEN NULL ELSE order[Len(order)]

\* The live nodes, each once, with the next of each.
Chained(order) ==
  /\ order \in Seq(Nodes)
  /\ Len(order) = count
  /\ \A k \in 1 .. count : order[k] \in live
  /\ \A j, k \in 1 .. count : order[j] = order[k] => j = k
  /\ \A n \in live : \E k \in 1 .. count : order[k] = n
  /\ \A k \in 1 .. count : node[order[k]].next = Ahead(order, k)

\* The other direction and the ends.
Whole(order) ==
  /\ \A k \in 1 .. count : node[order[k]].prev = Behind(order, k)
  /\ front = FirstOf(order)
  /\ back = LastOf(order)

NodeRecord == [value : Values \cup {NULL}, prev : Pointers, next : Pointers]

HeapTypes ==
  /\ live \subseteq Nodes
  /\ node \in [Nodes -> NodeRecord]
  /\ {front, back, iterator, curr} \subseteq Pointers
  /\ count \in Nat
  /\ isRq \in BOOLEAN

Walked == status \in {"destroying", "destroyed"}

ListInv ==
  /\ HeapTypes
  /\ count = Cardinality(live)
  /\ \E order : /\ Chained(order)
                /\ IF Walked THEN curr = LastOf(order) ELSE Whole(order)
  /\ status = "destroyed" => curr = NULL

\* The list of a queue that has not been destroyed.
Lists(order) == HeapTypes /\ count = Cardinality(live) /\ Chained(order) /\ Whole(order)

-----------------------------------------------------------------------------
(***************************************************************************)
(* What the pointers say about an order that is listed.                    *)
(***************************************************************************)
LEMMA LiveNode ==
  ASSUME NEW order, Lists(order), NEW n \in live
  PROVE  \E k \in 1 .. count : /\ order[k] = n
                               /\ node[n].next = Ahead(order, k)
                               /\ node[n].prev = Behind(order, k)
                               /\ (n = front <=> k = 1) /\ (n = back <=> k = count)
<1>1. count \in Nat /\ Len(order) = count /\ order \in Seq(Nodes)
  BY DEF Lists, HeapTypes, Chained
<1>2. PICK k \in 1 .. count : order[k] = n
  BY DEF Lists, Chained
<1>3. order # <<>> /\ 1 \in 1 .. count /\ count \in 1 .. count
  BY <1>1, <1>2
<1>4. front = order[1] /\ back = order[count]
  BY <1>1, <1>3 DEF Lists, Whole, FirstOf, LastOf
<1>5. (n = front <=> k = 1) /\ (n = back <=> k = count)
  BY <1>2, <1>3, <1>4 DEF Lists, Chained
<1> QED BY <1>2, <1>5 DEF Lists, Chained, Whole

\* Following prev from the front gives the order.
LEMMA FromFrontIsOrder ==
  ASSUME NEW order, Lists(order)
  PROVE  FromFront = order
<1> DEFINE Follows(f) ==
             f = [k \in 1 .. count |-> IF k = 1 THEN front ELSE node[f[k - 1]].prev]
<1>1. /\ count \in Nat /\ order \in Seq(Nodes) /\ Len(order) = count
      /\ \A k \in 1 .. count : node[order[k]].prev = Behind(order, k)
      /\ front = FirstOf(order)
  BY DEF Lists, HeapTypes, Chained, Whole
<1>2. \A k \in 1 .. count : order[k] = IF k = 1 THEN front ELSE node[order[k - 1]].prev
  <2> SUFFICES ASSUME NEW k \in 1 .. count
               PROVE  order[k] = IF k = 1 THEN front ELSE node[order[k - 1]].prev
    OBVIOUS
  <2>1. CASE k = 1
    BY <1>1, <2>1 DEF FirstOf
  <2>2. CASE k # 1
    <3>1. k - 1 \in 1 .. count /\ k - 1 # count /\ (k - 1) + 1 = k
      BY <1>1, <2>2
    <3> QED BY <1>1, <2>2, <3>1 DEF Behind
  <2> QED BY <2>1, <2>2
<1>3. Follows(order)
  <2>1. order = [k \in 1 .. count |-> order[k]]
    BY <1>1
  <2> QED BY <1>2, <2>1
<1>4. FromFront = CHOOSE f : Follows(f)
  BY Zenon DEF FromFront
<1>5. Follows(FromFront)
  BY <1>3, <1>4, Zenon
<1>6. ASSUME NEW f, Follows(f) PROVE f = order
  <2> DEFINE T == {k \in 1 .. count : f[k] # order[k]}
  <2>1. \A k \in 1 .. count : f[k] = IF k = 1 THEN front ELSE node[f[k - 1]].prev
    BY <1>6
  <2>2. ASSUME T # {} PROVE FALSE
    <3>1. PICK x \in T : \A y \in T : x <= y
      <4>1. T \in SUBSET Nat
        BY <1>1
      <4> QED BY <2>2, <4>1, NatMin
    <3>2. x \in 1 .. count /\ f[x] # order[x]
      OBVIOUS
    <3>3. x # 1
      BY <1>2, <2>1, <3>2
    <3>4. x - 1 \in 1 .. count /\ ~ (x <= x - 1)
      BY <1>1, <3>2, <3>3
    <3>5. f[x - 1] = order[x - 1]
      BY <3>1, <3>4
    <3> QED BY <1>2, <2>1, <3>2, <3>3, <3>5
  <2>3. \A k \in 1 .. count : f[k] = order[k]
    BY <2>2
  <2>4. f = [k \in 1 .. count |-> f[k]] /\ order = [k \in 1 .. count |-> order[k]]
    BY <1>1, <1>6
  <2> QED BY <2>3, <2>4
<1> QED BY <1>5, <1>6

LEMMA ListsAreWellLinked ==
  ASSUME ListInv
  PROVE  WellLinked /\ NoLeak
<1>1. ASSUME ~ Walked PROVE WellLinked
  <2>1. PICK order : Lists(order)
    BY <1>1 DEF ListInv, Lists
  <2>2. FromFront = order
    BY <2>1, FromFrontIsOrder
  <2>3. /\ count \in Nat /\ Len(order) = count /\ order \in Seq(Nodes)
        /\ {order[k] : k \in 1 .. count} = live
    BY <2>1 DEF Lists, HeapTypes, Chained
  <2>4. count = 0 => front = NULL /\ back = NULL
    BY <2>1, <2>3 DEF Lists, Whole, FirstOf, LastOf
  <2>5. ASSUME count > 0
        PROVE  order[count] = back /\ node[back].prev = NULL /\ node[front].next = NULL
    <3>1. order # <<>> /\ 1 \in 1 .. count /\ count \in 1 .. count
      BY <2>3, <2>5
    <3> QED BY <2>1, <2>3, <3>1 DEF Lists, Chained, Whole, FirstOf, LastOf, Ahead, Behind
  <2>6. \A k \in 2 .. count : node[order[k]].next = order[k - 1]
    <3>1. \A k \in 2 .. count : k \in 1 .. count /\ k # 1
      OBVIOUS
    <3> QED BY <2>1, <3>1 DEF Lists, Chained, Ahead
  <2> QED BY <2>1, <2>2, <2>3, <2>4, <2>5, <2>6 DEF WellLinked, Lists
<1>2. ASSUME status = "destroyed" PROVE live = {} /\ count = 0
  <2>1. PICK order : Chained(order) /\ curr = LastOf(order)
    BY <1>2 DEF ListInv, Walked
  <2>2. order = <<>>
    <3>1. ASSUME order # <<>> PROVE FALSE
      <4>1. order[Len(order)] \in Nodes
        BY <2>1, <3>1 DEF Chained
      <4> QED BY <1>2, <2>1, <3>1, <4>1, NodesAssumption DEF ListInv, LastOf
    <3> QED BY <3>1
  <2>3. count = 0
    BY <2>1, <2>2 DEF Chained
  <2> QED BY <2>1, <2>3 DEF Chained
<1> QED BY <1>1, <1>2 DEF WellLinked, NoLeak, Walked

-----------------------------------------------------------------------------
(***************************************************************************)
(* A new node n at place i of the order: what the inserts write, with the  *)
(* neighbours p behind it and x ahead.                                     *)
(***************************************************************************)
Inserts(n, v, p, x) ==
  /\ live' = live \cup {n}
  /\ count' = count + 1
  /\ \A m \in Nodes :
       node'[m] = IF m = n THEN Node(v, p, x)
                  ELSE Node(node[m].value, IF m = x THEN n ELSE node[m].prev,
                                           IF m = p THEN n ELSE node[m].next)
  /\ front' = IF x = NULL THEN n ELSE front
  /\ back' = IF p = NULL THEN n ELSE back

LEMMA InsertLinks ==
  ASSUME NEW order, Lists(order), NEW n \in Nodes \ live, NEW v, NEW i \in 1 .. count + 1,
         Inserts(n, v, IF i = count + 1 THEN NULL ELSE order[i], Ahead(order, i)),
         HeapTypes'
  PROVE  Lists(InsertAt(order, i, n))'
<1> DEFINE new == InsertAt(order, i, n)
           p == IF i = count + 1 THEN NULL ELSE order[i]
           x == Ahead(order, i)
           at(k) == IF k < i THEN k ELSE k + 1
<1>1. /\ count \in Nat /\ Len(order) = count /\ order \in Seq(Nodes) /\ NULL \notin Nodes
      /\ IsFiniteSet(live) /\ live \subseteq Nodes /\ n \notin live
  BY NodesAssumption, FS_Subset DEF Lists, HeapTypes, Chained
<1>2. /\ new \in Seq(Nodes) /\ Len(new) = count + 1
      /\ \A j \in 1 .. count + 1 :
           new[j] = IF j < i THEN order[j] ELSE IF j = i THEN n ELSE order[j - 1]
  <2>1. order \in Seq(Nodes) /\ i \in 1 .. Len(order) + 1 /\ n \in Nodes
    BY <1>1
  <2>2. new \in Seq(Nodes)
    BY <2>1, InsertAtEntries
  <2>3. Len(new) = Len(order) + 1
    BY <2>1, InsertAtEntries
  <2>4. ASSUME NEW j \in 1 .. Len(order) + 1
        PROVE  new[j] = IF j < i THEN order[j] ELSE IF j = i THEN n ELSE order[j - 1]
    BY <2>1, InsertAtEntries
  <2> QED BY <1>1, <2>2, <2>3, <2>4
<1> HIDE DEF new
<1>3. /\ live' = live \cup {n} /\ count' = count + 1
      /\ node'[n] = Node(v, p, x)
      /\ \A m \in live : node'[m] = Node(node[m].value, IF m = x THEN n ELSE node[m].prev,
                                                        IF m = p THEN n ELSE node[m].next)
  BY <1>1 DEF Inserts
<1>4. /\ \A k \in 1 .. count : order[k] \in live
      /\ \A j, k \in 1 .. count : order[j] = order[k] => j = k
      /\ \A m \in live : \E k \in 1 .. count : order[k] = m
      /\ \A k \in 1 .. count : /\ node[order[k]].next = Ahead(order, k)
                               /\ node[order[k]].prev = Behind(order, k)
      /\ front = FirstOf(order) /\ back = LastOf(order)
  BY DEF Lists, Chained, Whole
\* The old entries and where they are now.
<1>5. /\ new[i] = n
      /\ \A k \in 1 .. count : at(k) \in 1 .. count + 1 /\ at(k) # i /\ new[at(k)] = order[k]
      /\ \A j \in 1 .. count + 1 : j = i \/ \E k \in 1 .. count : j = at(k)
  <2>1. new[i] = n
    BY <1>2
  <2>2. ASSUME NEW k \in 1 .. count
        PROVE  at(k) \in 1 .. count + 1 /\ at(k) # i /\ new[at(k)] = order[k]
    <3>1. k < i \/ (k + 1 > i /\ k + 1 \in 1 .. count + 1 /\ (k + 1) - 1 = k)
      BY <1>1
    <3> QED BY <1>1, <1>2, <3>1
  <2>3. ASSUME NEW j \in 1 .. count + 1, j # i
        PROVE  \E k \in 1 .. count : j = at(k)
    <3>1. CASE j < i
      <4>1. j \in 1 .. count /\ j = at(j)
        BY <1>1, <3>1
      <4> QED BY <4>1
    <3>2. CASE j > i
      <4>1. j - 1 \in 1 .. count /\ j = at(j - 1)
        BY <1>1, <3>2
      <4> QED BY <4>1
    <3> QED BY <1>1, <2>3, <3>1, <3>2
  <2> QED BY <2>1, <2>2, <2>3
<1>6. /\ \A j \in 1 .. count + 1 : new[j] \in live \cup {n}
      /\ \A m \in live \cup {n} : \E j \in 1 .. count + 1 : new[j] = m
      /\ \A j, k \in 1 .. count + 1 : new[j] = new[k] => j = k
  <2>1. \A j \in 1 .. count + 1 : new[j] \in live \cup {n}
    BY <1>4, <1>5
  <2>2. \A m \in live \cup {n} : \E j \in 1 .. count + 1 : new[j] = m
    BY <1>4, <1>5
  <2>3. ASSUME NEW j \in 1 .. count + 1, NEW k \in 1 .. count + 1, new[j] = new[k]
        PROVE  j = k
    <3>1. ASSUME NEW m \in 1 .. count + 1, m # i PROVE new[m] # n
      <4>1. PICK a \in 1 .. count : new[m] = order[a]
        BY <1>5, <3>1
      <4> QED BY <1>1, <1>4, <4>1
    <3>2. CASE j = i \/ k = i
      BY <1>5, <2>3, <3>1, <3>2
    <3>3. CASE j # i /\ k # i
      <4>1. PICK a \in 1 .. count : j = at(a) /\ new[j] = order[a]
        BY <1>5, <3>3
      <4>2. PICK b \in 1 .. count : k = at(b) /\ new[k] = order[b]
        BY <1>5, <3>3
      <4>3. a = b
        BY <1>4, <2>3, <4>1, <4>2
      <4> QED BY <4>1, <4>2, <4>3
    <3> QED BY <3>2, <3>3
  <2> QED BY <2>1, <2>2, <2>3
\* The neighbours of each.
<1>7. /\ Ahead(new, i) = x /\ Behind(new, i) = p
  <2>1. Ahead(new, i) = x
    BY <1>1, <1>2 DEF Ahead
  <2>2. ASSUME i = count + 1 PROVE Behind(new, i) = p
    BY <1>2, <2>2 DEF Behind
  <2>3. ASSUME i # count + 1 PROVE Behind(new, i) = p
    <3>1. i + 1 \in 1 .. count + 1 /\ (i + 1) - 1 = i /\ ~ (i + 1 < i) /\ i + 1 # i
      BY <1>1, <2>3
    <3> QED BY <1>2, <2>3, <3>1 DEF Behind
  <2> QED BY <2>1, <2>2, <2>3
<1>8. ASSUME NEW k \in 1 .. count
      PROVE  /\ Ahead(new, at(k)) = IF order[k] = p THEN n ELSE Ahead(order, k)
             /\ Behind(new, at(k)) = IF order[k] = x THEN n ELSE Behind(order, k)
  <2>1. order[k] = p <=> k = i
    BY <1>1, <1>4
  <2>2. order[k] = x <=> k = i - 1
    <3>1. CASE i = 1
      BY <1>1, <1>4, <3>1 DEF Ahead
    <3>2. CASE i # 1
      <4>1. i - 1 \in 1 .. count
        BY <1>1, <3>2
      <4> QED BY <1>4, <3>2, <4>1 DEF Ahead
    <3> QED BY <3>1, <3>2
  <2>3. CASE k < i
    <3>1. Ahead(new, at(k)) = Ahead(order, k)
      <4>1. k # 1 => k - 1 \in 1 .. count + 1 /\ k - 1 < i
        BY <1>1, <2>3
      <4> QED BY <1>2, <2>3, <4>1 DEF Ahead
    <3>2. CASE k = i - 1
      <4>1. k + 1 = i /\ k # count + 1
        BY <1>1, <3>2
      <4> QED BY <1>2, <1>5, <2>1, <2>2, <2>3, <3>1, <3>2, <4>1 DEF Behind
    <3>3. CASE k # i - 1
      <4>1. k + 1 \in 1 .. count + 1 /\ k + 1 < i /\ k # count + 1 /\ k # count
        BY <1>1, <2>3, <3>3
      <4>2. Behind(new, at(k)) = order[k + 1] /\ Behind(order, k) = order[k + 1]
        BY <1>1, <1>2, <2>3, <4>1 DEF Behind
      <4> QED BY <2>1, <2>2, <2>3, <3>1, <3>3, <4>2
    <3> QED BY <3>2, <3>3
  <2>4. CASE ~ (k < i)
    <3>1. k # i - 1
      BY <1>1, <2>4
    <3>2. Behind(new, at(k)) = Behind(order, k)
      <4>1. k = count <=> k + 1 = count + 1
        BY <1>1
      <4>2. CASE k # count
        <5>1. k + 2 \in 1 .. count + 1 /\ (k + 1) + 1 = k + 2 /\ (k + 2) - 1 = k + 1
              /\ ~ (k + 2 < i) /\ k + 2 # i
          BY <1>1, <2>4, <4>2
        <5> QED BY <1>1, <1>2, <2>4, <4>1, <4>2, <5>1 DEF Behind
      <4> QED BY <1>1, <1>2, <2>4, <4>1, <4>2 DEF Behind
    <3>3. CASE k = i
      <4>1. (k + 1) - 1 = i /\ k + 1 # 1
        BY <1>1, <3>3
      <4>2. Ahead(new, at(k)) = n
        BY <1>5, <2>4, <4>1 DEF Ahead
      <4> QED BY <2>1, <2>2, <3>1, <3>2, <3>3, <4>2
    <3>4. CASE k # i
      <4>1. /\ k + 1 # 1 /\ k # 1 /\ (k + 1) - 1 = k /\ k \in 1 .. count + 1
            /\ k - 1 \in 1 .. count
        BY <1>1, <2>4, <3>4
      <4>2. Ahead(new, at(k)) = order[k - 1]
        BY <1>2, <2>4, <3>4, <4>1 DEF Ahead
      <4>3. Ahead(order, k) = order[k - 1]
        BY <4>1 DEF Ahead
      <4> QED BY <2>1, <2>2, <3>1, <3>2, <3>4, <4>2, <4>3
    <3> QED BY <3>3, <3>4
  <2> QED BY <2>3, <2>4
<1>9. \A j \in 1 .. count + 1 : /\ node'[new[j]].next = Ahead(new, j)
                                /\ node'[new[j]].prev = Behind(new, j)
  <2> SUFFICES ASSUME NEW j \in 1 .. count + 1
               PROVE  /\ node'[new[j]].next = Ahead(new, j)
                      /\ node'[new[j]].prev = Behind(new, j)
    OBVIOUS
  <2>1. CASE j = i
    BY <1>3, <1>5, <1>7, <2>1 DEF Node
  <2>2. CASE j # i
    <3>1. PICK k \in 1 .. count : j = at(k) /\ new[j] = order[k]
      BY <1>5, <2>2
    <3>2. /\ node'[order[k]].next = IF order[k] = p THEN n ELSE node[order[k]].next
          /\ node'[order[k]].prev = IF order[k] = x THEN n ELSE node[order[k]].prev
      <4>1. order[k] \in live
        BY <1>4
      <4>2. node'[order[k]] = Node(node[order[k]].value,
                                   IF order[k] = x THEN n ELSE node[order[k]].prev,
                                   IF order[k] = p THEN n ELSE node[order[k]].next)
        BY <1>3, <4>1
      <4> QED BY <4>2 DEF Node
    <3> QED BY <1>4, <1>8, <3>1, <3>2
  <2> QED BY <2>1, <2>2
<1>10. front' = new[1] /\ back' = new[count + 1] /\ new # <<>>
  <2>1. new # <<>> /\ 1 \in 1 .. count + 1 /\ count + 1 \in 1 .. count + 1
    BY <1>1, <1>2
  <2>2. front' = new[1]
    <3>1. CASE i = 1
      BY <1>2, <2>1, <3>1 DEF Inserts, Ahead
    <3>2. CASE i # 1
      <4>1. 1 < i /\ i - 1 \in 1 .. count /\ order # <<>>
        BY <1>1, <3>2
      <4>2. x \in Nodes
        BY <1>1, <1>4, <3>2, <4>1 DEF Ahead
      <4> QED BY <1>1, <1>2, <1>4, <2>1, <4>1, <4>2 DEF Inserts, FirstOf
    <3> QED BY <3>1, <3>2
  <2>3. back' = new[count + 1]
    <3>1. CASE i = count + 1
      BY <1>2, <2>1, <3>1 DEF Inserts
    <3>2. CASE i # count + 1
      <4>1. /\ ~ (count + 1 < i) /\ (count + 1) - 1 = count /\ i \in 1 .. count
            /\ order # <<>>
        BY <1>1, <3>2
      <4>2. p \in Nodes
        BY <1>1, <1>4, <3>2, <4>1
      <4> QED BY <1>1, <1>2, <1>4, <2>1, <3>2, <4>1, <4>2 DEF Inserts, LastOf
    <3> QED BY <3>1, <3>2
  <2> QED BY <2>1, <2>2, <2>3
<1>11. Cardinality(live \cup {n}) = count + 1
  BY <1>1, FS_AddElement DEF Lists
<1>12. Chained(new)'
  BY <1>2, <1>3, <1>6, <1>9 DEF Chained
<1>13. Whole(new)'
  BY <1>2, <1>3, <1>9, <1>10 DEF Whole, FirstOf, LastOf
<1> QED BY <1>3, <1>11, <1>12, <1>13 DEF Lists, new

(***************************************************************************)
(* The node n at place i goes: what dequeue and delete write.              *)
(***************************************************************************)
Removes(n, p, x) ==
  /\ live' = live \ {n}
  /\ count' = count - 1
  /\ \A m \in Nodes \ {n} :
       node'[m] = Node(node[m].value, IF m = x THEN p ELSE node[m].prev,
                                      IF m = p THEN x ELSE node[m].next)
  /\ front' = IF n = front THEN p ELSE front
  /\ back' = IF n = back THEN x ELSE back

LEMMA RemoveLinks ==
  ASSUME NEW order, Lists(order), NEW i \in 1 .. count,
         Removes(order[i], Behind(order, i), Ahead(order, i)), HeapTypes'
  PROVE  Lists(RemoveAt(order, i))'
<1> DEFINE new == RemoveAt(order, i)
           n == order[i]
           p == Behind(order, i)
           x == Ahead(order, i)
           from(j) == IF j < i THEN j ELSE j + 1
<1>1. /\ count \in Nat /\ Len(order) = count /\ order \in Seq(Nodes) /\ NULL \notin Nodes
      /\ IsFiniteSet(live) /\ live \subseteq Nodes /\ n \in live
  BY NodesAssumption, FS_Subset DEF Lists, HeapTypes, Chained
<1>2. /\ new \in Seq(Nodes) /\ Len(new) = count - 1
      /\ \A j \in 1 .. count - 1 : new[j] = order[from(j)]
  <2>1. i \in 1 .. Len(order)
    BY <1>1
  <2>2. /\ new \in Seq(Nodes) /\ Len(new) = Len(order) - 1
        /\ \A j \in 1 .. Len(order) - 1 : new[j] = IF j < i THEN order[j] ELSE order[j + 1]
    BY <1>1, <2>1, RemoveAtEntries
  <2> QED BY <1>1, <2>2
<1> HIDE DEF new
<1>3. /\ live' = live \ {n} /\ count' = count - 1
      /\ \A m \in live \ {n} :
           node'[m] = Node(node[m].value, IF m = x THEN p ELSE node[m].prev,
                                          IF m = p THEN x ELSE node[m].next)
  BY <1>1 DEF Removes
<1>4. /\ \A k \in 1 .. count : order[k] \in live
      /\ \A j, k \in 1 .. count : order[j] = order[k] => j = k
      /\ \A m \in live : \E k \in 1 .. count : order[k] = m
      /\ \A k \in 1 .. count : /\ node[order[k]].next = Ahead(order, k)
                               /\ node[order[k]].prev = Behind(order, k)
      /\ front = FirstOf(order) /\ back = LastOf(order)
  BY DEF Lists, Chained, Whole
\* The entries that stay and where they were.
<1>5. /\ \A j \in 1 .. count - 1 : from(j) \in 1 .. count /\ from(j) # i
      /\ \A k \in 1 .. count : k = i \/ \E j \in 1 .. count - 1 : k = from(j)
      /\ \A j, k \in 1 .. count - 1 : from(j) = from(k) => j = k
  <2>1. \A j \in 1 .. count - 1 : from(j) \in 1 .. count /\ from(j) # i
    BY <1>1
  <2>2. ASSUME NEW k \in 1 .. count, k # i
        PROVE  \E j \in 1 .. count - 1 : k = from(j)
    <3>1. CASE k < i
      <4>1. k \in 1 .. count - 1 /\ k = from(k)
        BY <1>1, <3>1
      <4> QED BY <4>1
    <3>2. CASE k > i
      <4>1. k - 1 \in 1 .. count - 1 /\ k = from(k - 1)
        BY <1>1, <3>2
      <4> QED BY <4>1
    <3> QED BY <1>1, <2>2, <3>1, <3>2
  <2>3. \A j, k \in 1 .. count - 1 : from(j) = from(k) => j = k
    BY <1>1
  <2> QED BY <2>1, <2>2, <2>3
<1>6. /\ \A j \in 1 .. count - 1 : new[j] \in live \ {n}
      /\ \A m \in live \ {n} : \E j \in 1 .. count - 1 : new[j] = m
      /\ \A j, k \in 1 .. count - 1 : new[j] = new[k] => j = k
  <2>1. ASSUME NEW j \in 1 .. count - 1 PROVE new[j] \in live \ {n}
    <3>1. PICK k \in 1 .. count : new[j] = order[k] /\ k # i
      BY <1>2, <1>5
    <3> QED BY <1>1, <1>4, <3>1
  <2>2. ASSUME NEW m \in live \ {n} PROVE \E j \in 1 .. count - 1 : new[j] = m
    <3>1. PICK k \in 1 .. count : order[k] = m
      BY <1>4
    <3>2. PICK j \in 1 .. count - 1 : k = from(j)
      BY <1>5, <3>1
    <3> QED BY <1>2, <3>1, <3>2
  <2>3. ASSUME NEW j \in 1 .. count - 1, NEW k \in 1 .. count - 1, new[j] = new[k]
        PROVE  j = k
    <3>1. order[from(j)] = order[from(k)]
      BY <1>2, <2>3
    <3>2. from(j) = from(k)
      BY <1>4, <1>5, <3>1
    <3> QED BY <1>5, <3>2
  <2> QED BY <2>1, <2>2, <2>3
\* The neighbours of each.
<1>7. ASSUME NEW j \in 1 .. count - 1
      PROVE  /\ Ahead(new, j) = IF order[from(j)] = p THEN x ELSE Ahead(order, from(j))
             /\ Behind(new, j) = IF order[from(j)] = x THEN p ELSE Behind(order, from(j))
  <2>1. order[from(j)] = p <=> from(j) = i + 1
    <3>1. CASE i = count
      BY <1>1, <1>4, <1>5, <3>1 DEF Behind
    <3>2. CASE i # count
      <4>1. i + 1 \in 1 .. count
        BY <1>1, <3>2
      <4> QED BY <1>1, <1>4, <1>5, <3>2, <4>1 DEF Behind
    <3> QED BY <3>1, <3>2
  <2>2. order[from(j)] = x <=> from(j) = i - 1
    <3>1. CASE i = 1
      BY <1>1, <1>4, <1>5, <3>1 DEF Ahead
    <3>2. CASE i # 1
      <4>1. i - 1 \in 1 .. count
        BY <1>1, <3>2
      <4> QED BY <1>4, <1>5, <3>2, <4>1 DEF Ahead
    <3> QED BY <3>1, <3>2
  <2>3. Ahead(new, j) = IF from(j) = i + 1 THEN x ELSE Ahead(order, from(j))
    <3>1. CASE j = 1
      BY <1>1, <3>1 DEF Ahead
    <3>2. CASE j # 1
      <4>1. j - 1 \in 1 .. count - 1 /\ from(j) # 1 /\ new[j - 1] = order[from(j - 1)]
        BY <1>1, <1>2, <3>2
      <4>2. from(j - 1) = IF from(j) = i + 1 THEN i - 1 ELSE from(j) - 1
        BY <1>1, <3>2
      <4>3. from(j) = i + 1 => i # 1
        BY <1>1, <3>2
      <4> QED BY <3>2, <4>1, <4>2, <4>3 DEF Ahead
    <3> QED BY <3>1, <3>2
  <2>4. Behind(new, j) = IF from(j) = i - 1 THEN p ELSE Behind(order, from(j))
    <3>1. CASE j = count - 1
      <4>1. from(j) = IF i = count THEN i - 1 ELSE count
        BY <1>1, <3>1
      <4>2. i # count => from(j) # i - 1
        BY <1>1, <4>1
      <4> QED BY <1>1, <1>2, <3>1, <4>1, <4>2 DEF Behind
    <3>2. CASE j # count - 1
      <4>1. j + 1 \in 1 .. count - 1 /\ from(j) # count /\ new[j + 1] = order[from(j + 1)]
        BY <1>1, <1>2, <3>2
      <4>2. from(j + 1) = IF from(j) = i - 1 THEN i + 1 ELSE from(j) + 1
        BY <1>1, <3>2
      <4>3. from(j) = i - 1 => i # count
        BY <1>1, <3>2
      <4> QED BY <1>1, <1>2, <3>2, <4>1, <4>2, <4>3 DEF Behind
    <3> QED BY <3>1, <3>2
  <2> QED BY <2>1, <2>2, <2>3, <2>4
<1>8. \A j \in 1 .. count - 1 : /\ node'[new[j]].next = Ahead(new, j)
                                /\ node'[new[j]].prev = Behind(new, j)
  <2> SUFFICES ASSUME NEW j \in 1 .. count - 1
               PROVE  /\ node'[new[j]].next = Ahead(new, j)
                      /\ node'[new[j]].prev = Behind(new, j)
    OBVIOUS
  <2> DEFINE m == new[j]
  <2>1. m \in live \ {n} /\ m = order[from(j)] /\ from(j) \in 1 .. count
    BY <1>2, <1>5, <1>6
  <2>2. node'[m] = Node(node[m].value, IF m = x THEN p ELSE node[m].prev,
                                       IF m = p THEN x ELSE node[m].next)
    BY <1>3, <2>1
  <2>3. /\ node'[m].next = IF m = p THEN x ELSE node[m].next
        /\ node'[m].prev = IF m = x THEN p ELSE node[m].prev
    BY <2>2 DEF Node
  <2>4. node[m].next = Ahead(order, from(j)) /\ node[m].prev = Behind(order, from(j))
    BY <1>4, <2>1
  <2> QED BY <1>7, <2>1, <2>3, <2>4
<1>9. order # <<>> /\ 1 \in 1 .. count /\ count \in 1 .. count
      /\ front = order[1] /\ back = order[count]
  <2>1. order # <<>> /\ 1 \in 1 .. count /\ count \in 1 .. count
    BY <1>1
  <2> QED BY <1>1, <1>4, <2>1 DEF FirstOf, LastOf
<1>10. front' = FirstOf(new) /\ back' = LastOf(new)
  <2>1. CASE count = 1
    <3>1. new = <<>> /\ i = 1 /\ n = front /\ n = back
      BY <1>2, <1>9, <2>1
    <3> QED BY <1>1, <2>1, <3>1 DEF Removes, FirstOf, LastOf, Ahead, Behind
  <2>2. CASE count # 1
    <3>1. 1 \in 1 .. count - 1 /\ count - 1 \in 1 .. count - 1 /\ new # <<>>
      BY <1>1, <1>2, <2>2
    <3>2. new[1] = order[from(1)] /\ new[count - 1] = order[from(count - 1)]
      BY <1>2, <3>1
    <3>3. front' = new[1]
      <4>1. CASE i = 1
        BY <1>1, <1>9, <2>2, <3>2, <4>1 DEF Removes, Behind
      <4>2. CASE i # 1
        <5>1. n # front /\ from(1) = 1
          BY <1>1, <1>4, <1>9, <4>2
        <5> QED BY <1>9, <3>2, <5>1 DEF Removes
      <4> QED BY <4>1, <4>2
    <3>4. back' = new[count - 1]
      <4>1. CASE i = count
        <5>1. from(count - 1) = i - 1 /\ i # 1 /\ n = back
          BY <1>1, <1>9, <2>2, <4>1
        <5> QED BY <3>2, <5>1 DEF Removes, Ahead
      <4>2. CASE i # count
        <5>1. n # back /\ from(count - 1) = count
          BY <1>1, <1>4, <1>9, <4>2
        <5> QED BY <1>9, <3>2, <5>1 DEF Removes
      <4> QED BY <4>1, <4>2
    <3> QED BY <1>2, <3>1, <3>3, <3>4 DEF FirstOf, LastOf
  <2> QED BY <2>1, <2>2
<1>11. Cardinality(live \ {n}) = count - 1
  BY <1>1, FS_RemoveElement DEF Lists
<1>12. Chained(new)'
  BY <1>2, <1>3, <1>6, <1>8 DEF Chained
<1>13. Whole(new)'
  BY <1>2, <1>3, <1>8, <1>10 DEF Whole
<1> QED BY <1>3, <1>11, <1>12, <1>13 DEF Lists, new

-----------------------------------------------------------------------------
(***************************************************************************)
(* Writing one field of a node.                                            *)
(***************************************************************************)
LEMMA NodeFields ==
  ASSUME NEW v, NEW p, NEW x
  PROVE  /\ Node(v, p, x).value = v /\ Node(v, p, x).prev = p /\ Node(v, p, x).next = x
         /\ v \in Values \cup {NULL} /\ p \in Pointers /\ x \in Pointers =>
              Node(v, p, x) \in NodeRecord
BY DEF Node, NodeRecord

LEMMA IsNode ==
  ASSUME NEW r \in NodeRecord
  PROVE  /\ r = Node(r.value, r.prev, r.next)
         /\ r.value \in Values \cup {NULL} /\ r.prev \in Pointers /\ r.next \in Pointers
BY DEF NodeRecord, Node

LEMMA SetNode ==
  ASSUME NEW f \in [Nodes -> NodeRecord], NEW a \in Nodes, NEW r \in NodeRecord
  PROVE  /\ [f EXCEPT ![a] = r] \in [Nodes -> NodeRecord]
         /\ \A m \in Nodes : [f EXCEPT ![a] = r][m] = IF m = a THEN r ELSE f[m]
OBVIOUS

LEMMA SetPrev ==
  ASSUME NEW f \in [Nodes -> NodeRecord], NEW a \in Nodes, NEW b \in Pointers
  PROVE  /\ [f EXCEPT ![a].prev = b] \in [Nodes -> NodeRecord]
         /\ \A m \in Nodes : [f EXCEPT ![a].prev = b][m] =
                               IF m = a THEN Node(f[m].value, b, f[m].next) ELSE f[m]
<1>1. [f[a] EXCEPT !.prev = b] = Node(f[a].value, b, f[a].next)
  BY DEF NodeRecord, Node
<1>2. Node(f[a].value, b, f[a].next) \in NodeRecord
  BY IsNode, NodeFields
<1>3. [f EXCEPT ![a].prev = b] = [f EXCEPT ![a] = Node(f[a].value, b, f[a].next)]
  BY <1>1
<1> QED BY <1>2, <1>3, SetNode

LEMMA SetNext ==
  ASSUME NEW f \in [Nodes -> NodeRecord], NEW a \in Nodes, NEW b \in Pointers
  PROVE  /\ [f EXCEPT ![a].next = b] \in [Nodes -> NodeRecord]
         /\ \A m \in Nodes : [f EXCEPT ![a].next = b][m] =
                               IF m = a THEN Node(f[m].value, f[m].prev, b) ELSE f[m]
<1>1. [f[a] EXCEPT !.next = b] = Node(f[a].value, f[a].prev, b)
  BY DEF NodeRecord, Node
<1>2. Node(f[a].value, f[a].prev, b) \in NodeRecord
  BY IsNode, NodeFields
<1>3. [f EXCEPT ![a].next = b] = [f EXCEPT ![a] = Node(f[a].value, f[a].prev, b)]
  BY <1>1
<1> QED BY <1>2, <1>3, SetNode

-----------------------------------------------------------------------------
(***************************************************************************)
(* The functions of the interface, on a list that is whole: what each one  *)
(* writes is an insertion at a place, or a removal from one.               *)
(***************************************************************************)
LEMMA ListFacts ==
  ASSUME NEW order, Lists(order)
  PROVE  /\ count \in Nat /\ Len(order) = count /\ order \in Seq(Nodes) /\ NULL \notin Nodes
         /\ node \in [Nodes -> NodeRecord] /\ live \subseteq Nodes
         /\ \A k \in 1 .. count : order[k] \in live
         /\ \A m \in Nodes : node[m] = Node(node[m].value, node[m].prev, node[m].next)
         /\ (count = 0 => front = NULL /\ back = NULL)
         /\ (count # 0 => /\ 1 \in 1 .. count /\ count \in 1 .. count
                          /\ front = order[1] /\ back = order[count])
<1>1. /\ count \in Nat /\ Len(order) = count /\ order \in Seq(Nodes) /\ NULL \notin Nodes
      /\ node \in [Nodes -> NodeRecord] /\ live \subseteq Nodes
      /\ \A k \in 1 .. count : order[k] \in live
  BY NodesAssumption DEF Lists, HeapTypes, Chained
<1>2. \A m \in Nodes : node[m] = Node(node[m].value, node[m].prev, node[m].next)
  BY <1>1, IsNode
<1>3. CASE count = 0
  BY <1>1, <1>2, <1>3 DEF Lists, Whole, FirstOf, LastOf
<1>4. CASE count # 0
  <2>1. order # <<>> /\ 1 \in 1 .. count /\ count \in 1 .. count
    BY <1>1, <1>4
  <2> QED BY <1>1, <1>2, <1>4, <2>1 DEF Lists, Whole, FirstOf, LastOf
<1> QED BY <1>3, <1>4

LEMMA AddInserts ==
  ASSUME NEW order, Lists(order), NEW call, NEW n, NEW v \in Values, Add(call, n, v)
  PROVE  /\ n \in Nodes \ live /\ HeapTypes'
         /\ Inserts(n, v, NULL, Ahead(order, count + 1))
<1>1. /\ count \in Nat /\ Len(order) = count /\ order \in Seq(Nodes) /\ NULL \notin Nodes
      /\ node \in [Nodes -> NodeRecord] /\ n \in Nodes \ live /\ live \subseteq Nodes
      /\ \A m \in Nodes : node[m] = Node(node[m].value, node[m].prev, node[m].next)
      /\ NULL \in Pointers /\ n \in Pointers /\ v \in Values \cup {NULL} /\ HeapTypes
      /\ back \in Pointers /\ front \in Pointers
  BY ListFacts DEF Lists, HeapTypes, Add, Malloc, Pointers
<1>2. back = Ahead(order, count + 1)
  BY <1>1, ListFacts DEF Ahead
<1>3. (back = NULL <=> IsEmpty) /\ (~ IsEmpty => back \in live)
  BY <1>1, ListFacts DEF IsEmpty
<1> DEFINE new == [node EXCEPT ![n] = Node(v, NULL, back)]
<1>4. /\ new \in [Nodes -> NodeRecord]
      /\ \A m \in Nodes : new[m] = IF m = n THEN Node(v, NULL, back) ELSE node[m]
  BY <1>1, NodeFields, SetNode
<1> HIDE DEF new
<1>5. /\ node' \in [Nodes -> NodeRecord]
      /\ \A m \in Nodes :
           node'[m] = IF m = n THEN Node(v, NULL, back)
                      ELSE Node(node[m].value, IF m = back THEN n ELSE node[m].prev, node[m].next)
  <2>1. CASE IsEmpty
    BY <1>1, <1>3, <1>4, <2>1 DEF Add, CreateNode, new
  <2>2. CASE ~ IsEmpty
    <3>1. back \in Nodes /\ back # n /\ node' = [new EXCEPT ![back].prev = n]
      BY <1>1, <1>3, <2>2 DEF Add, CreateNode, new
    <3>2. /\ node' \in [Nodes -> NodeRecord]
          /\ \A m \in Nodes :
               node'[m] = IF m = back THEN Node(new[m].value, n, new[m].next) ELSE new[m]
      <4>1. new \in [Nodes -> NodeRecord] /\ back \in Nodes /\ n \in Pointers
        BY <1>1, <1>4, <3>1
      <4>2. node' \in [Nodes -> NodeRecord]
        BY <3>1, <4>1, SetPrev
      <4>3. ASSUME NEW m \in Nodes
            PROVE  node'[m] = IF m = back THEN Node(new[m].value, n, new[m].next) ELSE new[m]
        BY <3>1, <4>1, SetPrev
      <4> QED BY <4>2, <4>3
    <3> QED BY <1>1, <1>4, <3>1, <3>2
  <2> QED BY <2>1, <2>2
<1>6. Inserts(n, v, NULL, back)
  BY <1>1, <1>3, <1>5 DEF Add, Malloc, Inserts
<1>7. HeapTypes'
  BY <1>1, <1>5 DEF HeapTypes, Add, Malloc, Pointers
<1> QED BY <1>1, <1>2, <1>6, <1>7

\* The place of the iterator.
IteratorAt(order, k) ==
  /\ k \in 1 .. count
  /\ iterator = order[k]
  /\ node[iterator].next = Ahead(order, k)
  /\ node[iterator].prev = Behind(order, k)
  /\ iterator = front <=> k = 1
  /\ iterator = back <=> k = count

LEMMA LinkBeforeInserts ==
  ASSUME NEW order, Lists(order), NEW k, IteratorAt(order, k), ~ AtBack,
         NEW n, NEW v \in Values, LinkBefore(n, v)
  PROVE  /\ n \in Nodes \ live /\ HeapTypes' /\ k + 1 \in 1 .. count
         /\ Inserts(n, v, order[k + 1], Ahead(order, k + 1))
<1>1. /\ count \in Nat /\ Len(order) = count /\ order \in Seq(Nodes) /\ NULL \notin Nodes
      /\ node \in [Nodes -> NodeRecord] /\ n \in Nodes \ live /\ live \subseteq Nodes
      /\ \A m \in 1 .. count : order[m] \in live
      /\ \A m \in Nodes : node[m] = Node(node[m].value, node[m].prev, node[m].next)
      /\ n \in Pointers /\ v \in Values \cup {NULL} /\ HeapTypes
  BY ListFacts DEF Lists, LinkBefore, Malloc, Pointers
<1>2. k \in 1 .. count /\ k + 1 \in 1 .. count /\ k # k + 1 /\ k + 1 # 1 /\ (k + 1) - 1 = k
  BY <1>1 DEF IteratorAt, AtBack
<1> DEFINE p == order[k + 1]
           x == order[k]
<1>3. /\ p \in live /\ x \in live /\ p # x /\ x = iterator /\ p = node[iterator].prev
      /\ x = Ahead(order, k + 1)
  BY <1>1, <1>2 DEF IteratorAt, Lists, Chained, Ahead, Behind
<1> HIDE DEF p, x
<1> DEFINE new == [node EXCEPT ![n] = Node(v, p, x)]
           half == [new EXCEPT ![p].next = n]
<1>4. p \in Nodes /\ x \in Nodes /\ p \in Pointers /\ x \in Pointers /\ p # n /\ x # n
  BY <1>1, <1>3 DEF Pointers
<1>5. /\ new \in [Nodes -> NodeRecord]
      /\ \A m \in Nodes : new[m] = IF m = n THEN Node(v, p, x) ELSE node[m]
  BY <1>1, <1>4, NodeFields, SetNode
<1> HIDE DEF new
<1>6. /\ half \in [Nodes -> NodeRecord]
      /\ \A m \in Nodes : half[m] = IF m = p THEN Node(new[m].value, new[m].prev, n) ELSE new[m]
  <2>1. new \in [Nodes -> NodeRecord] /\ p \in Nodes /\ n \in Pointers
    BY <1>1, <1>4, <1>5
  <2>2. half \in [Nodes -> NodeRecord]
    BY <2>1, SetNext
  <2>3. ASSUME NEW m \in Nodes
        PROVE  half[m] = IF m = p THEN Node(new[m].value, new[m].prev, n) ELSE new[m]
    BY <2>1, SetNext
  <2> QED BY <2>2, <2>3
<1> HIDE DEF half
<1>7. node' = [half EXCEPT ![x].prev = n]
  BY <1>3 DEF LinkBefore, CreateNode, half, new
<1>8. /\ node' \in [Nodes -> NodeRecord]
      /\ \A m \in Nodes : node'[m] = IF m = x THEN Node(half[m].value, n, half[m].next) ELSE half[m]
  <2>1. half \in [Nodes -> NodeRecord] /\ x \in Nodes /\ n \in Pointers
    BY <1>1, <1>4, <1>6
  <2>2. node' \in [Nodes -> NodeRecord]
    BY <1>7, <2>1, SetPrev
  <2>3. ASSUME NEW m \in Nodes
        PROVE  node'[m] = IF m = x THEN Node(half[m].value, n, half[m].next) ELSE half[m]
    BY <1>7, <2>1, SetPrev
  <2> QED BY <2>2, <2>3
<1>9. \A m \in Nodes :
        node'[m] = IF m = n THEN Node(v, p, x)
                   ELSE Node(node[m].value, IF m = x THEN n ELSE node[m].prev,
                                            IF m = p THEN n ELSE node[m].next)
  <2> SUFFICES ASSUME NEW m \in Nodes
               PROVE  node'[m] = IF m = n THEN Node(v, p, x)
                                 ELSE Node(node[m].value, IF m = x THEN n ELSE node[m].prev,
                                                          IF m = p THEN n ELSE node[m].next)
    OBVIOUS
  <2>1. CASE m = n
    BY <1>4, <1>5, <1>6, <1>8, <2>1
  <2>2. CASE m = x
    BY <1>3, <1>4, <1>5, <1>6, <1>8, <2>2
  <2>3. CASE m = p
    BY <1>3, <1>4, <1>5, <1>6, <1>8, <2>3
  <2>4. CASE m \notin {n, p, x}
    BY <1>1, <1>5, <1>6, <1>8, <2>4
  <2> QED BY <2>1, <2>2, <2>3, <2>4
<1>10. Inserts(n, v, p, x)
  BY <1>1, <1>4, <1>9 DEF LinkBefore, Malloc, Inserts
<1>11. HeapTypes'
  <2>1. /\ live' = live \cup {n} /\ count' = count + 1
        /\ UNCHANGED <<front, back, iterator, curr, isRq>>
    BY DEF LinkBefore, Malloc
  <2> QED BY <1>1, <1>8, <2>1 DEF HeapTypes
<1> QED BY <1>1, <1>2, <1>3, <1>10, <1>11 DEF p

LEMMA LinkAfterInserts ==
  ASSUME NEW order, Lists(order), NEW k, IteratorAt(order, k),
         NEW n, NEW v \in Values, LinkAfter(n, v)
  PROVE  /\ n \in Nodes \ live /\ HeapTypes'
         /\ Inserts(n, v, order[k], Ahead(order, k))
<1>1. /\ count \in Nat /\ Len(order) = count /\ order \in Seq(Nodes) /\ NULL \notin Nodes
      /\ node \in [Nodes -> NodeRecord] /\ n \in Nodes \ live /\ live \subseteq Nodes
      /\ \A m \in 1 .. count : order[m] \in live
      /\ \A m \in Nodes : node[m] = Node(node[m].value, node[m].prev, node[m].next)
      /\ n \in Pointers /\ v \in Values \cup {NULL} /\ HeapTypes
  BY ListFacts DEF Lists, LinkAfter, Malloc, Pointers
<1> DEFINE p == order[k]
           x == Ahead(order, k)
<1>2. /\ k \in 1 .. count /\ p \in live /\ p = iterator /\ x = node[iterator].next
      /\ (k = 1 => x = NULL) /\ (k # 1 => x \in live /\ x # p)
  <2>1. k # 1 => k - 1 \in 1 .. count /\ k - 1 # k
    BY <1>1 DEF IteratorAt
  <2> QED BY <1>1, <2>1 DEF IteratorAt, Ahead, Lists, Chained
<1>3. (count = 1 \/ iterator = front) <=> k = 1
  BY <1>1 DEF IteratorAt
<1> HIDE DEF p, x
<1> DEFINE new == [node EXCEPT ![n] = Node(v, p, x)]
           half == [new EXCEPT ![p].next = n]
<1>4. p \in Nodes /\ p \in Pointers /\ x \in Pointers /\ p # n /\ x # n /\ (x # NULL <=> k # 1)
  BY <1>1, <1>2 DEF Pointers
<1>5. /\ new \in [Nodes -> NodeRecord]
      /\ \A m \in Nodes : new[m] = IF m = n THEN Node(v, p, x) ELSE node[m]
  BY <1>1, <1>4, NodeFields, SetNode
<1> HIDE DEF new
<1>6. /\ half \in [Nodes -> NodeRecord]
      /\ \A m \in Nodes : half[m] = IF m = p THEN Node(new[m].value, new[m].prev, n) ELSE new[m]
  BY <1>1, <1>4, <1>5, SetNext
<1> HIDE DEF half
<1>7. node' = IF k = 1 THEN half ELSE [half EXCEPT ![x].prev = n]
  BY <1>2, <1>3 DEF LinkAfter, CreateNode, half, new
<1>8. /\ node' \in [Nodes -> NodeRecord]
      /\ \A m \in Nodes : node'[m] = IF m = x THEN Node(half[m].value, n, half[m].next) ELSE half[m]
  <2>1. CASE k = 1
    BY <1>1, <1>2, <1>6, <1>7, <2>1
  <2>2. CASE k # 1
    <3>1. half \in [Nodes -> NodeRecord] /\ x \in Nodes /\ n \in Pointers
      BY <1>1, <1>2, <1>6, <2>2
    <3>2. node' \in [Nodes -> NodeRecord]
      BY <1>7, <2>2, <3>1, SetPrev
    <3>3. ASSUME NEW m \in Nodes
          PROVE  node'[m] = IF m = x THEN Node(half[m].value, n, half[m].next) ELSE half[m]
      BY <1>7, <2>2, <3>1, SetPrev
    <3> QED BY <3>2, <3>3
  <2> QED BY <2>1, <2>2
<1>9. \A m \in Nodes :
        node'[m] = IF m = n THEN Node(v, p, x)
                   ELSE Node(node[m].value, IF m = x THEN n ELSE node[m].prev,
                                            IF m = p THEN n ELSE node[m].next)
  <2> SUFFICES ASSUME NEW m \in Nodes
               PROVE  node'[m] = IF m = n THEN Node(v, p, x)
                                 ELSE Node(node[m].value, IF m = x THEN n ELSE node[m].prev,
                                                          IF m = p THEN n ELSE node[m].next)
    OBVIOUS
  <2>0. x # p
    BY <1>1, <1>2
  <2>1. CASE m = n
    BY <1>4, <1>5, <1>6, <1>8, <2>1
  <2>2. CASE m = x
    BY <2>0, <1>4, <1>5, <1>6, <1>8, <2>2
  <2>3. CASE m = p
    BY <2>0, <1>4, <1>5, <1>6, <1>8, <2>3
  <2>4. CASE m \notin {n, p, x}
    BY <1>1, <1>5, <1>6, <1>8, <2>4
  <2> QED BY <2>1, <2>2, <2>3, <2>4
<1>10. Inserts(n, v, p, x)
  <2>1. /\ live' = live \cup {n} /\ count' = count + 1 /\ back' = back
        /\ front' = IF k = 1 THEN n ELSE front
    BY <1>3 DEF LinkAfter, Malloc
  <2> QED BY <1>1, <1>4, <1>9, <2>1 DEF Inserts
<1>11. HeapTypes'
  <2>1. /\ live' = live \cup {n} /\ count' = count + 1 /\ front' \in {front, n}
        /\ UNCHANGED <<back, iterator, curr, isRq>>
    BY DEF LinkAfter, Malloc
  <2> QED BY <1>1, <1>8, <2>1 DEF HeapTypes
<1> QED BY <1>1, <1>10, <1>11 DEF p, x

LEMMA PopRemoves ==
  ASSUME NEW order, Lists(order), ~ IsEmpty, Pop
  PROVE  /\ HeapTypes' /\ 1 \in 1 .. count /\ front = order[1]
         /\ Removes(order[1], Behind(order, 1), Ahead(order, 1))
<1> DEFINE n == order[1]
           p == Behind(order, 1)
<1>1. /\ count \in Nat /\ Len(order) = count /\ order \in Seq(Nodes) /\ NULL \notin Nodes
      /\ node \in [Nodes -> NodeRecord] /\ live \subseteq Nodes /\ HeapTypes
      /\ \A m \in 1 .. count : order[m] \in live
      /\ \A m \in Nodes : node[m] = Node(node[m].value, node[m].prev, node[m].next)
  BY ListFacts DEF Lists
<1>2. 1 \in 1 .. count /\ count \in 1 .. count /\ front = n /\ back = order[count]
  BY <1>1, ListFacts DEF IsEmpty
<1>3. Ahead(order, 1) = NULL
  BY DEF Ahead
<1>4. n \in live /\ (n = back <=> count = 1) /\ node[n].prev = p
  BY <1>1, <1>2 DEF Lists, Chained, Whole
<1>5. IF count = 1 THEN p = NULL ELSE p \in live /\ p # n
  <2>1. CASE count = 1
    BY <1>1, <2>1 DEF Behind
  <2>2. CASE count # 1
    <3>1. 2 \in 1 .. count /\ 1 # count
      BY <1>1, <1>2, <2>2
    <3>2. p = order[2]
      BY <1>1, <3>1 DEF Behind
    <3> QED BY <1>1, <1>2, <2>2, <3>1, <3>2 DEF Lists, Chained
  <2> QED BY <2>1, <2>2
<1>6. FrontAfterPop = p
  BY <1>2, <1>4, <1>5 DEF FrontAfterPop
<1> HIDE DEF n, p
<1> DEFINE freed == [node EXCEPT ![n] = Blank]
<1>7. n \in Nodes /\ p \in Pointers /\ NULL \in Pointers
  BY <1>1, <1>4, <1>5 DEF Pointers
<1>8. /\ freed \in [Nodes -> NodeRecord]
      /\ \A m \in Nodes : freed[m] = IF m = n THEN Blank ELSE node[m]
  <2>1. Blank \in NodeRecord
    BY <1>7, NodeFields DEF Blank
  <2> QED BY <1>1, <1>7, <2>1, SetNode
<1> HIDE DEF freed
<1>9. node' = IF count = 1 THEN freed ELSE [freed EXCEPT ![p].next = NULL]
  BY <1>2, <1>6 DEF Pop, freed
<1>10. /\ node' \in [Nodes -> NodeRecord]
       /\ \A m \in Nodes \ {n} :
            node'[m] = IF m = p THEN Node(node[m].value, node[m].prev, NULL) ELSE node[m]
  <2>1. CASE count = 1
    BY <1>1, <1>5, <1>8, <1>9, <2>1
  <2>2. CASE count # 1
    <3>1. freed \in [Nodes -> NodeRecord] /\ p \in Nodes /\ NULL \in Pointers
      BY <1>1, <1>5, <1>7, <1>8, <2>2
    <3>2. node' \in [Nodes -> NodeRecord]
      BY <1>9, <2>2, <3>1, SetNext
    <3>3. ASSUME NEW m \in Nodes
          PROVE  node'[m] = IF m = p THEN Node(freed[m].value, freed[m].prev, NULL) ELSE freed[m]
      BY <1>9, <2>2, <3>1, SetNext
    <3> QED BY <1>8, <3>2, <3>3
  <2> QED BY <2>1, <2>2
<1>11. Removes(n, p, NULL)
  BY <1>1, <1>2, <1>4, <1>5, <1>6, <1>10 DEF Pop, Removes
<1>12. HeapTypes'
  <2>1. count' \in Nat
    BY <1>1, <1>2 DEF Pop
  <2> QED BY <1>1, <1>6, <1>7, <1>10, <2>1 DEF HeapTypes, Pop
<1> QED BY <1>2, <1>3, <1>11, <1>12 DEF n, p

LEMMA UnlinkRemoves ==
  ASSUME NEW order, Lists(order), NEW k, IteratorAt(order, k),
         TakeOut(node[iterator].prev, node[iterator].next),
         iterator' \in Pointers, UNCHANGED <<curr, isRq>>
  PROVE  HeapTypes' /\ Removes(order[k], Behind(order, k), Ahead(order, k))
<1> DEFINE n == order[k]
           p == Behind(order, k)
           x == Ahead(order, k)
<1>1. /\ count \in Nat /\ Len(order) = count /\ order \in Seq(Nodes) /\ NULL \notin Nodes
      /\ node \in [Nodes -> NodeRecord] /\ live \subseteq Nodes /\ HeapTypes
      /\ \A m \in 1 .. count : order[m] \in live
      /\ \A m \in Nodes : node[m] = Node(node[m].value, node[m].prev, node[m].next)
  BY ListFacts DEF Lists
<1>2. /\ k \in 1 .. count /\ n = iterator /\ n \in live
      /\ p = node[n].prev /\ x = node[n].next
  BY <1>1 DEF IteratorAt
<1>3. (x = NULL \/ x \in live) /\ (p = NULL \/ p \in live) /\ (p # NULL => p # x)
  <2>1. k # 1 => k - 1 \in 1 .. count
    BY <1>1, <1>2
  <2>2. k # count => k + 1 \in 1 .. count /\ k + 1 # k - 1
    BY <1>1, <1>2
  <2> QED BY <1>1, <1>2, <2>1, <2>2 DEF Ahead, Behind, Lists, Chained
<1> HIDE DEF n, p, x
<1> DEFINE ahead == IF x = NULL THEN node ELSE [node EXCEPT ![x].prev = p]
           both == IF p = NULL THEN ahead ELSE [ahead EXCEPT ![p].next = x]
<1>4. n \in Nodes /\ p \in Pointers /\ x \in Pointers /\ NULL \in Pointers
  BY <1>1, <1>2, <1>3 DEF Pointers
<1>5. /\ ahead \in [Nodes -> NodeRecord]
      /\ \A m \in Nodes : ahead[m] = IF m = x THEN Node(node[m].value, p, node[m].next) ELSE node[m]
  <2>1. CASE x = NULL
    BY <1>1, <2>1
  <2>2. CASE x # NULL
    <3>1. node \in [Nodes -> NodeRecord] /\ x \in Nodes /\ p \in Pointers
      BY <1>1, <1>3, <1>4, <2>2
    <3>2. ahead \in [Nodes -> NodeRecord]
      BY <2>2, <3>1, SetPrev
    <3>3. ASSUME NEW m \in Nodes
          PROVE  ahead[m] = IF m = x THEN Node(node[m].value, p, node[m].next) ELSE node[m]
      BY <2>2, <3>1, SetPrev
    <3> QED BY <3>2, <3>3
  <2> QED BY <2>1, <2>2
<1>6. Bypassed(p, x) = both
  BY DEF Bypassed
<1> HIDE DEF ahead
<1>7. /\ both \in [Nodes -> NodeRecord]
      /\ \A m \in Nodes : both[m] = IF m = p THEN Node(ahead[m].value, ahead[m].prev, x) ELSE ahead[m]
  <2>1. CASE p = NULL
    BY <1>1, <1>5, <2>1
  <2>2. CASE p # NULL
    <3>1. ahead \in [Nodes -> NodeRecord] /\ p \in Nodes /\ x \in Pointers
      BY <1>1, <1>3, <1>4, <1>5, <2>2
    <3>2. both \in [Nodes -> NodeRecord]
      BY <2>2, <3>1, SetNext
    <3>3. ASSUME NEW m \in Nodes
          PROVE  both[m] = IF m = p THEN Node(ahead[m].value, ahead[m].prev, x) ELSE ahead[m]
      BY <2>2, <3>1, SetNext
    <3> QED BY <3>2, <3>3
  <2> QED BY <2>1, <2>2
<1> HIDE DEF both
<1>8. /\ node' \in [Nodes -> NodeRecord]
      /\ \A m \in Nodes : node'[m] = IF m = n THEN Blank ELSE both[m]
  <2>1. Blank \in NodeRecord
    BY <1>4, NodeFields DEF Blank
  <2>2. node' = [both EXCEPT ![n] = Blank]
    BY <1>2, <1>6 DEF TakeOut
  <2>3. both \in [Nodes -> NodeRecord]
    BY <1>7
  <2>4. node' \in [Nodes -> NodeRecord]
    BY <1>4, <2>1, <2>2, <2>3, SetNode
  <2>5. ASSUME NEW m \in Nodes PROVE node'[m] = IF m = n THEN Blank ELSE both[m]
    BY <1>4, <2>1, <2>2, <2>3, SetNode
  <2> QED BY <2>4, <2>5
<1>9. \A m \in Nodes \ {n} :
        node'[m] = Node(node[m].value, IF m = x THEN p ELSE node[m].prev,
                                       IF m = p THEN x ELSE node[m].next)
  <2> SUFFICES ASSUME NEW m \in Nodes \ {n}
               PROVE  node'[m] = Node(node[m].value, IF m = x THEN p ELSE node[m].prev,
                                                     IF m = p THEN x ELSE node[m].next)
    OBVIOUS
  <2>1. node'[m] = IF m = p THEN Node(ahead[m].value, ahead[m].prev, x) ELSE ahead[m]
    BY <1>7, <1>8
  <2>2. ahead[m] = IF m = x THEN Node(node[m].value, p, node[m].next) ELSE node[m]
    BY <1>5
  <2>3. m = p => m # x
    BY <1>1, <1>3
  <2> QED BY <1>1, <2>1, <2>2, <2>3, NodeFields
<1>10. Removes(n, p, x)
  BY <1>2, <1>9 DEF TakeOut, Removes
<1>11. HeapTypes'
  <2>1. count' \in Nat
    BY <1>1, <1>2 DEF TakeOut
  <2>2. front' \in Pointers /\ back' \in Pointers
    BY <1>1, <1>2, <1>4 DEF TakeOut, HeapTypes
  <2> QED BY <1>1, <1>8, <2>1, <2>2 DEF HeapTypes, TakeOut
<1> QED BY <1>10, <1>11 DEF n, p, x

-----------------------------------------------------------------------------
(***************************************************************************)
(* Any call is one of these to the order of the nodes.                     *)
(***************************************************************************)
Grown(order, i, n, v) ==
  /\ n \in Nodes \ live
  /\ i \in 1 .. count + 1
  /\ HeapTypes'
  /\ Inserts(n, v, IF i = count + 1 THEN NULL ELSE order[i], Ahead(order, i))

Shrunk(order, i) ==
  /\ i \in 1 .. count
  /\ HeapTypes'
  /\ Removes(order[i], Behind(order, i), Ahead(order, i))

Same == HeapTypes' /\ UNCHANGED list

LEMMA AddGrows ==
  ASSUME NEW order, Lists(order), NEW call, NEW n, NEW v \in Values, Add(call, n, v)
  PROVE  Grown(order, count + 1, n, v)
<1>1. count \in Nat /\ count + 1 \in 1 .. count + 1
  BY DEF Lists, HeapTypes
<1> QED BY <1>1, AddInserts DEF Grown

LEMMA LinkBeforeGrows ==
  ASSUME NEW order, Lists(order), NEW k, IteratorAt(order, k), ~ AtBack,
         NEW n, NEW v \in Values, LinkBefore(n, v)
  PROVE  Grown(order, k + 1, n, v)
<1>1. /\ n \in Nodes \ live /\ HeapTypes' /\ k + 1 \in 1 .. count
      /\ Inserts(n, v, order[k + 1], Ahead(order, k + 1))
  BY LinkBeforeInserts
<1>2. count \in Nat /\ k \in 1 .. count /\ k + 1 \in 1 .. count + 1 /\ k + 1 # count + 1
  BY <1>1 DEF Lists, HeapTypes, IteratorAt
<1> QED BY <1>1, <1>2 DEF Grown

LEMMA LinkAfterGrows ==
  ASSUME NEW order, Lists(order), NEW k, IteratorAt(order, k),
         NEW n, NEW v \in Values, LinkAfter(n, v)
  PROVE  Grown(order, k, n, v)
<1>1. /\ n \in Nodes \ live /\ HeapTypes'
      /\ Inserts(n, v, order[k], Ahead(order, k))
  BY LinkAfterInserts
<1>2. count \in Nat /\ k \in 1 .. count + 1 /\ k # count + 1
  BY DEF Lists, HeapTypes, IteratorAt
<1> QED BY <1>1, <1>2 DEF Grown

LEMMA PopShrinks ==
  ASSUME NEW order, Lists(order), ~ IsEmpty, Pop
  PROVE  Shrunk(order, 1) /\ front = order[1]
BY PopRemoves DEF Shrunk

LEMMA UnlinkShrinks ==
  ASSUME NEW order, Lists(order), NEW k, IteratorAt(order, k), Unlink
  PROVE  Shrunk(order, k)
<1>1. iterator' \in Pointers /\ UNCHANGED <<curr, isRq>>
  BY DEF Unlink, Pointers
<1>2. TakeOut(node[iterator].prev, node[iterator].next)
  BY DEF Unlink
<1>3. HeapTypes' /\ Removes(order[k], Behind(order, k), Ahead(order, k))
  BY <1>1, <1>2, UnlinkRemoves
<1> QED BY <1>3 DEF Shrunk, IteratorAt

LEMMA IteratorPlace ==
  ASSUME NEW order, Lists(order), iterator \in live
  PROVE  \E k : IteratorAt(order, k)
<1>1. PICK k \in 1 .. count : /\ order[k] = iterator
                              /\ node[iterator].next = Ahead(order, k)
                              /\ node[iterator].prev = Behind(order, k)
                              /\ (iterator = front <=> k = 1) /\ (iterator = back <=> k = count)
  BY LiveNode
<1>2. IteratorAt(order, k)
  BY <1>1 DEF IteratorAt
<1> QED BY <1>2

\* The order is there, and where the pointers lead.
LEMMA Listed ==
  ASSUME ListInv, ~ Walked
  PROVE  \E order : Lists(order)
BY DEF ListInv, Lists

LEMMA FromFrontNext == (\A order : Lists(order) => FromFront = order)'
<1>1. \A order : Lists(order) => FromFront = order
  BY FromFrontIsOrder
<1> QED BY <1>1, PTL

LEMMA ListedNext ==
  ASSUME NEW order, Lists(order)', ~ Walked'
  PROVE  ListInv'
BY DEF ListInv, Lists, Walked

LEMMA GrownLists ==
  ASSUME NEW order, Lists(order), NEW i, NEW n, NEW v, Grown(order, i, n, v)
  PROVE  Lists(InsertAt(order, i, n))'
<1>1. n \in Nodes \ live /\ i \in 1 .. count + 1 /\ HeapTypes'
  BY DEF Grown
<1>2. Inserts(n, v, IF i = count + 1 THEN NULL ELSE order[i], Ahead(order, i))
  BY DEF Grown
<1> QED BY <1>1, <1>2, InsertLinks

LEMMA ShrunkLists ==
  ASSUME NEW order, Lists(order), NEW i, Shrunk(order, i)
  PROVE  Lists(RemoveAt(order, i))'
<1>1. i \in 1 .. count /\ HeapTypes'
  BY DEF Shrunk
<1>2. Removes(order[i], Behind(order, i), Ahead(order, i))
  BY DEF Shrunk
<1> QED BY <1>1, <1>2, RemoveLinks

LEMMA SameLists ==
  ASSUME NEW order, Lists(order), Same
  PROVE  Lists(order)'
BY DEF Lists, Same, Chained, Whole, list

\* The calls that leave the list alone.
LEMMA ReportIsSame ==
  ASSUME HeapTypes, NEW call, NEW what, Report(call, what)
  PROVE  Same /\ UNCHANGED status
BY DEF HeapTypes, Report, Same, list, Pointers

LEMMA MoveIsSame ==
  ASSUME HeapTypes, NEW call, NEW n \in Pointers, MoveTo(call, n)
  PROVE  Same /\ UNCHANGED status
BY DEF HeapTypes, MoveTo, Same, list, Pointers

LEMMA MisuseIsSame ==
  ASSUME HeapTypes, NEW call, UseAfterFree(call)
  PROVE  Same /\ status' = "undefined"
BY DEF HeapTypes, UseAfterFree, Same, list, Pointers

LEMMA Links ==
  ASSUME HeapTypes, iterator \in live
  PROVE  node[iterator].next \in Pointers /\ node[iterator].prev \in Pointers
<1>1. node[iterator] \in NodeRecord
  BY DEF HeapTypes
<1> QED BY <1>1, IsNode

Changes(order) ==
  \/ Same
  \/ \E i, n, v : v \in Values /\ Grown(order, i, n, v)
  \/ \E i : Shrunk(order, i)

LEMMA ChangesLists ==
  ASSUME NEW order, Lists(order), Changes(order), ~ Walked'
  PROVE  ListInv'
<1>1. CASE Same
  BY <1>1, SameLists, ListedNext
<1>2. ASSUME NEW i, NEW n, NEW v, Grown(order, i, n, v) PROVE ListInv'
  <2> DEFINE new == InsertAt(order, i, n)
  <2>1. Lists(new)'
    BY <1>2, GrownLists
  <2> HIDE DEF new
  <2> QED BY <2>1, ListedNext
<1>3. ASSUME NEW i, Shrunk(order, i) PROVE ListInv'
  <2> DEFINE new == RemoveAt(order, i)
  <2>1. Lists(new)'
    BY <1>3, ShrunkLists
  <2> HIDE DEF new
  <2> QED BY <2>1, ListedNext
<1> QED BY <1>1, <1>2, <1>3 DEF Changes

Statuses == {"ok", "exit", "undefined", "segv", "destroying", "destroyed"}
Open == {"ok", "exit", "undefined", "segv"}

LEMMA EnqueueChanges ==
  ASSUME NEW order, Lists(order), Enqueue
  PROVE  Changes(order) /\ UNCHANGED status
<1>1. PICK n \in Nodes, v \in Values : Add("enqueue", n, v)
  BY DEF Enqueue
<1>2. Grown(order, count + 1, n, v)
  BY <1>1, AddGrows
<1> QED BY <1>1, <1>2 DEF Changes, Add, Malloc

LEMMA DequeueChanges ==
  ASSUME NEW order, Lists(order), Dequeue
  PROVE  Changes(order) /\ status' \in {status, "exit"}
<1>1. HeapTypes
  BY DEF Lists
<1>2. CASE ~ IsEmpty /\ Pop
  BY <1>2, PopShrinks DEF Changes, Pop
<1>3. CASE Report("dequeue", "empty_q")
  BY <1>1, <1>3, ReportIsSame DEF Changes
<1>4. CASE status' = "exit" /\ UNCHANGED <<list, iterator, curr, isRq>>
  BY <1>1, <1>4 DEF Changes, Same, HeapTypes, list, Pointers
<1> QED BY <1>2, <1>3, <1>4 DEF Dequeue

LEMMA MovesChange ==
  ASSUME NEW order, Lists(order),
         \/ JumpToFront \/ JumpToBack \/ StepForward \/ StepBackward
         \/ GetValue \/ HasNext \/ HasPrev
  PROVE  Changes(order) /\ status' \in {status, "undefined"}
<1>1. HeapTypes /\ front \in Pointers /\ back \in Pointers
  BY DEF Lists, HeapTypes
<1>2. ASSUME NEW call, NEW n \in Pointers, MoveTo(call, n)
      PROVE  Changes(order) /\ status' \in {status, "undefined"}
  BY <1>1, <1>2, MoveIsSame DEF Changes
<1>3. ASSUME NEW call, NEW what, Report(call, what)
      PROVE  Changes(order) /\ status' \in {status, "undefined"}
  BY <1>1, <1>3, ReportIsSame DEF Changes
<1>4. ASSUME NEW call, UseAfterFree(call)
      PROVE  Changes(order) /\ status' \in {status, "undefined"}
  BY <1>1, <1>4, MisuseIsSame DEF Changes
<1>5. CASE JumpToFront
  BY <1>1, <1>2, <1>5 DEF JumpToFront
<1>6. CASE JumpToBack
  BY <1>1, <1>2, <1>6 DEF JumpToBack
<1>7. CASE StepForward
  BY <1>1, <1>2, <1>3, <1>4, <1>7, Links DEF StepForward, Follow
<1>8. CASE StepBackward
  BY <1>1, <1>2, <1>3, <1>4, <1>8, Links DEF StepBackward, Follow
<1>9. CASE GetValue
  BY <1>3, <1>4, <1>9 DEF GetValue, Follow
<1>10. CASE HasNext
  BY <1>3, <1>4, <1>10 DEF HasNext, Follow
<1>11. CASE HasPrev
  BY <1>3, <1>4, <1>11 DEF HasPrev, Follow
<1> QED BY <1>5, <1>6, <1>7, <1>8, <1>9, <1>10, <1>11

LEMMA InsertsChange ==
  ASSUME NEW order, Lists(order), InsertBefore \/ InsertAfter
  PROVE  Changes(order) /\ status' \in {status, "undefined"}
<1>1. HeapTypes
  BY DEF Lists
<1>2. ASSUME NEW call, NEW what, Report(call, what)
      PROVE  Changes(order) /\ status' \in {status, "undefined"}
  BY <1>1, <1>2, ReportIsSame DEF Changes
<1>3. ASSUME NEW call, UseAfterFree(call)
      PROVE  Changes(order) /\ status' \in {status, "undefined"}
  BY <1>1, <1>3, MisuseIsSame DEF Changes
<1>4. ASSUME NEW n \in Nodes, NEW v \in Values, Add("insert_before", n, v)
      PROVE  Changes(order) /\ status' \in {status, "undefined"}
  <2>1. Grown(order, count + 1, n, v)
    BY <1>4, AddGrows
  <2>2. UNCHANGED status
    BY <1>4 DEF Add, Malloc
  <2> QED BY <2>1, <2>2 DEF Changes
<1>5. ASSUME NEW n \in Nodes, NEW v \in Values, LinkBefore(n, v), iterator \in live, ~ AtBack
      PROVE  Changes(order) /\ status' \in {status, "undefined"}
  <2>1. PICK k : IteratorAt(order, k)
    BY <1>5, IteratorPlace
  <2> QED BY <1>5, <2>1, LinkBeforeGrows DEF Changes, LinkBefore, Malloc
<1>6. ASSUME NEW n \in Nodes, NEW v \in Values, LinkAfter(n, v), iterator \in live
      PROVE  Changes(order) /\ status' \in {status, "undefined"}
  <2>1. PICK k : IteratorAt(order, k)
    BY <1>6, IteratorPlace
  <2>2. UNCHANGED status
    BY <1>6 DEF LinkAfter, Malloc
  <2> QED BY <1>6, <2>1, <2>2, LinkAfterGrows DEF Changes
<1>7. CASE InsertBefore
  BY <1>2, <1>3, <1>4, <1>5, <1>7 DEF InsertBefore
<1>8. CASE InsertAfter
  BY <1>2, <1>3, <1>6, <1>8 DEF InsertAfter, Follow
<1> QED BY <1>7, <1>8

LEMMA DeleteChanges ==
  ASSUME NEW order, Lists(order), Delete
  PROVE  Changes(order) /\ status' \in {status, "undefined"}
<1>1. HeapTypes
  BY DEF Lists
<1>2. CASE Report("delete", "void")
  BY <1>1, <1>2, ReportIsSame DEF Changes
<1>3. CASE UseAfterFree("delete")
  BY <1>1, <1>3, MisuseIsSame DEF Changes
<1>4. CASE iterator \in live /\ Unlink
  <2>1. PICK k : IteratorAt(order, k)
    BY <1>4, IteratorPlace
  <2> QED BY <1>4, <2>1, UnlinkShrinks DEF Changes, Unlink
<1> QED BY <1>2, <1>3, <1>4 DEF Delete

\* What happens to a queue that is not destroyed.
LEMMA UseKeepsList ==
  ASSUME ListInv, status = "ok",
         \/ Enqueue \/ Dequeue
         \/ JumpToFront \/ JumpToBack \/ StepForward \/ StepBackward
         \/ GetValue \/ HasNext \/ HasPrev
         \/ InsertBefore \/ InsertAfter \/ Delete
  PROVE  ListInv' /\ status' \in {"ok", "exit", "undefined"}
<1>1. PICK order : Lists(order)
  BY Listed DEF Walked
<1>2. Changes(order) /\ status' \in {"ok", "exit", "undefined"}
  <2>1. CASE Enqueue
    BY <1>1, <2>1, EnqueueChanges
  <2>2. CASE Dequeue
    BY <1>1, <2>2, DequeueChanges
  <2>3. CASE \/ JumpToFront \/ JumpToBack \/ StepForward \/ StepBackward
             \/ GetValue \/ HasNext \/ HasPrev
    BY <1>1, <2>3, MovesChange
  <2>4. CASE InsertBefore \/ InsertAfter
    BY <1>1, <2>4, InsertsChange
  <2>5. CASE Delete
    BY <1>1, <2>5, DeleteChanges
  <2> QED BY <2>1, <2>2, <2>3, <2>4, <2>5
<1>3. ~ Walked'
  BY <1>2 DEF Walked
<1> QED BY <1>1, <1>2, <1>3, ChangesLists

-----------------------------------------------------------------------------
(***************************************************************************)
(* destroy_queue frees the back of what is left and goes to the node ahead *)
(* of it, whose link it read before it freed.                              *)
(***************************************************************************)
LEMMA DestroyKeepsList ==
  ASSUME ListInv, status = "ok", Destroy
  PROVE  ListInv'
<1>1. PICK order : Lists(order)
  BY Listed DEF Walked
<1>2. HeapTypes'
  BY <1>1 DEF Lists, HeapTypes, Destroy, list, Pointers
<1>3. Chained(order)' /\ (curr = LastOf(order))' /\ (count = Cardinality(live))'
  BY <1>1 DEF Lists, Chained, Whole, Destroy, list
<1>4. Walked' /\ status' # "destroyed"
  BY DEF Destroy, Walked
<1> QED BY <1>2, <1>3, <1>4 DEF ListInv

LEMMA DestroyNodeKeepsList ==
  ASSUME ListInv, DestroyNode
  PROVE  ListInv'
<1>1. PICK order : Chained(order) /\ curr = LastOf(order)
  BY DEF ListInv, DestroyNode, Walked
<1>2. /\ HeapTypes /\ count = Cardinality(live) /\ count \in Nat /\ Len(order) = count
      /\ order \in Seq(Nodes) /\ live \subseteq Nodes /\ IsFiniteSet(live) /\ NULL \notin Nodes
  BY <1>1, NodesAssumption, FS_Subset DEF ListInv, HeapTypes, Chained
<1>3. order # <<>> /\ count \in 1 .. count /\ curr = order[count] /\ curr \in live
  <2>1. order # <<>>
    BY <1>1 DEF LastOf, DestroyNode
  <2> QED BY <1>1, <1>2, <2>1 DEF LastOf, Chained
<1>0. PICK new : new = RemoveAt(order, count)
  OBVIOUS
<1>4. /\ new \in Seq(Nodes) /\ Len(new) = count - 1
      /\ \A j \in 1 .. count - 1 : new[j] = order[j]
  <2>1. order \in Seq(Nodes) /\ count \in 1 .. Len(order)
    BY <1>2, <1>3
  <2>2. new \in Seq(Nodes)
    BY <1>0, <2>1, RemoveAtEntries
  <2>3. Len(new) = Len(order) - 1
    BY <1>0, <2>1, RemoveAtEntries
  <2>4. ASSUME NEW j \in 1 .. Len(order) - 1
        PROVE  new[j] = IF j < count THEN order[j] ELSE order[j + 1]
    BY <1>0, <2>1, RemoveAtEntries
  <2> QED BY <1>2, <2>2, <2>3, <2>4
<1>5. live' = live \ {curr} /\ count' = count - 1 /\ count - 1 \in Nat
  BY <1>2, <1>3 DEF DestroyNode
<1>6. \A j \in 1 .. count - 1 : j \in 1 .. count /\ j # count /\ order[j] # curr
  BY <1>1, <1>2, <1>3 DEF Chained
<1>7. /\ \A j \in 1 .. count - 1 : new[j] \in live \ {curr}
      /\ \A j, k \in 1 .. count - 1 : new[j] = new[k] => j = k
      /\ \A n \in live \ {curr} : \E k \in 1 .. count - 1 : new[k] = n
  <2>1. \A j \in 1 .. count - 1 : new[j] \in live \ {curr}
    BY <1>1, <1>4, <1>6 DEF Chained
  <2>2. \A j, k \in 1 .. count - 1 : new[j] = new[k] => j = k
    BY <1>1, <1>4, <1>6 DEF Chained
  <2>3. ASSUME NEW n \in live \ {curr} PROVE \E k \in 1 .. count - 1 : new[k] = n
    <3>1. PICK k \in 1 .. count : order[k] = n
      BY <1>1 DEF Chained
    <3>2. k \in 1 .. count - 1
      BY <1>2, <1>3, <3>1
    <3> QED BY <1>4, <3>1, <3>2
  <2> QED BY <2>1, <2>2, <2>3
<1>8. \A n \in Nodes \ {curr} : node'[n] = node[n]
  BY <1>2 DEF DestroyNode, HeapTypes
<1>9. \A k \in 1 .. count - 1 : node'[new[k]].next = Ahead(new, k)
  <2> SUFFICES ASSUME NEW k \in 1 .. count - 1
               PROVE  node'[new[k]].next = Ahead(new, k)
    OBVIOUS
  <2>1. node'[new[k]] = node[order[k]]
    BY <1>2, <1>4, <1>7, <1>8
  <2>2. node[order[k]].next = Ahead(order, k)
    BY <1>1, <1>6 DEF Chained
  <2>3. Ahead(new, k) = Ahead(order, k)
    <3>1. k # 1 => k - 1 \in 1 .. count - 1
      BY <1>2
    <3> QED BY <1>4, <3>1 DEF Ahead
  <2> QED BY <2>1, <2>2, <2>3
<1>10. Chained(new)'
  BY <1>4, <1>5, <1>7, <1>9 DEF Chained
<1>11. curr' = LastOf(new)
  <2>1. curr' = Ahead(order, count)
    BY <1>1, <1>3 DEF DestroyNode, Chained
  <2>2. CASE count = 1
    <3>1. new = <<>>
      BY <1>4, <2>2
    <3> QED BY <2>1, <2>2, <3>1 DEF LastOf, Ahead
  <2>3. CASE count # 1
    <3>1. count - 1 \in 1 .. count - 1 /\ new # <<>>
      BY <1>2, <1>3, <1>4, <2>3
    <3> QED BY <1>4, <2>1, <2>3, <3>1 DEF LastOf, Ahead
  <2> QED BY <2>2, <2>3
<1>12. HeapTypes'
  <2>1. curr' \in Pointers
    BY <1>2, <1>3, IsNode DEF DestroyNode, HeapTypes
  <2>2. node' \in [Nodes -> NodeRecord]
    <3>1. Blank \in NodeRecord
      BY NodeFields DEF Blank, Pointers
    <3> QED BY <1>2, <1>3, <3>1, SetNode DEF DestroyNode, HeapTypes
  <2>3. live' \subseteq Nodes /\ count' \in Nat /\ UNCHANGED <<front, back, iterator, isRq>>
    BY <1>2, <1>5 DEF DestroyNode
  <2> QED BY <1>2, <2>1, <2>2, <2>3 DEF HeapTypes
<1>13. Cardinality(live \ {curr}) = count - 1
  BY <1>2, <1>3, FS_RemoveElement
<1>14. Walked' /\ status' # "destroyed"
  BY DEF DestroyNode, Walked
<1> QED BY <1>5, <1>10, <1>11, <1>12, <1>13, <1>14 DEF ListInv

LEMMA DestroyEndKeepsList ==
  ASSUME ListInv, DestroyEnd
  PROVE  ListInv'
<1>1. PICK order : Chained(order) /\ curr = LastOf(order)
  BY DEF ListInv, DestroyEnd, Walked
<1>2. Chained(order)' /\ (curr = LastOf(order))' /\ Walked'
  BY <1>1 DEF Chained, DestroyEnd, list, Walked
<1>3. HeapTypes' /\ (count = Cardinality(live))' /\ curr' = NULL
  BY DEF ListInv, HeapTypes, DestroyEnd, list, Pointers
<1> QED BY <1>2, <1>3 DEF ListInv

LEMMA InitListInv == qInit => ListInv /\ status = "ok"
<1> SUFFICES ASSUME qInit PROVE ListInv /\ status = "ok"
  OBVIOUS
<1>1. HeapTypes
  <2>1. Blank \in NodeRecord
    BY NodeFields DEF Blank, Pointers
  <2> QED BY <2>1 DEF qInit, HeapTypes, Pointers
<1>2. Cardinality(live) = 0 /\ count = 0
  BY FS_EmptySet DEF qInit
<1>3. Chained(<<>>) /\ Whole(<<>>)
  BY DEF Chained, Whole, FirstOf, LastOf, qInit
<1>4. status = "ok" /\ ~ Walked
  BY DEF qInit, Walked
<1> QED BY <1>1, <1>2, <1>3, <1>4 DEF ListInv

LEMMA UnchangedListInv == ListInv /\ UNCHANGED qVars => ListInv'
<1> SUFFICES ASSUME ListInv, UNCHANGED qVars PROVE ListInv'
  OBVIOUS
<1>1. PICK order : /\ Chained(order)
                   /\ IF Walked THEN curr = LastOf(order) ELSE Whole(order)
  BY DEF ListInv
<1>2. Chained(order)' /\ (IF Walked THEN curr = LastOf(order) ELSE Whole(order))'
  BY <1>1 DEF Chained, Whole, Walked, qVars, list
<1>3. HeapTypes' /\ (count = Cardinality(live))' /\ (status = "destroyed" => curr = NULL)'
  BY DEF ListInv, HeapTypes, qVars, list
<1> QED BY <1>2, <1>3 DEF ListInv

LEMMA StepKeepsList ==
  ASSUME ListInv, qTypeOK, [qNext]_qVars
  PROVE  ListInv' /\ qTypeOK'
<1>1. CASE Call
  <2>1. CASE Destroy
    BY <1>1, <2>1, DestroyKeepsList DEF Call, Destroy, qTypeOK, ListInv, HeapTypes, NodeRecord
  <2>2. CASE ~ Destroy
    <3>1. ListInv' /\ status' \in {"ok", "exit", "undefined"}
      BY <1>1, <2>2, UseKeepsList DEF Call
    <3> QED BY <3>1 DEF qTypeOK, ListInv, HeapTypes, NodeRecord
  <2> QED BY <2>1, <2>2
<1>2. CASE DestroyNode
  BY <1>2, DestroyNodeKeepsList DEF DestroyNode, qTypeOK, ListInv, HeapTypes, NodeRecord
<1>3. CASE DestroyEnd
  BY <1>3, DestroyEndKeepsList DEF DestroyEnd, qTypeOK, ListInv, HeapTypes, NodeRecord
<1>4. CASE UNCHANGED qVars
  BY <1>4, UnchangedListInv DEF qTypeOK, qVars, list, ListInv, HeapTypes, NodeRecord
<1> QED BY <1>1, <1>2, <1>3, <1>4 DEF qNext, Over

-----------------------------------------------------------------------------
LEMMA ListInvariant == qSpec => [](ListInv /\ qTypeOK)
<1>1. qInit => ListInv /\ qTypeOK
  BY InitListInv DEF qTypeOK, ListInv, HeapTypes, NodeRecord
<1>2. ListInv /\ qTypeOK /\ [qNext]_qVars => (ListInv /\ qTypeOK)'
  BY StepKeepsList
<1> QED BY <1>1, <1>2, PTL DEF qSpec

(***************************************************************************)
(* The variables keep their types: the iterator, the ends and the links    *)
(* are null or addresses that malloc returns, and count does not fall      *)
(* below zero.                                                             *)
(***************************************************************************)
THEOREM ListTyped == qSpec => []qTypeOK
<1> QED BY ListInvariant, PTL

(***************************************************************************)
(* Whatever calls are made in whatever order, the list stays well linked:  *)
(* next, prev, the two ends and count of curlyqueue.c agree after every    *)
(* function.                                                               *)
(***************************************************************************)
THEOREM ListStaysLinked == qSpec => []WellLinked
<1>1. ListInv => WellLinked
  BY ListsAreWellLinked
<1> QED BY <1>1, ListInvariant, PTL

(***************************************************************************)
(* curlyqueue_destroy_queue frees every node and counts down to zero.      *)
(***************************************************************************)
THEOREM NothingOutlivesQueue == qSpec => []NoLeak
<1>1. ListInv => NoLeak
  BY ListsAreWellLinked
<1> QED BY <1>1, ListInvariant, PTL

-----------------------------------------------------------------------------
(***************************************************************************)
(* The refinement.  What the values and the place of the iterator are in a *)
(* list that is whole.                                                     *)
(***************************************************************************)
Held == Values \cup {NULL}

LEMMA ItemsAre ==
  \A order : Lists(order) /\ ~ Walked =>
    /\ count \in Nat /\ Len(order) = count
    /\ Items = [k \in 1 .. count |-> node[order[k]].value]
    /\ Items \in Seq(Held) /\ Len(Items) = count
    /\ \A k \in 1 .. count : Items[k] = node[order[k]].value
<1> SUFFICES ASSUME NEW order, Lists(order), ~ Walked
             PROVE  /\ count \in Nat /\ Len(order) = count
                    /\ Items = [k \in 1 .. count |-> node[order[k]].value]
                    /\ Items \in Seq(Held) /\ Len(Items) = count
                    /\ \A k \in 1 .. count : Items[k] = node[order[k]].value
  OBVIOUS
<1>1. /\ count \in Nat /\ Len(order) = count /\ node \in [Nodes -> NodeRecord]
      /\ live \subseteq Nodes /\ \A k \in 1 .. count : order[k] \in live
  BY ListFacts
<1>2. Items = [k \in 1 .. count |-> node[order[k]].value]
  BY FromFrontIsOrder DEF Items, Walked
<1>3. \A k \in 1 .. count : node[order[k]].value \in Held
  BY <1>1, IsNode DEF Held
<1>4. Items \in [1 .. count -> Held]
  BY <1>2, <1>3
<1>5. Items \in Seq(Held) /\ Len(Items) = count
  BY <1>1, <1>4
<1> QED BY <1>1, <1>2, <1>5

LEMMA ItemsAreNext ==
  (\A order : Lists(order) /\ ~ Walked =>
     /\ count \in Nat /\ Len(order) = count
     /\ Items = [k \in 1 .. count |-> node[order[k]].value]
     /\ Items \in Seq(Held) /\ Len(Items) = count
     /\ \A k \in 1 .. count : Items[k] = node[order[k]].value)'
BY ItemsAre, PTL

LEMMA CursorIs ==
  \A order : Lists(order) /\ ~ Walked =>
    /\ iterator = NULL => Cursor = 0
    /\ \A k \in 1 .. count : order[k] = iterator => Cursor = k
    /\ Dangling => Cursor = -1
<1> SUFFICES ASSUME NEW order, Lists(order), ~ Walked
             PROVE  /\ iterator = NULL => Cursor = 0
                    /\ \A k \in 1 .. count : order[k] = iterator => Cursor = k
                    /\ Dangling => Cursor = -1
  OBVIOUS
<1>1. iterator = NULL => Cursor = 0
  BY DEF Cursor
<1>2. Dangling => Cursor = -1
  BY DEF Cursor, Dangling, Walked
<1>3. ASSUME NEW k \in 1 .. count, order[k] = iterator PROVE Cursor = k
  <2>1. iterator \in live /\ iterator # NULL
    BY <1>3, NodesAssumption DEF Lists, Chained, HeapTypes
  <2>2. FromFront = order
    BY FromFrontIsOrder
  <2>3. Cursor = CHOOSE j \in 1 .. count : order[j] = iterator
    BY <2>1, <2>2 DEF Cursor, Walked
  <2>4. \A j \in 1 .. count : order[j] = iterator => j = k
    BY <1>3 DEF Lists, Chained
  <2> QED BY <1>3, <2>3, <2>4
<1> QED BY <1>1, <1>2, <1>3

LEMMA CursorIsNext ==
  (\A order : Lists(order) /\ ~ Walked =>
     /\ iterator = NULL => Cursor = 0
     /\ \A k \in 1 .. count : order[k] = iterator => Cursor = k
     /\ Dangling => Cursor = -1)'
BY CursorIs, PTL

\* The three places there are.
LEMMA Places ==
  ASSUME NEW order, Lists(order), ~ Walked
  PROVE  \/ iterator = NULL /\ ~ Dangling /\ Cursor = 0
         \/ iterator # NULL /\ iterator \notin live /\ Dangling /\ Cursor = -1
         \/ /\ iterator # NULL /\ iterator \in live /\ ~ Dangling /\ Cursor \in 1 .. count
            /\ IteratorAt(order, Cursor)
<1>1. NULL \notin live
  BY NodesAssumption DEF Lists, HeapTypes
<1>2. CASE iterator \in live
  <2>1. PICK k : IteratorAt(order, k)
    BY <1>2, IteratorPlace
  <2>2. Cursor = k
    BY <2>1, CursorIs DEF IteratorAt
  <2>3. k \in 1 .. count
    BY <2>1 DEF IteratorAt
  <2> QED BY <1>1, <1>2, <2>1, <2>2, <2>3 DEF Dangling
<1>3. CASE iterator = NULL
  BY <1>3, CursorIs DEF Dangling
<1>4. CASE Dangling
  BY <1>4, CursorIs DEF Dangling
<1> QED BY <1>2, <1>3, <1>4 DEF Dangling

-----------------------------------------------------------------------------
(***************************************************************************)
(* What the three changes do to the values.                                *)
(***************************************************************************)
LEMMA SameItems ==
  ASSUME NEW order, Lists(order), ~ Walked, ~ Walked', Same
  PROVE  Items' = Items
<1>1. Lists(order)'
  BY SameLists
<1>2. Items' = [k \in 1 .. count' |-> node'[order[k]].value]
  BY <1>1, ItemsAreNext
<1>3. Items = [k \in 1 .. count |-> node[order[k]].value]
  BY ItemsAre
<1> QED BY <1>2, <1>3 DEF Same, list

LEMMA InsertNode ==
  ASSUME NEW order \in Seq(Nodes), NEW i \in 1 .. Len(order) + 1, NEW n \in Nodes
  PROVE  \A j \in 1 .. Len(order) + 1 :
           InsertAt(order, i, n)[j] =
             IF j < i THEN order[j] ELSE IF j = i THEN n ELSE order[j - 1]
<1>1. ASSUME NEW j \in 1 .. Len(order) + 1
      PROVE  InsertAt(order, i, n)[j] =
               IF j < i THEN order[j] ELSE IF j = i THEN n ELSE order[j - 1]
  BY InsertAtEntries
<1> QED BY <1>1

LEMMA GrownItems ==
  ASSUME NEW order, Lists(order), ~ Walked, ~ Walked',
         NEW i, NEW n, NEW v \in Values, Grown(order, i, n, v)
  PROVE  /\ Items' = InsertAt(Items, i, v)
         /\ i = count + 1 => Items' = Append(Items, v)
         /\ count < Cardinality(Nodes)
         /\ i \in 1 .. count + 1 /\ count' = count + 1
         /\ \A k \in 1 .. count : iterator' = order[k] =>
              Cursor' = IF k < i THEN k ELSE k + 1
         /\ iterator' = n => Cursor' = i
<1>1. PICK new : new = InsertAt(order, i, n)
  OBVIOUS
<1>2. Lists(new)'
  BY <1>1, GrownLists
<1>3. /\ count \in Nat /\ Len(order) = count /\ order \in Seq(Nodes)
      /\ n \in Nodes \ live /\ i \in 1 .. count + 1 /\ count' = count + 1
      /\ \A k \in 1 .. count : order[k] \in live
      /\ live \subseteq Nodes /\ count = Cardinality(live)
      /\ \A m \in Nodes \ {n} : node'[m] = Node(node[m].value, node'[m].prev, node'[m].next)
      /\ node'[n].value = v
  <2>1. Inserts(n, v, IF i = count + 1 THEN NULL ELSE order[i], Ahead(order, i))
    BY DEF Grown
  <2> QED BY <2>1, ListFacts, NodeFields DEF Grown, Inserts, Lists
<1>4. \A j \in 1 .. count + 1 :
        new[j] = IF j < i THEN order[j] ELSE IF j = i THEN n ELSE order[j - 1]
  <2>1. order \in Seq(Nodes) /\ i \in 1 .. Len(order) + 1 /\ n \in Nodes
    BY <1>3
  <2>2. \A j \in 1 .. Len(order) + 1 :
          InsertAt(order, i, n)[j] =
            IF j < i THEN order[j] ELSE IF j = i THEN n ELSE order[j - 1]
    BY <2>1, InsertNode
  <2> QED BY <1>1, <1>3, <2>2
<1>5. /\ Items' \in Seq(Held) /\ Len(Items') = count + 1
      /\ \A k \in 1 .. count + 1 : Items'[k] = node'[new[k]].value
  BY <1>2, <1>3, ItemsAreNext
<1>6. /\ Items \in Seq(Held) /\ Len(Items) = count
      /\ \A k \in 1 .. count : Items[k] = node[order[k]].value
  BY ItemsAre
<1>7. \A k \in 1 .. count : node'[order[k]].value = node[order[k]].value
  <2>1. \A k \in 1 .. count : order[k] \in Nodes \ {n}
    BY <1>3
  <2> QED BY <1>3, <2>1, NodeFields
<1>8. ASSUME NEW j \in 1 .. count + 1
      PROVE  Items'[j] = IF j < i THEN Items[j] ELSE IF j = i THEN v ELSE Items[j - 1]
  <2>1. CASE j < i
    <3>1. j \in 1 .. count
      BY <1>3, <2>1
    <3> QED BY <1>4, <1>5, <1>6, <1>7, <2>1, <3>1
  <2>2. CASE j = i
    BY <1>3, <1>4, <1>5, <2>2
  <2>3. CASE j > i
    <3>1. j - 1 \in 1 .. count /\ ~ (j < i) /\ j # i
      BY <1>3, <2>3
    <3> QED BY <1>4, <1>5, <1>6, <1>7, <3>1
  <2> QED BY <1>3, <2>1, <2>2, <2>3
<1>9. Items' = InsertAt(Items, i, v)
  <2>1. PICK ins : ins = InsertAt(Items, i, v)
    OBVIOUS
  <2>2. Items \in Seq(Held) /\ i \in 1 .. Len(Items) + 1 /\ v \in Held
    BY <1>3, <1>6 DEF Held
  <2>3. ins \in Seq(Held)
    BY <2>1, <2>2, InsertAtEntries
  <2>4. Len(ins) = Len(Items) + 1
    BY <2>1, <2>2, InsertAtEntries
  <2>5. ASSUME NEW j \in 1 .. Len(Items) + 1
        PROVE  InsertAt(Items, i, v)[j] =
                 IF j < i THEN Items[j] ELSE IF j = i THEN v ELSE Items[j - 1]
    BY <2>2, InsertAtEntries
  <2>6. Len(ins) = Len(Items') /\ \A j \in 1 .. Len(ins) : ins[j] = Items'[j]
    BY <1>5, <1>6, <1>8, <2>1, <2>4, <2>5
  <2>7. ins = Items'
    BY <1>5, <2>3, <2>6
  <2> QED BY <2>1, <2>7
<1>10. ASSUME i = count + 1 PROVE Items' = Append(Items, v)
  <2>1. v \in Held
    BY DEF Held
  <2>2. /\ Append(Items, v) \in Seq(Held) /\ Len(Append(Items, v)) = count + 1
        /\ \A j \in 1 .. count + 1 : Append(Items, v)[j] = IF j < i THEN Items[j] ELSE v
    BY <1>3, <1>6, <1>10, <2>1
  <2>3. \A j \in 1 .. count + 1 : Append(Items, v)[j] = Items'[j]
    BY <1>3, <1>8, <1>10, <2>2
  <2> QED BY <1>5, <2>2, <2>3
<1>11. count < Cardinality(Nodes)
  <2>1. live \cup {n} \subseteq Nodes /\ IsFiniteSet(Nodes) /\ IsFiniteSet(live) /\ n \notin live
    BY <1>3, NodesAssumption, FS_Subset
  <2>2. Cardinality(live \cup {n}) = count + 1
    BY <1>3, <2>1, FS_AddElement
  <2>3. Cardinality(live \cup {n}) <= Cardinality(Nodes) /\ Cardinality(Nodes) \in Nat
    BY <2>1, FS_Subset, FS_CardinalityType
  <2> QED BY <1>3, <2>2, <2>3
<1>12. \A k \in 1 .. count + 1 : new[k] = iterator' => Cursor' = k
  BY <1>2, <1>3, CursorIsNext
<1>13. iterator' = n => Cursor' = i
  BY <1>3, <1>4, <1>12
<1>14. ASSUME NEW k \in 1 .. count, iterator' = order[k]
       PROVE  Cursor' = IF k < i THEN k ELSE k + 1
  <2>1. /\ k \in 1 .. count + 1 /\ k + 1 \in 1 .. count + 1 /\ (k + 1) - 1 = k
        /\ ~ (k < i) => ~ (k + 1 < i) /\ k + 1 # i
    BY <1>3
  <2> QED BY <1>4, <1>12, <1>14, <2>1
<1> QED BY <1>3, <1>9, <1>10, <1>11, <1>13, <1>14

LEMMA RemoveNode ==
  ASSUME NEW order \in Seq(Nodes), NEW i \in 1 .. Len(order)
  PROVE  \A j \in 1 .. Len(order) - 1 :
           RemoveAt(order, i)[j] = IF j < i THEN order[j] ELSE order[j + 1]
BY RemoveAtEntries

LEMMA ShrunkItems ==
  ASSUME NEW order, Lists(order), ~ Walked, ~ Walked', NEW i, Shrunk(order, i)
  PROVE  /\ Items' = RemoveAt(Items, i)
         /\ i = 1 => Items' = Tail(Items)
         /\ i \in 1 .. count /\ count' = count - 1
         /\ \A k \in 1 .. count : iterator' = order[k] =>
              Cursor' = IF k = i THEN -1 ELSE IF k < i THEN k ELSE k - 1
         /\ iterator' = NULL => Cursor' = 0
         /\ Dangling /\ iterator' = iterator => Cursor' = -1
<1>1. PICK new : new = RemoveAt(order, i)
  OBVIOUS
<1>2. Lists(new)'
  BY <1>1, ShrunkLists
<1>3. /\ count \in Nat /\ Len(order) = count /\ order \in Seq(Nodes) /\ NULL \notin Nodes
      /\ i \in 1 .. count /\ count' = count - 1
      /\ \A k \in 1 .. count : order[k] \in live
      /\ \A j, k \in 1 .. count : order[j] = order[k] => j = k
      /\ live \subseteq Nodes /\ live' = live \ {order[i]}
      /\ \A m \in Nodes \ {order[i]} :
           node'[m] = Node(node[m].value, node'[m].prev, node'[m].next)
  <2>1. Removes(order[i], Behind(order, i), Ahead(order, i))
    BY DEF Shrunk
  <2> QED BY <2>1, ListFacts, NodeFields DEF Shrunk, Removes, Lists, Chained
<1>4. \A j \in 1 .. count - 1 : new[j] = IF j < i THEN order[j] ELSE order[j + 1]
  <2>1. order \in Seq(Nodes) /\ i \in 1 .. Len(order)
    BY <1>3
  <2>2. \A j \in 1 .. Len(order) - 1 :
          RemoveAt(order, i)[j] = IF j < i THEN order[j] ELSE order[j + 1]
    BY <2>1, RemoveNode
  <2> QED BY <1>1, <1>3, <2>2
<1>5. /\ Items' \in Seq(Held) /\ Len(Items') = count - 1
      /\ \A k \in 1 .. count - 1 : Items'[k] = node'[new[k]].value
  BY <1>2, <1>3, ItemsAreNext
<1>6. /\ Items \in Seq(Held) /\ Len(Items) = count
      /\ \A k \in 1 .. count : Items[k] = node[order[k]].value
  BY ItemsAre
<1>7. \A k \in 1 .. count : k # i => node'[order[k]].value = node[order[k]].value
  <2>1. \A k \in 1 .. count : k # i => order[k] \in Nodes \ {order[i]}
    BY <1>3
  <2> QED BY <1>3, <2>1, NodeFields
<1>8. ASSUME NEW j \in 1 .. count - 1
      PROVE  Items'[j] = IF j < i THEN Items[j] ELSE Items[j + 1]
  <2>1. CASE j < i
    <3>1. j \in 1 .. count /\ j # i
      BY <1>3, <2>1
    <3> QED BY <1>4, <1>5, <1>6, <1>7, <2>1, <3>1
  <2>2. CASE ~ (j < i)
    <3>1. j + 1 \in 1 .. count /\ j + 1 # i
      BY <1>3, <2>2
    <3> QED BY <1>4, <1>5, <1>6, <1>7, <2>2, <3>1
  <2> QED BY <2>1, <2>2
<1>9. Items' = RemoveAt(Items, i)
  <2>1. PICK rest : rest = RemoveAt(Items, i)
    OBVIOUS
  <2>2. Items \in Seq(Held) /\ i \in 1 .. Len(Items)
    BY <1>3, <1>6
  <2>3. rest \in Seq(Held)
    BY <2>1, <2>2, RemoveAtEntries
  <2>4. Len(rest) = Len(Items) - 1
    BY <2>1, <2>2, RemoveAtEntries
  <2>5. ASSUME NEW j \in 1 .. Len(Items) - 1
        PROVE  RemoveAt(Items, i)[j] = IF j < i THEN Items[j] ELSE Items[j + 1]
    BY <2>2, RemoveAtEntries
  <2>6. Len(rest) = Len(Items') /\ \A j \in 1 .. Len(rest) : rest[j] = Items'[j]
    BY <1>5, <1>6, <1>8, <2>1, <2>4, <2>5
  <2>7. rest = Items'
    BY <1>5, <2>3, <2>6
  <2> QED BY <2>1, <2>7
<1>10. ASSUME i = 1 PROVE Items' = Tail(Items)
  <2>1. /\ Tail(Items) \in Seq(Held) /\ Len(Tail(Items)) = count - 1
        /\ \A j \in 1 .. count - 1 : Tail(Items)[j] = Items[j + 1]
    BY <1>3, <1>6
  <2>2. \A j \in 1 .. count - 1 : Tail(Items)[j] = Items'[j]
    BY <1>8, <1>10, <2>1
  <2> QED BY <1>5, <2>1, <2>2
<1>11. /\ iterator' = NULL => Cursor' = 0
       /\ \A k \in 1 .. count - 1 : new[k] = iterator' => Cursor' = k
       /\ Dangling' => Cursor' = -1
  BY <1>2, <1>3, CursorIsNext
<1>12. Dangling /\ iterator' = iterator => Cursor' = -1
  BY <1>3, <1>11 DEF Dangling
<1>13. ASSUME NEW k \in 1 .. count, iterator' = order[k]
       PROVE  Cursor' = IF k = i THEN -1 ELSE IF k < i THEN k ELSE k - 1
  <2>1. CASE k = i
    <3>1. Dangling'
      BY <1>3, <1>13, <2>1 DEF Dangling
    <3> QED BY <1>11, <2>1, <3>1
  <2>2. CASE k < i
    <3>1. k \in 1 .. count - 1
      BY <1>3, <2>2
    <3> QED BY <1>3, <1>4, <1>11, <1>13, <2>2, <3>1
  <2>3. CASE k > i
    <3>1. k - 1 \in 1 .. count - 1 /\ ~ (k - 1 < i) /\ (k - 1) + 1 = k /\ k # i /\ ~ (k < i)
      BY <1>3, <2>3
    <3>2. new[k - 1] = order[k]
      BY <1>4, <3>1
    <3> QED BY <1>11, <1>13, <3>1, <3>2
  <2> QED BY <1>3, <2>1, <2>2, <2>3
<1> QED BY <1>3, <1>9, <1>10, <1>11, <1>12, <1>13

\* A call that leaves the list alone moves the cursor with the iterator.
LEMMA SameCursor ==
  ASSUME NEW order, Lists(order), ~ Walked, ~ Walked', Same
  PROVE  /\ iterator' = NULL => Cursor' = 0
         /\ \A k \in 1 .. count : iterator' = order[k] => Cursor' = k
         /\ iterator' = iterator => Cursor' = Cursor
<1>1. Lists(order)' /\ count' = count /\ live' = live
  BY SameLists DEF Same, list
<1>2. /\ iterator' = NULL => Cursor' = 0
      /\ \A k \in 1 .. count : iterator' = order[k] => Cursor' = k
      /\ Dangling' => Cursor' = -1
  BY <1>1, CursorIsNext
<1>3. iterator' = iterator => Cursor' = Cursor
  BY <1>1, <1>2, Places DEF Dangling, IteratorAt
<1> QED BY <1>2, <1>3

-----------------------------------------------------------------------------
(***************************************************************************)
(* Every function of the list is the operation of CursorQueue of the same  *)
(* name.                                                                   *)
(***************************************************************************)
LEMMA ReportRefines ==
  ASSUME NEW order, Lists(order), status = "ok", NEW call, NEW what, Report(call, what)
  PROVE  Abstract!Report(call, what)
<1>1. Same /\ status' = "ok"
  BY ReportIsSame DEF Lists
<1>2. ~ Walked /\ ~ Walked'
  BY <1>1 DEF Walked
<1>3. Items' = Items /\ Cursor' = Cursor
  BY <1>1, <1>2, SameItems, SameCursor DEF Report
<1> QED BY <1>1, <1>3 DEF Abstract!Report, Abstract!Returns, Report, Returns

LEMMA MisuseRefines ==
  ASSUME NEW order, Lists(order), status = "ok", NEW call, UseAfterFree(call)
  PROVE  Abstract!Misuse(call) /\ Cursor = -1
<1>1. Same /\ status' = "undefined" /\ Dangling
  BY MisuseIsSame DEF Lists, UseAfterFree
<1>2. ~ Walked /\ ~ Walked'
  BY <1>1 DEF Walked
<1>3. Items' = Items /\ Cursor' = Cursor /\ Cursor = -1
  BY <1>1, <1>2, SameItems, SameCursor, CursorIs DEF UseAfterFree
<1> QED BY <1>1, <1>3 DEF Abstract!Misuse, Abstract!Returns, UseAfterFree, Returns

LEMMA MoveRefines ==
  ASSUME NEW order, Lists(order), status = "ok", NEW call, NEW n, NEW c, MoveTo(call, n),
         \/ n = NULL /\ c = 0
         \/ c \in 1 .. count /\ n = order[c]
  PROVE  Abstract!MoveTo(call, c)
<1>0. n \in Pointers
  BY ListFacts DEF Pointers
<1>1. Same /\ status' = "ok"
  BY <1>0, MoveIsSame DEF Lists, MoveTo
<1>2. ~ Walked /\ ~ Walked'
  BY <1>1 DEF Walked
<1>3. Items' = Items /\ Cursor' = c
  BY <1>1, <1>2, SameItems, SameCursor DEF MoveTo
<1> QED BY <1>1, <1>3 DEF Abstract!MoveTo, Abstract!Returns, MoveTo, Returns

LEMMA AddRefines ==
  ASSUME NEW order, Lists(order), status = "ok", NEW call, NEW n \in Nodes, NEW v \in Values,
         Add(call, n, v)
  PROVE  Abstract!Add(call, v) /\ Items' = Append(Items, v)
<1>1. PICK i : i = count + 1
  OBVIOUS
<1>2. Grown(order, i, n, v)
  BY <1>1, AddGrows
<1>3. status' = "ok" /\ isRq' = isRq /\ iterator' = n
  BY DEF Add, Malloc
<1>4. ~ Walked /\ ~ Walked'
  BY <1>3 DEF Walked
<1>5. Items' = Append(Items, v) /\ count < Cardinality(Nodes) /\ Cursor' = i
  BY <1>1, <1>2, <1>3, <1>4, GrownItems
<1>6. Len(Items) = count
  BY <1>4, ItemsAre
<1> QED BY <1>1, <1>3, <1>5, <1>6
        DEF Abstract!Add, Abstract!Back, Abstract!Returns, Add, Returns

LEMMA EnqueueRefines ==
  ASSUME NEW order, Lists(order), status = "ok", Enqueue
  PROVE  Abstract!Enqueue
<1>1. PICK n \in Nodes, v \in Values : Add("enqueue", n, v)
  BY DEF Enqueue
<1>2. Abstract!Add("enqueue", v)
  BY <1>1, AddRefines
<1> QED BY <1>2 DEF Abstract!Enqueue

LEMMA EmptyItems ==
  ASSUME NEW order, Lists(order), status = "ok"
  PROVE  /\ count \in Nat /\ Len(Items) = count /\ (IsEmpty <=> Items = <<>>)
         /\ Items \in Seq(Held)
<1>1. ~ Walked
  BY DEF Walked
<1>2. count \in Nat /\ Items \in Seq(Held) /\ Len(Items) = count
  BY <1>1, ItemsAre
<1> QED BY <1>2 DEF IsEmpty

LEMMA DequeueRefines ==
  ASSUME NEW order, Lists(order), status = "ok", Dequeue
  PROVE  Abstract!Dequeue
<1>1. count \in Nat /\ Len(Items) = count /\ (IsEmpty <=> Items = <<>>) /\ Items \in Seq(Held)
  BY EmptyItems
<1>2. CASE ~ IsEmpty /\ Pop
  <2>1. Shrunk(order, 1) /\ front = order[1] /\ 1 \in 1 .. count
    BY <1>2, PopShrinks DEF Shrunk
  <2>2. iterator' = iterator /\ status' = "ok" /\ isRq' = isRq
    BY <1>2 DEF Pop
  <2>3. ~ Walked /\ ~ Walked'
    BY <2>2 DEF Walked
  <2>4. /\ Items' = Tail(Items)
        /\ \A k \in 1 .. count : iterator' = order[k] =>
             Cursor' = IF k = 1 THEN -1 ELSE IF k < 1 THEN k ELSE k - 1
        /\ iterator' = NULL => Cursor' = 0
        /\ Dangling /\ iterator' = iterator => Cursor' = -1
    BY <2>1, <2>3, ShrunkItems
  <2>5. Cursor' = IF Cursor = 1 THEN -1 ELSE IF Cursor > 1 THEN Cursor - 1 ELSE Cursor
    <3>1. CASE iterator = NULL /\ Cursor = 0
      BY <2>2, <2>4, <3>1
    <3>2. CASE Dangling /\ Cursor = -1
      BY <2>2, <2>4, <3>2
    <3>3. CASE Cursor \in 1 .. count /\ IteratorAt(order, Cursor)
      <4>1. iterator = order[Cursor]
        BY <3>3 DEF IteratorAt
      <4>2. Cursor' = IF Cursor = 1 THEN -1 ELSE IF Cursor < 1 THEN Cursor ELSE Cursor - 1
        BY <2>2, <2>4, <3>3, <4>1
      <4> QED BY <3>3, <4>2
    <3> QED BY <2>3, <3>1, <3>2, <3>3, Places
  <2>6. Head(Items) = node[front].value
    <3>1. Items[1] = node[order[1]].value
      BY <2>1, <2>3, ItemsAre
    <3> QED BY <1>1, <1>2, <2>1, <3>1
  <2>7. result' = <<"dequeue", Head(Items)>>
    BY <1>2, <2>6 DEF Pop, Returns
  <2> QED BY <1>1, <1>2, <2>2, <2>4, <2>5, <2>7
          DEF Abstract!Dequeue, Abstract!Lost, Abstract!Returns
<1>3. CASE IsEmpty /\ ~ isRq /\ Report("dequeue", "empty_q")
  <2>1. Abstract!Report("dequeue", "empty_q")
    BY <1>3, ReportRefines
  <2> QED BY <1>1, <1>3, <2>1 DEF Abstract!Dequeue
<1>4. CASE /\ IsEmpty /\ isRq
           /\ status' = "exit"
           /\ Returns("dequeue", "void")
           /\ UNCHANGED <<list, iterator, curr, isRq>>
  <2>1. Same
    BY <1>4 DEF Same, Lists, HeapTypes, list, Pointers
  <2>2. ~ Walked /\ ~ Walked'
    BY <1>4 DEF Walked
  <2>3. Items' = Items /\ Cursor' = Cursor
    BY <1>4, <2>1, <2>2, SameItems, SameCursor
  <2> QED BY <1>1, <1>4, <2>3 DEF Abstract!Dequeue, Abstract!Returns, Returns
<1> QED BY <1>2, <1>3, <1>4 DEF Dequeue

LEMMA JumpsRefine ==
  ASSUME NEW order, Lists(order), status = "ok"
  PROVE  /\ JumpToFront => Abstract!JumpToFront
         /\ JumpToBack => Abstract!JumpToBack
<1>1. /\ count \in Nat /\ Len(Items) = count /\ (count = 0 <=> Items = <<>>)
      /\ (count = 0 => front = NULL /\ back = NULL)
      /\ (count # 0 => /\ 1 \in 1 .. count /\ count \in 1 .. count
                       /\ front = order[1] /\ back = order[count])
  BY EmptyItems, ListFacts DEF IsEmpty
<1>2. ASSUME JumpToFront PROVE Abstract!JumpToFront
  <2>1. PICK c : c = IF Items = <<>> THEN 0 ELSE 1
    OBVIOUS
  <2>2. Abstract!MoveTo("jump_to_front", c)
    BY <1>1, <1>2, <2>1, MoveRefines DEF JumpToFront
  <2> QED BY <2>1, <2>2 DEF Abstract!JumpToFront, Abstract!NoItem
<1>3. ASSUME JumpToBack PROVE Abstract!JumpToBack
  <2>1. PICK c : c = count
    OBVIOUS
  <2>2. Abstract!MoveTo("jump_to_back", c)
    BY <1>1, <1>3, <2>1, MoveRefines DEF JumpToBack
  <2> QED BY <1>1, <2>1, <2>2 DEF Abstract!JumpToBack, Abstract!Back
<1> QED BY <1>2, <1>3

\* What a call finds at the iterator.
LEMMA AtIterator ==
  ASSUME NEW order, Lists(order), status = "ok", iterator \in live
  PROVE  /\ Cursor \in 1 .. count /\ count \in Nat /\ IteratorAt(order, Cursor)
         /\ Cursor = 1 => node[iterator].next = NULL
         /\ Cursor # 1 => /\ Cursor - 1 \in 1 .. count
                          /\ node[iterator].next = order[Cursor - 1]
                          /\ node[iterator].next # NULL
         /\ Cursor = count => node[iterator].prev = NULL
         /\ Cursor # count => /\ Cursor + 1 \in 1 .. count
                              /\ node[iterator].prev = order[Cursor + 1]
                              /\ node[iterator].prev # NULL
         /\ node[iterator].value = Items[Cursor]
<1>1. ~ Walked
  BY DEF Walked
<1>2. /\ count \in Nat /\ Len(order) = count /\ NULL \notin Nodes /\ live \subseteq Nodes
      /\ \A k \in 1 .. count : order[k] \in live
  BY ListFacts
<1>3. Cursor \in 1 .. count /\ IteratorAt(order, Cursor)
  BY <1>1, <1>2, Places DEF Dangling
<1>4. node[iterator].value = Items[Cursor]
  BY <1>1, <1>3, ItemsAre DEF IteratorAt
<1>5. Cursor # 1 => Cursor - 1 \in 1 .. count
  BY <1>2, <1>3
<1>6. Cursor # count => Cursor + 1 \in 1 .. count
  BY <1>2, <1>3
<1>7. node[iterator].next = Ahead(order, Cursor) /\ node[iterator].prev = Behind(order, Cursor)
  BY <1>3 DEF IteratorAt
<1> QED BY <1>2, <1>3, <1>4, <1>5, <1>6, <1>7 DEF Ahead, Behind

LEMMA NoIterator ==
  ASSUME NEW order, Lists(order), status = "ok", iterator = NULL
  PROVE  Cursor = 0
<1>1. ~ Walked
  BY DEF Walked
<1> QED BY <1>1, CursorIs

LEMMA StepsRefine ==
  ASSUME NEW order, Lists(order), status = "ok"
  PROVE  /\ StepForward => Abstract!StepForward
         /\ StepBackward => Abstract!StepBackward
         /\ GetValue => Abstract!GetValue
<1>1. Len(Items) = count
  BY EmptyItems
<1>2. ASSUME NEW call, iterator = NULL, Report(call, "null_iter")
      PROVE  Cursor = 0 /\ Abstract!Report(call, "null_iter")
  BY <1>2, NoIterator, ReportRefines
<1>3. ASSUME NEW call, UseAfterFree(call)
      PROVE  Cursor = -1 /\ Abstract!Misuse(call)
  BY <1>3, MisuseRefines
<1>4. ASSUME StepForward PROVE Abstract!StepForward
  <2>1. ASSUME iterator \in live, MoveTo("step_forward", node[iterator].next)
        PROVE  Cursor > 0 /\ Abstract!MoveTo("step_forward", Cursor - 1)
    <3>1. PICK c : c = Cursor - 1
      OBVIOUS
    <3>2. Abstract!MoveTo("step_forward", c)
      BY <2>1, <3>1, AtIterator, MoveRefines
    <3> QED BY <2>1, <3>1, <3>2, AtIterator
  <2> QED BY <1>2, <1>3, <1>4, <2>1
          DEF StepForward, Follow, Abstract!StepForward, Abstract!Use, Abstract!NoItem, Abstract!Lost
<1>5. ASSUME StepBackward PROVE Abstract!StepBackward
  <2>1. ASSUME iterator \in live, MoveTo("step_backward", node[iterator].prev)
        PROVE  /\ Cursor > 0
               /\ Abstract!MoveTo("step_backward", IF Cursor = count THEN 0 ELSE Cursor + 1)
    <3>1. PICK c : c = IF Cursor = count THEN 0 ELSE Cursor + 1
      OBVIOUS
    <3>2. Abstract!MoveTo("step_backward", c)
      BY <2>1, <3>1, AtIterator, MoveRefines
    <3> QED BY <2>1, <3>1, <3>2, AtIterator
  <2> QED BY <1>1, <1>2, <1>3, <1>5, <2>1
          DEF StepBackward, Follow, Abstract!StepBackward, Abstract!Use, Abstract!NoItem,
              Abstract!Lost, Abstract!Back
<1>6. ASSUME GetValue PROVE Abstract!GetValue
  <2>1. ASSUME iterator \in live, Report("get", node[iterator].value)
        PROVE  Cursor > 0 /\ Abstract!Report("get", Items[Cursor])
    BY <2>1, AtIterator, ReportRefines
  <2> QED BY <1>2, <1>3, <1>6, <2>1
          DEF GetValue, Follow, Abstract!GetValue, Abstract!Use, Abstract!NoItem, Abstract!Lost
<1> QED BY <1>4, <1>5, <1>6

LEMMA AsksRefine ==
  ASSUME NEW order, Lists(order), status = "ok"
  PROVE  /\ HasNext => Abstract!HasNext
         /\ HasPrev => Abstract!HasPrev
<1>1. Len(Items) = count /\ (IsEmpty <=> Items = <<>>)
  BY EmptyItems
<1>2. ASSUME NEW call, iterator = NULL, Report(call, "null_iter")
      PROVE  Cursor = 0 /\ Abstract!Report(call, "null_iter")
  BY <1>2, NoIterator, ReportRefines
<1>3. ASSUME NEW call, UseAfterFree(call)
      PROVE  Cursor = -1 /\ Abstract!Misuse(call)
  BY <1>3, MisuseRefines
<1>4. ASSUME NEW call, Report(call, "empty_q") PROVE Abstract!Report(call, "empty_q")
  BY <1>4, ReportRefines
<1>5. ASSUME HasNext PROVE Abstract!HasNext
  <2>1. ASSUME iterator \in live, Report("has_next", Flag(node[iterator].next))
        PROVE  Cursor > 0 /\ Abstract!Report("has_next", IF Cursor > 1 THEN 1 ELSE 0)
    <3>1. /\ Cursor > 0
          /\ Flag(node[iterator].next) = IF Cursor > 1 THEN 1 ELSE 0
      BY <2>1, AtIterator DEF Flag
    <3> QED BY <2>1, <3>1, ReportRefines
  <2> QED BY <1>1, <1>2, <1>3, <1>4, <1>5, <2>1
          DEF HasNext, Follow, Abstract!HasNext, Abstract!Use, Abstract!NoItem, Abstract!Lost
<1>6. ASSUME HasPrev PROVE Abstract!HasPrev
  <2>1. ASSUME iterator \in live, Report("has_prev", Flag(node[iterator].prev))
        PROVE  Cursor > 0 /\ Abstract!Report("has_prev", IF Cursor < count THEN 1 ELSE 0)
    <3>1. /\ Cursor > 0
          /\ Flag(node[iterator].prev) = IF Cursor < count THEN 1 ELSE 0
      BY <2>1, AtIterator DEF Flag
    <3> QED BY <2>1, <3>1, ReportRefines
  <2> QED BY <1>1, <1>2, <1>3, <1>4, <1>6, <2>1
          DEF HasPrev, Follow, Abstract!HasPrev, Abstract!Use, Abstract!NoItem, Abstract!Lost,
              Abstract!Back
<1> QED BY <1>5, <1>6

LEMMA InsertBeforeRefines ==
  ASSUME NEW order, Lists(order), status = "ok", InsertBefore
  PROVE  Abstract!InsertBefore
<1>1. /\ count \in Nat /\ Len(Items) = count /\ ~ Walked
      /\ (count = 0 => back = NULL)
      /\ (count # 0 => count \in 1 .. count /\ back = order[count] /\ order[count] \in live)
  BY EmptyItems, ListFacts DEF Walked
<1>2. CASE iterator = NULL /\ Report("insert_before", "null_iter")
  <2>1. Cursor = 0 /\ Abstract!Report("insert_before", "null_iter")
    BY <1>2, NoIterator, ReportRefines
  <2> QED BY <2>1 DEF Abstract!InsertBefore, Abstract!Use, Abstract!NoItem, Abstract!Lost
<1>3. ASSUME iterator # NULL, AtBack, NEW n \in Nodes, NEW v \in Values,
             Add("insert_before", n, v)
      PROVE  Abstract!InsertBefore
  <2>1. CASE iterator \notin live
    <3>1. Cursor = -1
      BY <1>1, <1>3, <2>1, CursorIs DEF Dangling
    <3>2. count = 1
      BY <1>1, <1>3, <2>1 DEF AtBack
    <3>3. Abstract!Add("insert_before", v)
      BY <1>3, AddRefines
    <3> QED BY <1>1, <3>1, <3>2, <3>3 DEF Abstract!InsertBefore, Abstract!Lost
  <2>2. CASE iterator \in live
    <3>1. Cursor \in 1 .. count /\ IteratorAt(order, Cursor)
      BY <2>2, AtIterator
    <3>2. Cursor = count
      BY <1>1, <1>3, <3>1 DEF AtBack, IteratorAt
    <3>3. PICK i : i = count + 1
      OBVIOUS
    <3>4. Grown(order, i, n, v)
      BY <1>3, <3>3, AddGrows
    <3>5. status' = "ok" /\ isRq' = isRq /\ iterator' = n /\ result' = <<"insert_before", "void">>
      BY <1>3 DEF Add, Malloc, Returns
    <3>6. ~ Walked'
      BY <3>5 DEF Walked
    <3>7. Items' = InsertAt(Items, i, v) /\ count < Cardinality(Nodes) /\ Cursor' = i
      BY <1>1, <3>4, <3>5, <3>6, GrownItems
    <3>8. Abstract!PutBehind(v)
      BY <1>1, <3>2, <3>3, <3>5, <3>7
         DEF Abstract!PutBehind, Abstract!Returns, Abstract!Back, Abstract!InsertAt, InsertAt
    <3> QED BY <3>1, <3>8 DEF Abstract!InsertBefore, Abstract!Use, Abstract!Lost
  <2> QED BY <2>1, <2>2
<1>4. CASE ~ AtBack /\ UseAfterFree("insert_before")
  <2>1. Cursor = -1 /\ Abstract!Misuse("insert_before")
    BY <1>4, MisuseRefines
  <2>2. count # 1
    BY <1>4 DEF AtBack
  <2> QED BY <1>1, <2>1, <2>2 DEF Abstract!InsertBefore, Abstract!Use, Abstract!NoItem, Abstract!Lost
<1>5. ASSUME iterator \in live, ~ AtBack, NEW n \in Nodes, NEW v \in Values, LinkBefore(n, v)
      PROVE  Abstract!InsertBefore
  <2>1. PICK c : c = Cursor
    OBVIOUS
  <2>2. c \in 1 .. count /\ IteratorAt(order, c) /\ iterator = order[c]
    BY <1>5, <2>1, AtIterator DEF IteratorAt
  <2>3. c # count
    BY <1>5, <2>2 DEF AtBack, IteratorAt
  <2>4. Grown(order, c + 1, n, v)
    BY <1>5, <2>2, LinkBeforeGrows
  <2>5. /\ status' = "ok" /\ isRq' = isRq /\ iterator' = iterator
        /\ result' = <<"insert_before", "void">>
    BY <1>5 DEF LinkBefore, Malloc, Returns
  <2>6. ~ Walked'
    BY <2>5 DEF Walked
  <2>7. /\ Items' = InsertAt(Items, c + 1, v) /\ count < Cardinality(Nodes)
        /\ \A k \in 1 .. count : iterator' = order[k] => Cursor' = IF k < c + 1 THEN k ELSE k + 1
    BY <1>1, <2>4, <2>6, GrownItems
  <2>8. Cursor' = c
    BY <1>1, <2>2, <2>5, <2>7
  <2>9. Abstract!PutBehind(v)
    BY <1>1, <2>1, <2>3, <2>5, <2>7, <2>8
       DEF Abstract!PutBehind, Abstract!Returns, Abstract!Back, Abstract!InsertAt, InsertAt
  <2> QED BY <2>1, <2>2, <2>9 DEF Abstract!InsertBefore, Abstract!Use, Abstract!Lost
<1> QED BY <1>2, <1>3, <1>4, <1>5 DEF InsertBefore

LEMMA InsertAfterRefines ==
  ASSUME NEW order, Lists(order), status = "ok", InsertAfter
  PROVE  Abstract!InsertAfter
<1>1. count \in Nat /\ Len(Items) = count /\ ~ Walked
  BY EmptyItems DEF Walked
<1>2. CASE iterator = NULL /\ Report("insert_after", "null_iter")
  <2>1. Cursor = 0 /\ Abstract!Report("insert_after", "null_iter")
    BY <1>2, NoIterator, ReportRefines
  <2> QED BY <2>1 DEF Abstract!InsertAfter, Abstract!Use, Abstract!NoItem
<1>3. CASE UseAfterFree("insert_after")
  <2>1. Cursor = -1 /\ Abstract!Misuse("insert_after")
    BY <1>3, MisuseRefines
  <2> QED BY <2>1 DEF Abstract!InsertAfter, Abstract!Use, Abstract!Lost
<1>4. ASSUME iterator \in live, NEW n \in Nodes, NEW v \in Values, LinkAfter(n, v)
      PROVE  Abstract!InsertAfter
  <2>1. PICK c : c = Cursor
    OBVIOUS
  <2>2. c \in 1 .. count /\ IteratorAt(order, c) /\ iterator = order[c]
    BY <1>4, <2>1, AtIterator DEF IteratorAt
  <2>3. Grown(order, c, n, v)
    BY <1>4, <2>2, LinkAfterGrows
  <2>4. /\ status' = "ok" /\ isRq' = isRq /\ iterator' = iterator
        /\ result' = <<"insert_after", "void">>
    BY <1>4 DEF LinkAfter, Malloc, Returns
  <2>5. ~ Walked'
    BY <2>4 DEF Walked
  <2>6. /\ Items' = InsertAt(Items, c, v) /\ count < Cardinality(Nodes)
        /\ \A k \in 1 .. count : iterator' = order[k] => Cursor' = IF k < c THEN k ELSE k + 1
    BY <1>1, <2>3, <2>5, GrownItems
  <2>7. Cursor' = c + 1
    BY <1>1, <2>2, <2>4, <2>6
  <2>8. Abstract!PutAhead(v)
    BY <1>1, <2>1, <2>4, <2>6, <2>7
       DEF Abstract!PutAhead, Abstract!Returns, Abstract!InsertAt, InsertAt
  <2> QED BY <2>1, <2>2, <2>8 DEF Abstract!InsertAfter, Abstract!Use
<1> QED BY <1>2, <1>3, <1>4 DEF InsertAfter, Follow

LEMMA DeleteRefines ==
  ASSUME NEW order, Lists(order), status = "ok", Delete
  PROVE  Abstract!Delete
<1>1. count \in Nat /\ Len(Items) = count /\ ~ Walked /\ (IsEmpty <=> Items = <<>>)
  BY EmptyItems DEF Walked
<1>2. CASE (IsEmpty \/ iterator = NULL) /\ Report("delete", "void")
  <2>1. Abstract!Report("delete", "void") /\ (iterator = NULL => Cursor = 0)
    BY <1>2, NoIterator, ReportRefines
  <2> QED BY <1>1, <1>2, <2>1 DEF Abstract!Delete, Abstract!NoItem
<1>3. CASE ~ IsEmpty /\ UseAfterFree("delete")
  <2>1. Cursor = -1 /\ Abstract!Misuse("delete")
    BY <1>3, MisuseRefines
  <2> QED BY <1>1, <1>3, <2>1 DEF Abstract!Delete, Abstract!Lost
<1>4. CASE iterator \in live /\ Unlink
  <2>1. PICK c : c = Cursor
    OBVIOUS
  <2>2. c \in 1 .. count /\ IteratorAt(order, c)
    BY <1>4, <2>1, AtIterator
  <2>3. Shrunk(order, c)
    BY <1>4, <2>2, UnlinkShrinks
  <2>4. /\ status' = "ok" /\ isRq' = isRq /\ iterator' = NULL
        /\ result' = <<"delete", "void">>
    BY <1>4 DEF Unlink, Returns
  <2>5. ~ Walked'
    BY <2>4 DEF Walked
  <2>6. Items' = RemoveAt(Items, c) /\ Cursor' = 0
    BY <1>1, <2>3, <2>4, <2>5, ShrunkItems
  <2> QED BY <2>1, <2>2, <2>4, <2>6
          DEF Abstract!Delete, Abstract!Returns, Abstract!NoItem, Abstract!RemoveAt, RemoveAt
<1> QED BY <1>2, <1>3, <1>4 DEF Delete

LEMMA DestroyRefines ==
  ASSUME status = "ok", Destroy
  PROVE  Abstract!Destroy
<1>1. status' = "destroying" /\ Items' = <<>> /\ Cursor' = 0
  BY DEF Destroy, Items, Cursor
<1> QED BY <1>1 DEF Destroy, Abstract!Destroy, Abstract!Returns, Returns, Abstract!NoItem

LEMMA StepRefines ==
  ASSUME ListInv, [qNext]_qVars
  PROVE  [Abstract!aNext]_(Abstract!aVars)
<1>1. CASE Call
  <2>1. PICK order : Lists(order)
    BY <1>1, Listed DEF Call, Walked
  <2>2. status = "ok"
    BY <1>1 DEF Call
  <2>3. Abstract!aNext
    BY <1>1, <2>1, <2>2, EnqueueRefines, DequeueRefines, JumpsRefine, StepsRefine, AsksRefine,
       InsertBeforeRefines, InsertAfterRefines, DeleteRefines, DestroyRefines
       DEF Call, Abstract!aNext
  <2> QED BY <2>3
<1>2. CASE DestroyNode \/ DestroyEnd
  <2>1. UNCHANGED Abstract!aVars
    BY <1>2 DEF DestroyNode, DestroyEnd, Abstract!aVars, Items, Cursor
  <2> QED BY <2>1
<1>3. CASE UNCHANGED qVars
  <2>1. FromFront' = FromFront
    BY <1>3 DEF FromFront, qVars, list
  <2>2. UNCHANGED Abstract!aVars
    BY <1>3, <2>1 DEF qVars, list, Abstract!aVars, Items, Cursor
  <2> QED BY <2>2
<1> QED BY <1>1, <1>2, <1>3 DEF qNext, Over

LEMMA InitRefines == qInit => Abstract!aInit
<1> SUFFICES ASSUME qInit PROVE Abstract!aInit
  OBVIOUS
<1>1. Items = <<>> /\ Cursor = 0
  BY DEF qInit, Items, Cursor
<1> QED BY <1>1 DEF qInit, Abstract!aInit, Abstract!NoItem

(***************************************************************************)
(* The pointers of curlyqueue.c implement a queue with a cursor: each      *)
(* function does to the list what CursorQueue says it does to a sequence,  *)
(* also where memory is used up, the iterator is null or its node is gone. *)
(***************************************************************************)
THEOREM ListIsCursorQueue == qSpec => ImplementsCursorQueue
<1>1. ListInv /\ [qNext]_qVars => [Abstract!aNext]_(Abstract!aVars)
  BY StepRefines
<1> QED BY <1>1, ListInvariant, InitRefines, PTL
        DEF qSpec, ImplementsCursorQueue, Abstract!aSpec

-----------------------------------------------------------------------------
(***************************************************************************)
(* The block queue.  Every entry is a PID; while blockq(pid, 0) walks, the *)
(* iterator is in the list and the entries it has passed are of others.    *)
(***************************************************************************)
Passed == \A k \in 1 .. count : iterator = NULL \/ k < Cursor => Items[k] # pPID

BlockInv ==
  /\ ListInv
  /\ IteratorIsLive
  /\ status \in {"ok", "segv"}
  /\ pPID \in Values
  /\ Items \in Seq(Values)
  /\ walking => Passed

LEMMA BlockList ==
  ASSUME BlockInv
  PROVE  ~ Walked /\ \E order : Lists(order)
BY Listed DEF BlockInv, Walked

LEMMA PushKeepsBlock ==
  ASSUME BlockInv, status = "ok", Push
  PROVE  BlockInv'
<1>1. PICK order : Lists(order)
  BY BlockList
<1>2. PICK n \in Nodes, v \in Values : Add("enqueue", n, v)
  BY DEF Push, Enqueue
<1>3. Grown(order, count + 1, n, v)
  BY <1>1, <1>2, AddGrows
<1>4. status' = "ok" /\ iterator' = n /\ n \in live'
  BY <1>2 DEF Add, Malloc
<1>5. ListInv'
  BY <1>4, UseKeepsList DEF BlockInv, Push
<1>6. ~ Walked /\ ~ Walked'
  BY <1>4, BlockList DEF Walked
<1>7. Items' = Append(Items, v)
  <2>1. PICK i : i = count + 1
    OBVIOUS
  <2> QED BY <1>1, <1>3, <1>6, <2>1, GrownItems
<1>8. Items' \in Seq(Values)
  BY <1>7 DEF BlockInv
<1>9. IteratorIsLive' /\ ~ walking' /\ pPID' \in Values
  BY <1>4 DEF IteratorIsLive, Dangling, Push, BlockInv
<1> QED BY <1>4, <1>5, <1>8, <1>9 DEF BlockInv

LEMMA PopStartKeepsBlock ==
  ASSUME BlockInv, status = "ok", PopStart
  PROVE  BlockInv'
<1>1. PICK order : Lists(order)
  BY BlockList
<1>2. JumpToFront /\ status' = "ok" /\ iterator' = front /\ live' = live /\ count' = count
  BY DEF PopStart, JumpToFront, MoveTo, list
<1>3. ListInv'
  BY <1>2, UseKeepsList DEF BlockInv
<1>4. ~ Walked /\ ~ Walked'
  BY <1>2, BlockList DEF Walked
<1>5. HeapTypes /\ front \in Pointers
  BY <1>1 DEF Lists, HeapTypes
<1>6. Same
  BY <1>2, <1>5, MoveIsSame DEF JumpToFront
<1>7. Items' = Items
  BY <1>1, <1>4, <1>6, SameItems
<1>8. \/ count = 0 /\ front = NULL
      \/ 1 \in 1 .. count /\ front = order[1] /\ front \in live /\ front # NULL
  BY <1>1, ListFacts
<1>9. IteratorIsLive'
  BY <1>2, <1>8 DEF IteratorIsLive, Dangling
<1>10. Passed'
  <2>1. CASE count = 0
    BY <1>2, <2>1 DEF Passed
  <2>2. CASE count # 0
    <3>1. iterator' # NULL /\ Cursor' = 1
      BY <1>1, <1>2, <1>4, <1>6, <1>8, <2>2, SameCursor
    <3> QED BY <3>1 DEF Passed
  <2> QED BY <2>1, <2>2
<1> QED BY <1>2, <1>3, <1>7, <1>9, <1>10 DEF BlockInv, PopStart

LEMMA WalkOnKeepsBlock ==
  ASSUME BlockInv, status = "ok", walking, WalkOn, UNCHANGED pPID
  PROVE  BlockInv' /\ Items' = Items /\ walking' /\ status' = "ok"
<1>1. PICK order : Lists(order)
  BY BlockList
<1>2. iterator \in live /\ StepBackward /\ node[iterator].value # pPID /\ walking'
  BY DEF WalkOn
<1>3. MoveTo("step_backward", node[iterator].prev)
  BY <1>1, <1>2, NodesAssumption DEF StepBackward, Follow, UseAfterFree, Dangling, Lists, HeapTypes
<1>4. /\ status' = "ok" /\ iterator' = node[iterator].prev /\ live' = live /\ count' = count
  BY <1>3 DEF MoveTo, list
<1>5. ListInv'
  BY <1>2, UseKeepsList DEF BlockInv
<1>6. ~ Walked /\ ~ Walked'
  BY <1>4, BlockList DEF Walked
<1>7. HeapTypes /\ node[iterator].prev \in Pointers
  BY <1>1, <1>2, Links DEF Lists
<1>8. Same
  BY <1>3, <1>7, MoveIsSame
<1>9. Items' = Items
  BY <1>1, <1>6, <1>8, SameItems
<1>10. PICK c : c = Cursor
  OBVIOUS
<1>11. /\ c \in 1 .. count /\ count \in Nat /\ Items[c] # pPID
       /\ \/ c = count /\ iterator' = NULL
          \/ c + 1 \in 1 .. count /\ iterator' = order[c + 1] /\ iterator' # NULL
  BY <1>1, <1>2, <1>4, <1>10, AtIterator
<1>12. order[c + 1] \in live \/ iterator' = NULL
  BY <1>1, <1>11, ListFacts
<1>13. IteratorIsLive'
  BY <1>4, <1>11, <1>12 DEF IteratorIsLive, Dangling
<1>14. \A k \in 1 .. count : k < c => Items[k] # pPID
  BY <1>10 DEF BlockInv, Passed
<1>15. Passed'
  <2>1. CASE c = count /\ iterator' = NULL
    <3>1. \A k \in 1 .. count : k < c \/ k = c
      BY <1>11, <2>1
    <3> QED BY <1>4, <1>9, <1>11, <1>14, <3>1 DEF Passed
  <2>2. CASE c + 1 \in 1 .. count /\ iterator' = order[c + 1] /\ iterator' # NULL
    <3>1. Cursor' = c + 1
      BY <1>1, <1>6, <1>8, <2>2, SameCursor
    <3>2. \A k \in 1 .. count : k < c + 1 => k < c \/ k = c
      BY <1>11
    <3> QED BY <1>4, <1>9, <1>11, <1>14, <2>2, <3>1, <3>2 DEF Passed
  <2> QED BY <1>11, <2>1, <2>2
<1> QED BY <1>2, <1>4, <1>5, <1>9, <1>13, <1>15 DEF BlockInv

LEMMA RunOffKeepsBlock ==
  ASSUME BlockInv, status = "ok", walking, RunOff, UNCHANGED pPID
  PROVE  BlockInv' /\ Items' = Items /\ walking' /\ \A k \in 1 .. count : Items[k] # pPID
<1>1. PICK order : Lists(order)
  BY BlockList
<1>2. /\ status' = "segv" /\ iterator = NULL /\ iterator' = NULL /\ walking'
      /\ live' = live /\ count' = count
  BY DEF RunOff, list
<1>3. Same
  BY <1>1 DEF RunOff, Lists, HeapTypes, Same, list, Pointers
<1>4. ~ Walked /\ ~ Walked'
  BY <1>2, BlockList DEF Walked
<1>5. ListInv'
  BY <1>1, <1>3, <1>4, SameLists, ListedNext
<1>6. Items' = Items
  BY <1>1, <1>3, <1>4, SameItems
<1>7. \A k \in 1 .. count : Items[k] # pPID
  BY <1>2 DEF BlockInv, Passed
<1>8. IteratorIsLive' /\ Passed'
  BY <1>2, <1>6, <1>7 DEF IteratorIsLive, Dangling, Passed
<1> QED BY <1>2, <1>5, <1>6, <1>7, <1>8 DEF BlockInv

\* The entry that is found is the first of that PID.
LEMMA FoundKeepsBlock ==
  ASSUME BlockInv, status = "ok", walking, Found, UNCHANGED pPID
  PROVE  /\ BlockInv' /\ ~ walking' /\ status' = "ok"
         /\ \E c \in 1 .. count : /\ Items[c] = pPID /\ Items' = RemoveAt(Items, c)
                                  /\ \A k \in 1 .. c - 1 : Items[k] # pPID
<1>1. PICK order : Lists(order)
  BY BlockList
<1>2. /\ iterator \in live /\ Delete /\ node[iterator].value = pPID /\ ~ walking'
  BY DEF Found
<1>3. PICK c : c = Cursor
  OBVIOUS
<1>4. c \in 1 .. count /\ count \in Nat /\ Items[c] = pPID /\ IteratorAt(order, c)
  BY <1>1, <1>2, <1>3, AtIterator
<1>5. Unlink
  <2>1. ~ IsEmpty /\ iterator # NULL /\ ~ Dangling
    BY <1>1, <1>2, <1>4, NodesAssumption DEF IsEmpty, Dangling, Lists, HeapTypes
  <2> QED BY <1>2, <2>1 DEF Delete, UseAfterFree
<1>6. status' = "ok" /\ iterator' = NULL
  BY <1>5 DEF Unlink
<1>7. ~ Walked /\ ~ Walked'
  BY <1>6, BlockList DEF Walked
<1>8. Shrunk(order, c)
  BY <1>1, <1>4, <1>5, UnlinkShrinks
<1>9. Items' = RemoveAt(Items, c)
  BY <1>1, <1>7, <1>8, ShrunkItems
<1>10. Len(Items) = count /\ Items \in Seq(Values)
  BY <1>1, EmptyItems DEF BlockInv
<1>11. Items' \in Seq(Values)
  <2>1. c \in 1 .. Len(Items)
    BY <1>4, <1>10
  <2> QED BY <1>9, <1>10, <2>1, RemoveAtEntries
<1>12. \A k \in 1 .. c - 1 : Items[k] # pPID
  <2>1. \A k \in 1 .. c - 1 : k \in 1 .. count /\ k < c
    BY <1>4
  <2> QED BY <1>3, <2>1 DEF BlockInv, Passed
<1>13. ListInv'
  BY <1>2, UseKeepsList DEF BlockInv
<1>14. IteratorIsLive'
  BY <1>6 DEF IteratorIsLive, Dangling
<1> QED BY <1>2, <1>4, <1>6, <1>9, <1>11, <1>12, <1>13, <1>14 DEF BlockInv

LEMMA BlockStep ==
  ASSUME BlockInv, [bNext]_bVars
  PROVE  BlockInv'
<1>1. CASE Push /\ status = "ok"
  BY <1>1, PushKeepsBlock
<1>2. CASE PopStart /\ status = "ok"
  BY <1>2, PopStartKeepsBlock
<1>3. CASE Walk /\ status = "ok"
  BY <1>3, WalkOnKeepsBlock, RunOffKeepsBlock, FoundKeepsBlock DEF Walk
<1>4. CASE UNCHANGED bVars
  <2>1. ListInv'
    BY <1>4, UnchangedListInv DEF BlockInv, bVars
  <2>2. FromFront' = FromFront
    BY <1>4 DEF FromFront, bVars, qVars, list
  <2>3. Items' = Items /\ Cursor' = Cursor
    BY <1>4, <2>2 DEF Items, Cursor, bVars, qVars, list
  <2> QED BY <1>4, <2>1, <2>3
          DEF BlockInv, IteratorIsLive, Dangling, Passed, bVars, qVars, list
<1> QED BY <1>1, <1>2, <1>3, <1>4 DEF bNext, Running

LEMMA BlockInit == bInit => BlockInv
<1> SUFFICES ASSUME bInit PROVE BlockInv
  OBVIOUS
<1>1. ListInv /\ status = "ok"
  BY InitListInv DEF bInit
<1>2. Items = <<>>
  BY DEF bInit, qInit, Items
<1>3. <<>> \in Seq(Values)
  OBVIOUS
<1> QED BY <1>1, <1>2, <1>3 DEF bInit, qInit, BlockInv, IteratorIsLive, Dangling

LEMMA EntryIsPID ==
  ASSUME Values \subseteq 0 .. MaxPIDs - 1, NEW pid \in Values
  PROVE  Sched!PidOf(pid) = pid
<1>1. pid \in 0 .. MaxPIDs - 1
  OBVIOUS
<1>2. pid < MaxPIDs
  BY <1>1 DEF MaxPIDs
<1> QED BY <1>2 DEF Sched!PidOf

\* Where every entry is a PID, the first entry of a PID is the one of Sched.
LEMMA FirstEntryIs ==
  ASSUME Values \subseteq 0 .. MaxPIDs - 1, Items \in Seq(Values), Len(Items) = count,
         NEW c \in 1 .. count, Items[c] = pPID, \A k \in 1 .. c - 1 : Items[k] # pPID,
         count \in Nat
  PROVE  Sched!FirstEntry(pPID) = c
<1>1. DOMAIN Items = 1 .. count
  OBVIOUS
<1>2. \A k \in 1 .. count : Sched!PidOf(Items[k]) = Items[k]
  <2>1. \A k \in 1 .. count : Items[k] \in Values
    OBVIOUS
  <2> QED BY <2>1, EntryIsPID
<1> DEFINE P(k) == /\ Sched!PidOf(Items[k]) = pPID
                   /\ \A j \in 1 .. k - 1 : Sched!PidOf(Items[j]) # pPID
<1>3. P(c)
  <2>1. \A k \in 1 .. c - 1 : k \in 1 .. count
    OBVIOUS
  <2> QED BY <1>2, <2>1
<1>4. ASSUME NEW k \in 1 .. count, P(k) PROVE k = c
  <2>1. Items[k] = pPID
    BY <1>2, <1>4
  <2>2. ~ (k < c)
    <3>1. ASSUME k < c PROVE FALSE
      <4>1. k \in 1 .. c - 1
        BY <3>1
      <4> QED BY <2>1, <4>1
    <3> QED BY <3>1
  <2>3. ~ (c < k)
    <3>1. ASSUME c < k PROVE FALSE
      <4>1. c \in 1 .. k - 1
        BY <3>1
      <4> QED BY <1>2, <1>4, <4>1
    <3> QED BY <3>1
  <2> QED BY <2>2, <2>3
<1>5. Sched!FirstEntry(pPID) = CHOOSE k \in 1 .. count : P(k)
  BY <1>1 DEF Sched!FirstEntry
<1> HIDE DEF P
<1> QED BY <1>3, <1>4, <1>5

LEMMA WalkUnlinks ==
  ASSUME Values \subseteq 0 .. MaxPIDs - 1, BlockInv, bNext, walking, ~ UNCHANGED bVars
  PROVE  /\ ~ walking' => status' = "ok" /\ Items' = Sched!BqWithout(pPID)
         /\ walking' => Items' = Items
         /\ status' = "segv" => ~ Sched!IsBlocked(pPID)
<1>1. status = "ok" /\ Walk
  BY DEF bNext, Running, Push, PopStart
<1>2. UNCHANGED pPID
  BY <1>1 DEF Walk
<1>3. Items \in Seq(Values) /\ Len(Items) = count /\ count \in Nat /\ DOMAIN Items = 1 .. count
  <2>1. PICK order : Lists(order)
    BY BlockList
  <2>2. Items \in Seq(Values) /\ Len(Items) = count /\ count \in Nat
    BY <1>1, <2>1, EmptyItems DEF BlockInv
  <2> QED BY <2>2
<1>4. CASE RunOff
  <2>1. Items' = Items /\ walking' /\ \A k \in 1 .. count : Items[k] # pPID
    BY <1>1, <1>2, <1>4, RunOffKeepsBlock
  <2>2. \A k \in 1 .. count : Sched!PidOf(Items[k]) = Items[k]
    <3>1. \A k \in 1 .. count : Items[k] \in Values
      BY <1>3
    <3> QED BY <3>1, EntryIsPID
  <2>3. ~ Sched!IsBlocked(pPID)
    BY <1>3, <2>1, <2>2 DEF Sched!IsBlocked
  <2> QED BY <2>1, <2>3
<1>5. CASE WalkOn
  <2>1. Items' = Items /\ walking' /\ status' = "ok"
    BY <1>1, <1>2, <1>5, WalkOnKeepsBlock
  <2> QED BY <2>1
<1>6. CASE Found
  <2>1. /\ ~ walking' /\ status' = "ok"
        /\ \E c \in 1 .. count : /\ Items[c] = pPID /\ Items' = RemoveAt(Items, c)
                                 /\ \A k \in 1 .. c - 1 : Items[k] # pPID
    BY <1>1, <1>2, <1>6, FoundKeepsBlock
  <2>2. PICK c \in 1 .. count : /\ Items[c] = pPID /\ Items' = RemoveAt(Items, c)
                                /\ \A k \in 1 .. c - 1 : Items[k] # pPID
    BY <2>1
  <2>3. Sched!FirstEntry(pPID) = c
    BY <1>3, <2>2, FirstEntryIs
  <2> QED BY <2>1, <2>2, <2>3 DEF Sched!BqWithout, Sched!RemoveAt, RemoveAt
<1> QED BY <1>1, <1>4, <1>5, <1>6 DEF Walk

LEMMA BlockInvariant == bSpec => []BlockInv
<1>1. BlockInv /\ [bNext]_bVars => BlockInv'
  BY BlockStep
<1> QED BY <1>1, BlockInit, PTL DEF bSpec

(***************************************************************************)
(* Enqueues and walks to an entry, in turns, keep the list of the block    *)
(* queue well linked.                                                      *)
(***************************************************************************)
THEOREM BlockQueueStaysLinked == bSpec => []WellLinked
<1>1. BlockInv => WellLinked
  BY ListsAreWellLinked DEF BlockInv
<1> QED BY <1>1, BlockInvariant, PTL

(***************************************************************************)
(* The iterator that one blockq call leaves for the next is never at a     *)
(* node that has been freed: delete clears it and enqueue moves it.        *)
(***************************************************************************)
THEOREM IteratorStaysLive == bSpec => []IteratorIsLive
<1>1. BlockInv => IteratorIsLive
  BY DEF BlockInv
<1> QED BY <1>1, BlockInvariant, PTL

(***************************************************************************)
(* What the handlers of the kernel take blockq for is what its loop over   *)
(* the list does, however many entries are blocked and whatever was        *)
(* enqueued or unlinked before: it unlinks the first entry of the PID, and *)
(* it runs off the back only if there is none.  The hypothesis says that   *)
(* the entries are PIDs of the process table.                              *)
(***************************************************************************)
THEOREM BlockQueueUnlinksFirst ==
  ASSUME Values \subseteq 0 .. MaxPIDs - 1
  PROVE  bSpec => UnlinksFirstEntry
<1>1. BlockInv /\ [bNext]_bVars =>
        [walking =>
           /\ ~ walking' => status' = "ok" /\ Items' = Sched!BqWithout(pPID)
           /\ walking' => Items' = Items
           /\ status' = "segv" => ~ Sched!IsBlocked(pPID)]_bVars
  BY WalkUnlinks
<1> QED BY <1>1, BlockInvariant, PTL DEF bSpec, UnlinksFirstEntry
=============================================================================
