----------------------------- MODULE FlatMemory -----------------------------
(***************************************************************************)
(* What the paged memory promises a BRAIN program: words of its own, which *)
(* keep what was last written to them, and which a fork duplicates.  A     *)
(* read gives the Value of a word.                                         *)
(***************************************************************************)
EXTENDS Integers

CONSTANTS Procs, Length, Block, Words, Value

VARIABLES memory, created, got

Offsets == 0 .. Length - 1
BlockAt(a) == a .. a + Block - 1

Init ==
  /\ memory \in [Procs -> [Offsets -> Words]]
  /\ \E p \in Procs : created = {p}
  /\ got \in {Value[x] : x \in Words}

\* The memory of p becomes words, and the others keep theirs.
Becomes(p, words) ==
  /\ \A q \in Procs, i \in Offsets : memory'[q][i] = IF q = p THEN words[i] ELSE memory[q][i]
  /\ memory' \in [Procs -> [Offsets -> Words]]

Read(p, i) ==
  /\ UNCHANGED created
  /\ got' = Value[memory[p][i]]
  /\ Becomes(p, memory[p])

Write(p, i, x) ==
  /\ UNCHANGED <<created, got>>
  /\ Becomes(p, [memory[p] EXCEPT ![i] = x])

Fork(p, q) ==
  /\ q \notin created
  /\ created' = created \cup {q}
  /\ UNCHANGED got
  /\ Becomes(q, memory[p])

\* A block of input, and a block received from s: words laid over p's own.
Overlay(p, a, words) ==
  Becomes(p, [i \in Offsets |-> IF i \in BlockAt(a) THEN words[i] ELSE memory[p][i]])

GetData(p, a) ==
  /\ UNCHANGED <<created, got>>
  /\ \E words \in [BlockAt(a) -> Words] : Overlay(p, a, words)

Receive(p, s, a) ==
  /\ UNCHANGED <<created, got>>
  /\ Overlay(p, a, memory[s])

Next ==
  \/ \E p \in created, i \in Offsets : Read(p, i)
  \/ \E p \in created, i \in Offsets, x \in Words : Write(p, i, x)
  \/ \E p \in created, q \in Procs : Fork(p, q)
  \/ \E p \in created, a \in 0 .. Length - Block : GetData(p, a)
  \/ \E p, s \in created, a \in 0 .. Length - Block : Receive(p, s, a)

Spec == Init /\ [][Next]_<<memory, created, got>>
=============================================================================
