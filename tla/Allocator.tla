----------------------------- MODULE Allocator -----------------------------
(***************************************************************************)
(* The memory of the BRAIN machine as a set of blocks: RequestMemory and   *)
(* ReleaseMemory (Disk.c) with the hole queue of sched.c, and how Fork and *)
(* Exec (Exec_Brain.c) use them.  The free blocks are the first Holes      *)
(* records of Spaces; the hole queue hq decides only whether there are any *)
(* and whatever is taken off it is thrown away, so it is its length here.  *)
(*                                                                         *)
(* BESTFIT is defined, so every call asks for the best fit.  That mode     *)
(* writes the map Memory_Avail and never reads it.                         *)
(***************************************************************************)
EXTENDS Integers

CONSTANTS
  NPROC,      \* PCBs (100)
  MEMORY,     \* words of memory (10000)
  NSPACES,    \* records that fit in Spaces (58 in its 700 bytes)
  Lengths     \* lengths that programs have

ASSUME AllocatorAssumption ==
  /\ NPROC \in 1 .. 100
  /\ MEMORY \in Nat
  /\ NSPACES \in 1 .. 58
  /\ Lengths \subseteq 1 .. MEMORY - 1

VARIABLES
  heap,        \* Spaces, Holes, the length of hq, and Memory_Avail_Current
  br, lr,      \* BR and LR of each PCB
  memoryNum,   \* Memory_Num
  numPID,
  status

allocVars == <<heap, br, lr, memoryNum, numPID, status>>

PCBs == 0 .. NPROC - 1
Created == 0 .. numPID - 1

Block(base, length) == base .. base + length - 1

(***************************************************************************)
(* RequestMemory in mode 1.  Every hole that is large enough goes on the   *)
(* size queue, and the smallest is kept, the first of equals.  A perfect   *)
(* fit takes the front off the hole queue and shortens Spaces by its last  *)
(* record; otherwise the hole shrinks and is queued again.  With no hole   *)
(* in the queue the words after Memory_Avail_Current are taken.            *)
(***************************************************************************)
Heap(spaces, holes, hq, current) ==
  [Spaces |-> spaces, Holes |-> holes, hq |-> hq, Current |-> current]

MemBlock(size, location, num) == [Size |-> size, Location |-> location, Num |-> num]

Fits(h, n) == {i \in 0 .. h.Holes - 1 : h.Spaces[i].Size >= n}

BestFit(h, n) ==
  CHOOSE i \in Fits(h, n) :
    \A j \in Fits(h, n) : \/ h.Spaces[i].Size < h.Spaces[j].Size
                          \/ h.Spaces[i].Size = h.Spaces[j].Size /\ i <= j

PerfectFit(h, n) == h.Spaces[BestFit(h, n)].Size = n

\* Mutant: the hole keeps its location.
ShrunkInPlace(h, hole, n) ==
  Heap([h.Spaces EXCEPT ![hole.Num] = MemBlock(hole.Size - n, hole.Location, hole.Num)],
       h.Holes, h.hq + 1, h.Current)

Shrunk(h, hole, n) ==
  Heap([h.Spaces EXCEPT ![hole.Num] = MemBlock(hole.Size - n, hole.Location + n, hole.Num)],
       h.Holes, h.hq + 1, h.Current)

UsedUp(h) == Heap(h.Spaces, h.Holes - 1, h.hq - 1, h.Current)

FromEnd(h, n) == Heap(h.Spaces, h.Holes, h.hq, h.Current + n)

Location(h, n) == IF h.hq = 0 THEN h.Current ELSE h.Spaces[BestFit(h, n)].Location

AfterRequest(h, n) ==
  IF h.hq = 0 THEN FromEnd(h, n)
  ELSE IF PerfectFit(h, n) THEN UsedUp(h)
  ELSE Shrunk(h, h.Spaces[BestFit(h, n)], n)

Refuses(h, n) == h.hq > 0 /\ Fits(h, n) = {}             \* exit(1)
Overruns(h, n) == h.hq = 0 /\ h.Current + n > MEMORY     \* Memory_Avail ends

(***************************************************************************)
(* ReleaseMemory.  Both branches of its loop break, so it looks at the     *)
(* first hole only: a block right before it is merged into it, any other   *)
(* becomes a hole of its own.  Without holes the loop does nothing.        *)
(***************************************************************************)
Borders(h, base, length) == h.Holes > 0 /\ base + length = h.Spaces[0].Location

Merged(h, length) ==
  Heap([h.Spaces EXCEPT ![0] = MemBlock(@.Size + length, @.Location - length, @.Num)],
       h.Holes, h.hq, h.Current)

\* Mutants: the new hole does not know its place in Spaces; is not queued.
AddedUnnumbered(h, base, length) ==
  Heap([h.Spaces EXCEPT ![h.Holes] = MemBlock(length, base, 0)],
       h.Holes + 1, h.hq + 1, h.Current)

AddedUnqueued(h, base, length) ==
  Heap([h.Spaces EXCEPT ![h.Holes] = MemBlock(length, base, h.Holes)],
       h.Holes + 1, h.hq, h.Current)

Added(h, base, length) ==
  Heap([h.Spaces EXCEPT ![h.Holes] = MemBlock(length, base, h.Holes)],
       h.Holes + 1, h.hq + 1, h.Current)

AfterRelease(h, base, length) ==
  IF h.Holes = 0 THEN h
  ELSE IF Borders(h, base, length) THEN Merged(h, length)
  ELSE Added(h, base, length)

\* It writes beyond Spaces, or beyond Memory_Avail.
ReleaseFails(h, base, length) ==
  \/ h.Holes = NSPACES /\ ~ Borders(h, base, length)
  \/ base + length > MEMORY

Abort(how) == status' = how /\ UNCHANGED <<heap, br, lr, memoryNum, numPID>>

(***************************************************************************)
(* FK.  The memory for a clone is requested first, into the PCB it would   *)
(* have, and is not given back if Fork then finds the memory insufficient. *)
(***************************************************************************)
Request(h, n) ==
  /\ numPID < NPROC
  /\ ~ Refuses(h, n)
  /\ ~ Overruns(h, n)
  /\ heap' = AfterRequest(h, n)
  /\ br' = [br EXCEPT ![numPID] = Location(h, n)]

RequestFails(h, n) ==
  \/ Refuses(h, n) /\ Abort("exit")
  \/ ~ Refuses(h, n) /\ (Overruns(h, n) \/ numPID = NPROC) /\ Abort("oob")

Insufficient(p) == lr[p] > MEMORY - memoryNum
CopyOverruns(p) == br[p] + lr[p] > MEMORY          \* Memory_Start ends

Clone(p) ==
  /\ ~ Insufficient(p) /\ ~ CopyOverruns(p)
  /\ Request(heap, lr[p])
  /\ lr' = [lr EXCEPT ![numPID] = lr[p]]
  /\ memoryNum' = memoryNum + lr[p]
  /\ numPID' = numPID + 1
  /\ UNCHANGED status

NoClone(p) ==
  /\ Insufficient(p)
  /\ Request(heap, lr[p])
  /\ UNCHANGED <<lr, memoryNum, numPID, status>>

ForkFails(p) ==
  \/ RequestFails(heap, lr[p])
  \/ /\ ~ Refuses(heap, lr[p]) /\ ~ Insufficient(p)
     /\ CopyOverruns(p) /\ Abort("oob")

Fork(p) == Clone(p) \/ NoClone(p) \/ ForkFails(p)

(***************************************************************************)
(* EX of a program of length n, of which its file lists so many words.     *)
(* The process releases its memory and requests memory for the new         *)
(* program, but into the PCB of the process to be forked next; the words   *)
(* are loaded from the old base on.                                        *)
(***************************************************************************)
Load(p, n, words) ==
  LET released == AfterRelease(heap, br[p], lr[p]) IN
  /\ ~ ReleaseFails(heap, br[p], lr[p])
  /\ br[p] + words <= MEMORY
  /\ Request(released, n)
  /\ lr' = [lr EXCEPT ![p] = n]
  /\ UNCHANGED <<memoryNum, numPID, status>>

LoadFails(p, n, words) ==
  \/ ReleaseFails(heap, br[p], lr[p]) /\ Abort("oob")
  \/ /\ ~ ReleaseFails(heap, br[p], lr[p])
     /\ LET released == AfterRelease(heap, br[p], lr[p]) IN
        \/ RequestFails(released, n)
        \/ /\ ~ Refuses(released, n)
           /\ br[p] + words > MEMORY                \* Memory_Start ends
           /\ Abort("oob")

Exec(p, n, words) == Load(p, n, words) \/ LoadFails(p, n, words)

(***************************************************************************)
(* ProgramWrite: the first program is at 0, the rest is one hole.  Its     *)
(* file may list fewer words than its length, and only those are counted.  *)
(***************************************************************************)
Init ==
  \E length \in Lengths : \E words \in 1 .. length :
    /\ heap = Heap([i \in 0 .. NSPACES - 1 |->
                      IF i = 0 THEN MemBlock(MEMORY - length, length, 0) ELSE MemBlock(0, 0, 0)],
                   1, 1, length)
    /\ br = [p \in PCBs |-> 0]
    /\ lr = [p \in PCBs |-> IF p = 0 THEN length ELSE 0]
    /\ memoryNum = words
    /\ numPID = 1
    /\ status = "running"

\* Lets TLC report any other state without successor.
Stopped == status # "running" /\ UNCHANGED allocVars

Next ==
  \/ /\ status = "running"
     /\ \E p \in Created :
          Fork(p) \/ \E n \in Lengths : \E words \in 0 .. n : Exec(p, n, words)
  \/ Stopped

Spec == Init /\ [][Next]_allocVars
-----------------------------------------------------------------------------
(***************************************************************************)
(* The conditions under which the blocks stay apart: a hole that is used   *)
(* up is the last of Spaces and not the only one, and EX is given the      *)
(* memory that it released.                                                *)
(***************************************************************************)
UsesLastHole(h, n) ==
  h.hq > 0 /\ ~ Refuses(h, n) /\ PerfectFit(h, n)
    => h.Holes > 1 /\ BestFit(h, n) = h.Holes - 1

GetsOwnMemory(p, n) ==
  LET released == AfterRelease(heap, br[p], lr[p]) IN
  /\ UsesLastHole(released, n)
  /\ ~ Refuses(released, n) => Location(released, n) = br[p]

CarefulNext ==
  \/ /\ status = "running"
     /\ \E p \in Created :
          \/ UsesLastHole(heap, lr[p]) /\ Fork(p)
          \/ \E n \in Lengths : \E words \in 0 .. n :
               /\ ~ ReleaseFails(heap, br[p], lr[p]) => GetsOwnMemory(p, n)
               /\ Exec(p, n, words)
  \/ Stopped

CarefulSpec == Init /\ [][CarefulNext]_allocVars
-----------------------------------------------------------------------------
(***************************************************************************)
(* The types of the variables: each hole knows its place in Spaces.        *)
(***************************************************************************)
AllocTypeOK ==
  /\ heap.Spaces \in [0 .. NSPACES - 1 -> [Size : 0 .. MEMORY, Location : 0 .. MEMORY,
                                           Num : 0 .. NSPACES - 1]]
  /\ heap.Holes \in 0 .. NSPACES
  /\ \A i \in 0 .. heap.Holes - 1 : heap.Spaces[i].Num = i
  /\ heap.hq \in Nat /\ heap.Current \in 0 .. MEMORY
  /\ br \in [PCBs -> 0 .. MEMORY]
  /\ lr \in [PCBs -> 0 .. MEMORY]
  /\ memoryNum \in 0 .. MEMORY
  /\ numPID \in 1 .. NPROC
  /\ status \in {"running", "exit", "oob"}

Program(p) == Block(br[p], lr[p])
Hole(i) == Block(heap.Spaces[i].Location, heap.Spaces[i].Size)

(***************************************************************************)
(* EX "runs a process in the calling process' program memory", so no word  *)
(* belongs to two programs.                                                *)
(***************************************************************************)
ProgramsApart ==
  \A p, q \in Created : p # q => Program(p) \cap Program(q) = {}

(***************************************************************************)
(* No hole is given away twice: the holes that RequestMemory chooses from  *)
(* share no word with a program or with each other, after any sequence of  *)
(* splitting, merging, perfect fits and fragments.                         *)
(***************************************************************************)
HolesFree ==
  \A i \in 0 .. heap.Holes - 1 :
    /\ \A p \in Created : Hole(i) \cap Program(p) = {}
    /\ \A j \in 0 .. heap.Holes - 1 : i # j => Hole(i) \cap Hole(j) = {}

BlocksApart == ProgramsApart /\ HolesFree

(***************************************************************************)
(* RequestMemory asks the hole queue whether there is a hole and Spaces    *)
(* which one; "Should not occur" is said of the branch for an empty queue. *)
(* The queue holds no fewer entries than there are holes, and is not empty.*)
(***************************************************************************)
HolesQueued == heap.Holes > 0 /\ heap.hq >= heap.Holes
=============================================================================
