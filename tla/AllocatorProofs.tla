--------------------------- MODULE AllocatorProofs ---------------------------
(***************************************************************************)
(* Programs and holes stay apart under CarefulSpec of Allocator, for every *)
(* size of memory and every set of lengths.                                *)
(***************************************************************************)
EXTENDS Allocator, DataLemmas, TLAPS

(***************************************************************************)
(* Two blocks that are not empty are disjoint exactly when one ends before *)
(* the other begins.                                                       *)
(***************************************************************************)
Apart(b, m, c, n) == b + m <= c \/ c + n <= b

LEMMA ApartBlocks ==
  ASSUME NEW b \in Nat, NEW m \in Nat \ {0}, NEW c \in Nat, NEW n \in Nat \ {0}
  PROVE  Block(b, m) \cap Block(c, n) = {} <=> Apart(b, m, c, n)
<1>1. ASSUME Apart(b, m, c, n) PROVE Block(b, m) \cap Block(c, n) = {}
  BY <1>1 DEF Block, Apart
<1>2. ASSUME ~ Apart(b, m, c, n) PROVE Block(b, m) \cap Block(c, n) # {}
  <2>1. CASE b <= c
    <3>1. c \in Block(b, m) /\ c \in Block(c, n)
      BY <1>2, <2>1 DEF Block, Apart
    <3> QED BY <3>1
  <2>2. CASE c < b
    <3>1. b \in Block(b, m) /\ b \in Block(c, n)
      BY <1>2, <2>2 DEF Block, Apart
    <3> QED BY <3>1
  <2> QED BY <2>1, <2>2
<1> QED BY <1>1, <1>2

(***************************************************************************)
(* A well formed heap: its holes lie in the memory, none is empty, each    *)
(* knows its place in Spaces, and no two overlap.                          *)
(***************************************************************************)
Spots == 0 .. NSPACES - 1
HoleRecord == [Size : 0 .. MEMORY, Location : 0 .. MEMORY, Num : Spots]
Listed(h) == 0 .. h.Holes - 1

Heaps == [Spaces : [Spots -> HoleRecord], Holes : 0 .. NSPACES, hq : Nat, Current : 0 .. MEMORY]

HolesApart(h) ==
  \A i, j \in Listed(h) :
    i # j => Apart(h.Spaces[i].Location, h.Spaces[i].Size, h.Spaces[j].Location, h.Spaces[j].Size)

HeapOK(h) ==
  /\ h \in Heaps
  /\ \A i \in Listed(h) : /\ h.Spaces[i].Num = i
                          /\ h.Spaces[i].Size > 0
                          /\ h.Spaces[i].Location + h.Spaces[i].Size <= MEMORY
  /\ HolesApart(h)

\* The block of n words at b shares no word with a hole.
OutsideHoles(h, b, n) ==
  \A i \in Listed(h) : Apart(h.Spaces[i].Location, h.Spaces[i].Size, b, n)

LEMMA BestFitListed ==
  ASSUME NEW h, HeapOK(h), NEW n \in Nat \ {0}, h.hq > 0, ~ Refuses(h, n)
  PROVE  BestFit(h, n) \in Listed(h) /\ h.Spaces[BestFit(h, n)].Size >= n
<1> USE AllocatorAssumption
<1> DEFINE Size(i) == h.Spaces[i].Size
           sizes == {Size(i) : i \in Fits(h, n)}
<1>0. Fits(h, n) # {} /\ Fits(h, n) \subseteq Listed(h)
  BY DEF Refuses, Fits, Listed
<1>1. Fits(h, n) \subseteq Nat /\ \A i \in Fits(h, n) : Size(i) \in Nat
  <2>1. h \in Heaps
    BY DEF HeapOK
  <2>2. Listed(h) \subseteq Spots
    BY <2>1 DEF Heaps, Listed, Spots
  <2>3. \A i \in Spots : h.Spaces[i] \in HoleRecord
    BY <2>1 DEF Heaps
  <2> QED BY <1>0, <2>2, <2>3 DEF HoleRecord, Spots
<1> HIDE DEF Size
<1>2. PICK s \in sizes : \A t \in sizes : s <= t
  <2>1. sizes \in SUBSET Nat /\ sizes # {}
    BY <1>0, <1>1
  <2> HIDE DEF sizes
  <2> QED BY <2>1, NatMin
<1> DEFINE smallest == {i \in Fits(h, n) : Size(i) = s}
<1>3. smallest # {} /\ smallest \in SUBSET Nat
  BY <1>1, <1>2
<1>4. PICK k \in smallest : \A i \in smallest : k <= i
  BY <1>3, NatMin
<1>5. \A i \in Fits(h, n) : Size(k) < Size(i) \/ (Size(k) = Size(i) /\ k <= i)
  BY <1>1, <1>2, <1>4
<1>6. \E i \in Fits(h, n) :
        \A j \in Fits(h, n) : \/ h.Spaces[i].Size < h.Spaces[j].Size
                              \/ h.Spaces[i].Size = h.Spaces[j].Size /\ i <= j
  BY <1>5 DEF Size
<1>7. BestFit(h, n) \in Fits(h, n)
  BY <1>6 DEF BestFit
<1> QED BY <1>0, <1>7 DEF Fits

(***************************************************************************)
(* What a request does to a well formed heap: the block it grants and the  *)
(* holes that are left are apart, and both are apart from whatever lay     *)
(* outside the holes before.                                               *)
(***************************************************************************)
LEMMA RequestKeeps ==
  ASSUME NEW h, HeapOK(h), NEW n \in Nat \ {0}, h.hq > 0, ~ Refuses(h, n), UsesLastHole(h, n)
  PROVE  /\ HeapOK(AfterRequest(h, n))
         /\ Location(h, n) \in Nat /\ Location(h, n) + n <= MEMORY
         /\ OutsideHoles(AfterRequest(h, n), Location(h, n), n)
         /\ \A b \in Nat, m \in Nat \ {0} :
              OutsideHoles(h, b, m) => /\ OutsideHoles(AfterRequest(h, n), b, m)
                                       /\ Apart(b, m, Location(h, n), n)
<1> USE AllocatorAssumption
<1> DEFINE k == BestFit(h, n)
           r == AfterRequest(h, n)
           hole == h.Spaces[k]
<1>1. k \in Listed(h) /\ hole.Size >= n
  BY BestFitListed
<1>2. h \in Heaps /\ k \in Spots /\ hole \in HoleRecord /\ hole.Num = k
  BY <1>1 DEF HeapOK, Heaps, Listed, Spots
<1>3. Location(h, n) = hole.Location
  BY DEF Location
<1>4. hole.Location \in Nat /\ hole.Size \in Nat /\ hole.Location + hole.Size <= MEMORY
  BY <1>1, <1>2 DEF HeapOK, HoleRecord
<1> HIDE DEF k, hole
<1>5. CASE hole.Size = n
  <2>1. k = h.Holes - 1 /\ r = UsedUp(h)
    BY <1>5 DEF UsesLastHole, PerfectFit, AfterRequest, k, hole
  <2>2. r \in Heaps /\ r.Spaces = h.Spaces /\ r.Holes = h.Holes - 1
    BY <2>1, <1>1, <1>2 DEF UsedUp, Heap, Heaps, Listed
  <2>3. Listed(r) = Listed(h) \ {k} /\ Listed(r) \subseteq Listed(h)
    BY <2>1, <2>2, <1>2 DEF Listed, Heaps
  <2> HIDE DEF r
  <2>4. HeapOK(r)
    BY <2>2, <2>3 DEF HeapOK, HolesApart
  <2>5. OutsideHoles(r, hole.Location, n)
    BY <1>1, <1>5, <2>2, <2>3 DEF OutsideHoles, HeapOK, HolesApart, hole
  <2>6. ASSUME NEW b \in Nat, NEW m \in Nat \ {0}, OutsideHoles(h, b, m)
        PROVE  OutsideHoles(r, b, m) /\ Apart(b, m, hole.Location, n)
    <3>1. OutsideHoles(r, b, m)
      BY <2>2, <2>3, <2>6 DEF OutsideHoles
    <3>2. Apart(hole.Location, hole.Size, b, m)
      BY <1>1, <2>6 DEF OutsideHoles, hole
    <3> QED BY <3>1, <3>2, <1>4, <1>5 DEF Apart
  <2> QED BY <2>4, <2>5, <2>6, <1>3, <1>4, <1>5 DEF r
<1>6. CASE hole.Size # n
  <2>1. r = Shrunk(h, hole, n)
    BY <1>6 DEF PerfectFit, AfterRequest, k, hole
  <2> DEFINE rest == MemBlock(hole.Size - n, hole.Location + n, hole.Num)
  <2>2. /\ rest \in HoleRecord /\ rest.Num = k
        /\ rest.Size = hole.Size - n /\ rest.Location = hole.Location + n
        /\ hole.Size > n
    BY <1>1, <1>2, <1>4, <1>6 DEF HoleRecord, MemBlock
  <2> HIDE DEF rest
  <2>3. /\ r \in Heaps /\ r.Holes = h.Holes
        /\ r.Spaces = [h.Spaces EXCEPT ![k] = rest]
    BY <2>1, <2>2, <1>2 DEF Shrunk, Heap, Heaps, rest
  <2>4. Listed(r) = Listed(h) /\ Listed(h) \subseteq Spots
    BY <2>3, <1>2 DEF Listed, Heaps, Spots
  <2>5. /\ r.Spaces[k] = rest
        /\ \A i \in Listed(h) : i # k => r.Spaces[i] = h.Spaces[i]
        /\ \A i \in Listed(h) : h.Spaces[i] \in HoleRecord
    BY <2>3, <2>4, <1>2 DEF Heaps
  <2> HIDE DEF r
  <2>6. HolesApart(r)
    <3> SUFFICES ASSUME NEW i \in Listed(h), NEW j \in Listed(h), i # j
                 PROVE  Apart(r.Spaces[i].Location, r.Spaces[i].Size,
                              r.Spaces[j].Location, r.Spaces[j].Size)
      BY <2>4 DEF HolesApart
    <3>1. Apart(h.Spaces[i].Location, h.Spaces[i].Size, h.Spaces[j].Location, h.Spaces[j].Size)
      BY DEF HeapOK, HolesApart
    <3>2. CASE i = k
      BY <3>1, <3>2, <2>2, <2>5, <1>4 DEF Apart, HoleRecord, hole
    <3>3. CASE j = k
      BY <3>1, <3>3, <2>2, <2>5, <1>4 DEF Apart, HoleRecord, hole
    <3> QED BY <3>1, <3>2, <3>3, <2>5
  <2>7. HeapOK(r)
    <3>1. ASSUME NEW i \in Listed(r)
          PROVE  r.Spaces[i].Num = i /\ r.Spaces[i].Size > 0
                   /\ r.Spaces[i].Location + r.Spaces[i].Size <= MEMORY
      BY <2>2, <2>4, <2>5, <1>4 DEF HeapOK
    <3> QED BY <3>1, <2>3, <2>6 DEF HeapOK
  <2>8. OutsideHoles(r, hole.Location, n)
    <3> SUFFICES ASSUME NEW i \in Listed(h)
                 PROVE  Apart(r.Spaces[i].Location, r.Spaces[i].Size, hole.Location, n)
      BY <2>4 DEF OutsideHoles
    <3>1. CASE i = k
      BY <3>1, <2>2, <2>5, <1>4 DEF Apart
    <3>2. CASE i # k
      <4>1. Apart(h.Spaces[i].Location, h.Spaces[i].Size, hole.Location, hole.Size)
        BY <3>2, <1>1 DEF HeapOK, HolesApart, hole
      <4> QED BY <4>1, <3>2, <2>2, <2>5, <1>4 DEF Apart, HoleRecord
    <3> QED BY <3>1, <3>2
  <2>9. ASSUME NEW b \in Nat, NEW m \in Nat \ {0}, OutsideHoles(h, b, m)
        PROVE  OutsideHoles(r, b, m) /\ Apart(b, m, hole.Location, n)
    <3>1. Apart(hole.Location, hole.Size, b, m)
      BY <1>1, <2>9 DEF OutsideHoles, hole
    <3>2. Apart(b, m, hole.Location, n) /\ Apart(rest.Location, rest.Size, b, m)
      BY <3>1, <2>2, <1>4 DEF Apart
    <3>3. OutsideHoles(r, b, m)
      BY <3>2, <2>4, <2>5, <2>9 DEF OutsideHoles
    <3> QED BY <3>2, <3>3
  <2> QED BY <2>7, <2>8, <2>9, <1>3, <1>4, <2>2 DEF r
<1> QED BY <1>5, <1>6

(***************************************************************************)
(* What a release of a block outside the holes does: whatever was apart    *)
(* from the block and from the holes stays apart from the holes.           *)
(***************************************************************************)
LEMMA ReleaseKeeps ==
  ASSUME NEW h, HeapOK(h), h.Holes > 0,
         NEW base \in Nat, NEW length \in Nat \ {0}, base + length <= MEMORY,
         OutsideHoles(h, base, length), ~ ReleaseFails(h, base, length)
  PROVE  /\ HeapOK(AfterRelease(h, base, length))
         /\ \/ AfterRelease(h, base, length).hq = h.hq
               /\ AfterRelease(h, base, length).Holes = h.Holes
               /\ Borders(h, base, length)
            \/ AfterRelease(h, base, length).hq = h.hq + 1
               /\ AfterRelease(h, base, length).Holes = h.Holes + 1
               /\ ~ Borders(h, base, length)
         /\ \A b \in Nat, m \in Nat \ {0} :
              OutsideHoles(h, b, m) /\ Apart(b, m, base, length)
                => OutsideHoles(AfterRelease(h, base, length), b, m)
<1> USE AllocatorAssumption
<1> DEFINE r == AfterRelease(h, base, length)
<1>1. h \in Heaps /\ Listed(h) \subseteq Spots /\ 0 \in Listed(h)
  BY DEF HeapOK, Heaps, Listed, Spots
<1>2. \A i \in Spots : h.Spaces[i] \in HoleRecord
  BY <1>1 DEF Heaps
<1>3. CASE Borders(h, base, length)
  <2> DEFINE hole == h.Spaces[0]
             merged == MemBlock(hole.Size + length, hole.Location - length, hole.Num)
  <2>1. r = Heap([h.Spaces EXCEPT ![0] = merged], h.Holes, h.hq, h.Current)
    BY <1>3 DEF AfterRelease, Merged
  <2>2. /\ merged \in HoleRecord /\ merged.Num = 0 /\ merged.Location = base
        /\ merged.Size = hole.Size + length /\ base + length = hole.Location
        /\ hole.Size \in Nat /\ hole.Size > 0 /\ hole.Location + hole.Size <= MEMORY
    BY <1>1, <1>2, <1>3 DEF MemBlock, HoleRecord, Borders, HeapOK
  <2> HIDE DEF merged, hole
  <2>3. /\ r \in Heaps /\ r.Holes = h.Holes /\ r.hq = h.hq
        /\ r.Spaces = [h.Spaces EXCEPT ![0] = merged]
    BY <2>1, <2>2, <1>1 DEF Heap, Heaps
  <2>4. Listed(r) = Listed(h)
    BY <2>3 DEF Listed
  <2>5. /\ r.Spaces[0] = merged
        /\ \A i \in Listed(h) : i # 0 => r.Spaces[i] = h.Spaces[i]
        /\ \A i \in Listed(h) : h.Spaces[i] \in HoleRecord
    BY <2>3, <1>1, <1>2 DEF Heaps
  <2> HIDE DEF r
  <2>6. ASSUME NEW b \in Nat, NEW m \in Nat \ {0}, Apart(hole.Location, hole.Size, b, m),
               Apart(b, m, base, length)
        PROVE  Apart(merged.Location, merged.Size, b, m)
    BY <2>2, <2>6 DEF Apart
  <2>7. HolesApart(r)
    <3>1. ASSUME NEW j \in Listed(h), j # 0
          PROVE  /\ Apart(merged.Location, merged.Size, h.Spaces[j].Location, h.Spaces[j].Size)
                 /\ Apart(h.Spaces[j].Location, h.Spaces[j].Size, merged.Location, merged.Size)
      <4>1. Apart(hole.Location, hole.Size, h.Spaces[j].Location, h.Spaces[j].Size)
        BY <3>1, <1>1 DEF HeapOK, HolesApart, hole
      <4>2. Apart(h.Spaces[j].Location, h.Spaces[j].Size, base, length)
        BY DEF OutsideHoles
      <4>3. h.Spaces[j].Location \in Nat /\ h.Spaces[j].Size \in Nat \ {0}
        BY <2>5 DEF HoleRecord, HeapOK
      <4> QED BY <4>1, <4>2, <4>3, <2>2, <2>6 DEF Apart
    <3> QED BY <3>1, <2>4, <2>5 DEF HolesApart, HeapOK
  <2>8. HeapOK(r)
    <3>1. ASSUME NEW i \in Listed(r)
          PROVE  r.Spaces[i].Num = i /\ r.Spaces[i].Size > 0
                   /\ r.Spaces[i].Location + r.Spaces[i].Size <= MEMORY
      BY <2>2, <2>4, <2>5 DEF HeapOK
    <3> QED BY <3>1, <2>3, <2>7 DEF HeapOK
  <2>9. ASSUME NEW b \in Nat, NEW m \in Nat \ {0},
               OutsideHoles(h, b, m), Apart(b, m, base, length)
        PROVE  OutsideHoles(r, b, m)
    <3>1. Apart(hole.Location, hole.Size, b, m)
      BY <2>9, <1>1 DEF OutsideHoles, hole
    <3> QED BY <3>1, <2>9, <2>6, <2>4, <2>5 DEF OutsideHoles
  <2> QED BY <1>3, <2>3, <2>8, <2>9 DEF r
<1>4. CASE ~ Borders(h, base, length)
  <2> DEFINE added == MemBlock(length, base, h.Holes)
             k == h.Holes
  <2>1. r = Heap([h.Spaces EXCEPT ![k] = added], h.Holes + 1, h.hq + 1, h.Current)
    BY <1>4 DEF AfterRelease, Added
  <2>2. k \in Spots /\ k \notin Listed(h)
    BY <1>1, <1>4 DEF ReleaseFails, Heaps, Spots, Listed
  <2>3. /\ added \in HoleRecord /\ added.Num = k /\ added.Location = base
        /\ added.Size = length
    <3>1. length \in 0 .. MEMORY /\ base \in 0 .. MEMORY
      OBVIOUS
    <3> QED BY <3>1, <2>2 DEF MemBlock, HoleRecord
  <2> HIDE DEF added
  <2>4. /\ r \in Heaps /\ r.Holes = k + 1 /\ r.hq = h.hq + 1
        /\ r.Spaces = [h.Spaces EXCEPT ![k] = added]
    BY <2>1, <2>2, <2>3, <1>1 DEF Heap, Heaps, Spots
  <2>5. Listed(r) = Listed(h) \cup {k}
    BY <2>4, <1>1 DEF Listed, Heaps
  <2>6. /\ r.Spaces[k] = added
        /\ \A i \in Listed(h) : r.Spaces[i] = h.Spaces[i]
        /\ \A i \in Listed(h) : h.Spaces[i] \in HoleRecord
    BY <2>4, <2>2, <1>1, <1>2 DEF Heaps
  <2> HIDE DEF r, k
  <2>7. HolesApart(r)
    <3>1. ASSUME NEW j \in Listed(h)
          PROVE  /\ Apart(base, length, h.Spaces[j].Location, h.Spaces[j].Size)
                 /\ Apart(h.Spaces[j].Location, h.Spaces[j].Size, base, length)
      BY <2>6 DEF OutsideHoles, Apart, HoleRecord
    <3> QED BY <3>1, <2>3, <2>5, <2>6 DEF HolesApart, HeapOK
  <2>8. HeapOK(r)
    <3>1. ASSUME NEW i \in Listed(r)
          PROVE  r.Spaces[i].Num = i /\ r.Spaces[i].Size > 0
                   /\ r.Spaces[i].Location + r.Spaces[i].Size <= MEMORY
      BY <2>3, <2>5, <2>6 DEF HeapOK
    <3> QED BY <3>1, <2>4, <2>7 DEF HeapOK
  <2>9. ASSUME NEW b \in Nat, NEW m \in Nat \ {0},
               OutsideHoles(h, b, m), Apart(b, m, base, length)
        PROVE  OutsideHoles(r, b, m)
    <3>1. Apart(base, length, b, m)
      BY <2>9 DEF Apart
    <3> QED BY <3>1, <2>9, <2>3, <2>5, <2>6 DEF OutsideHoles
  <2>10. r.Holes = h.Holes + 1
    BY <2>4 DEF k
  <2> QED BY <1>4, <2>4, <2>8, <2>9, <2>10 DEF r
<1> QED BY <1>3, <1>4

\* The hole queue and the list of holes after a request.
LEMMA RequestCounts ==
  ASSUME NEW h, HeapOK(h), NEW n \in Nat \ {0}, h.hq > 0, ~ Refuses(h, n), UsesLastHole(h, n)
  PROVE  LET r == AfterRequest(h, n) IN
         \/ r.hq = h.hq - 1 /\ r.Holes = h.Holes - 1 /\ h.Holes > 1
         \/ r.hq = h.hq + 1 /\ r.Holes = h.Holes
  BY DEF AfterRequest, UsedUp, Shrunk, Heap, UsesLastHole

-----------------------------------------------------------------------------
(***************************************************************************)
(* The inductive invariant.  The hole queue has an entry for every hole,   *)
(* and more for a hole that shrank, so it never runs empty while there are *)
(* holes, and then the words after Memory_Avail_Current are never taken.   *)
(***************************************************************************)
VarsTyped ==
  /\ br \in [PCBs -> 0 .. MEMORY] /\ lr \in [PCBs -> 0 .. MEMORY]
  /\ memoryNum \in 0 .. MEMORY
  /\ numPID \in 1 .. NPROC

ProgramsOK ==
  \A p \in Created :
    /\ lr[p] > 0 /\ br[p] + lr[p] <= MEMORY
    /\ OutsideHoles(heap, br[p], lr[p])
    /\ \A q \in Created : p # q => Apart(br[p], lr[p], br[q], lr[q])

AllocInv ==
  /\ VarsTyped
  /\ HeapOK(heap)
  /\ ProgramsOK
  /\ HolesQueued

LEMMA AllocInit == Init => AllocInv
<1> USE AllocatorAssumption
<1> SUFFICES ASSUME Init PROVE AllocInv
  OBVIOUS
<1>1. PICK length \in Lengths : \E words \in 1 .. length :
        /\ heap = Heap([i \in 0 .. NSPACES - 1 |->
                          IF i = 0 THEN MemBlock(MEMORY - length, length, 0) ELSE MemBlock(0, 0, 0)],
                       1, 1, length)
        /\ br = [p \in PCBs |-> 0]
        /\ lr = [p \in PCBs |-> IF p = 0 THEN length ELSE 0]
        /\ memoryNum = words
        /\ numPID = 1
        /\ status = "running"
  BY DEF Init
<1>2. length \in 1 .. MEMORY - 1 /\ 0 \in PCBs /\ 0 \in Spots
  BY DEF PCBs, Spots
<1> DEFINE first == MemBlock(MEMORY - length, length, 0)
<1>3. /\ first \in HoleRecord /\ MemBlock(0, 0, 0) \in HoleRecord
      /\ first.Size = MEMORY - length /\ first.Location = length /\ first.Num = 0
  BY <1>2 DEF HoleRecord, MemBlock
<1> HIDE DEF first
<1>4. /\ heap \in Heaps /\ heap.Holes = 1 /\ heap.hq = 1 /\ heap.Current = length
      /\ heap.Spaces[0] = first /\ Listed(heap) = {0}
  BY <1>1, <1>2, <1>3 DEF Heap, Heaps, Spots, Listed, first
<1>5. HeapOK(heap)
  BY <1>2, <1>3, <1>4 DEF HeapOK, HolesApart
<1>6. Created = {0} /\ br[0] = 0 /\ lr[0] = length
  BY <1>1, <1>2 DEF Created
<1>7. ProgramsOK
  BY <1>2, <1>3, <1>4, <1>6 DEF ProgramsOK, OutsideHoles, Apart
<1>8. VarsTyped
  BY <1>1, <1>2 DEF VarsTyped
<1> QED BY <1>4, <1>5, <1>7, <1>8 DEF AllocInv, HolesQueued

\* Fork with a hole in the queue.
LEMMA CloneKeeps ==
  ASSUME AllocInv, NEW p \in Created, UsesLastHole(heap, lr[p]), Clone(p)
  PROVE  AllocInv'
<1> USE AllocatorAssumption
<1> DEFINE n == lr[p]
           r == AfterRequest(heap, n)
           base == Location(heap, n)
<1>1. /\ HeapOK(heap) /\ heap \in Heaps /\ VarsTyped /\ ProgramsOK
      /\ p \in PCBs /\ n \in 0 .. MEMORY /\ n > 0
  <2>1. HeapOK(heap) /\ VarsTyped /\ ProgramsOK
    BY DEF AllocInv
  <2>2. heap \in Heaps
    BY <2>1 DEF HeapOK
  <2>3. p \in PCBs
    BY <2>1 DEF VarsTyped, Created, PCBs
  <2>4. n \in 0 .. MEMORY /\ n > 0
    BY <2>1, <2>3 DEF VarsTyped, ProgramsOK
  <2> QED BY <2>1, <2>2, <2>3, <2>4
<1>2. /\ heap' = r /\ br' = [br EXCEPT ![numPID] = base] /\ lr' = [lr EXCEPT ![numPID] = n]
      /\ memoryNum' = memoryNum + n /\ numPID' = numPID + 1 /\ status' = status
      /\ n <= MEMORY - memoryNum /\ numPID < NPROC
      /\ ~ Refuses(heap, n) /\ ~ Overruns(heap, n)
  BY <1>1 DEF Clone, Request, Insufficient, VarsTyped
<1>3. heap.hq > 0
  BY <1>1 DEF AllocInv, HolesQueued, Heaps
<1> HIDE DEF r, base, n
<1>4. /\ HeapOK(r) /\ base \in Nat /\ base + n <= MEMORY /\ OutsideHoles(r, base, n)
      /\ \A b \in Nat, m \in Nat \ {0} :
           OutsideHoles(heap, b, m) => OutsideHoles(r, b, m) /\ Apart(b, m, base, n)
  BY <1>1, <1>2, <1>3, RequestKeeps DEF r, base, n
<1>5. VarsTyped'
  BY SMTT(30), <1>1, <1>2, <1>4 DEF VarsTyped, PCBs
<1>6. /\ Created' = Created \cup {numPID} /\ numPID \notin Created
      /\ br'[numPID] = base /\ lr'[numPID] = n
      /\ \A q \in Created : br'[q] = br[q] /\ lr'[q] = lr[q] /\ q \in PCBs
  BY SMTT(30), <1>1, <1>2 DEF Created, VarsTyped, PCBs
<1>7. ProgramsOK'
  <2>1. ASSUME NEW q \in Created
        PROVE  /\ br[q] \in Nat /\ lr[q] \in Nat \ {0} /\ br[q] + lr[q] <= MEMORY
               /\ OutsideHoles(heap', br[q], lr[q])
               /\ Apart(br[q], lr[q], base, n) /\ Apart(base, n, br[q], lr[q])
    <3>1. br[q] \in Nat /\ lr[q] \in Nat \ {0} /\ OutsideHoles(heap, br[q], lr[q])
      BY <1>1, <1>6 DEF ProgramsOK, VarsTyped
    <3>2. OutsideHoles(r, br[q], lr[q]) /\ Apart(br[q], lr[q], base, n)
      BY <3>1, <1>4
    <3> QED BY <3>1, <3>2, <1>1, <1>2, <1>4 DEF Apart, ProgramsOK
  <2>2. OutsideHoles(heap', base, n)
    BY <1>2, <1>4
  <2>3. \A q \in Created' :
          /\ lr'[q] > 0 /\ br'[q] + lr'[q] <= MEMORY
          /\ OutsideHoles(heap', br'[q], lr'[q])
          /\ \A s \in Created' : q # s => Apart(br'[q], lr'[q], br'[s], lr'[s])
    BY <2>1, <2>2, <1>1, <1>4, <1>6 DEF ProgramsOK
  <2> QED BY <2>3 DEF ProgramsOK, OutsideHoles, Listed, Apart
<1>8. \/ heap'.hq = heap.hq - 1 /\ heap'.Holes = heap.Holes - 1 /\ heap.Holes > 1
      \/ heap'.hq = heap.hq + 1 /\ heap'.Holes = heap.Holes
  BY <1>1, <1>2, <1>3, RequestCounts DEF r, n
<1>9. heap'.Holes > 0 /\ heap'.hq >= heap'.Holes
  BY <1>1, <1>8 DEF AllocInv, HolesQueued, Heaps
<1> QED BY <1>2, <1>4, <1>5, <1>7, <1>9 DEF AllocInv, HolesQueued

(***************************************************************************)
(* Fork that finds the memory insufficient, after the request.             *)
(***************************************************************************)
LEMMA NoCloneKeeps ==
  ASSUME AllocInv, NEW p \in Created, UsesLastHole(heap, lr[p]), NoClone(p)
  PROVE  AllocInv'
<1> USE AllocatorAssumption
<1> DEFINE n == lr[p]
           r == AfterRequest(heap, n)
           base == Location(heap, n)
<1>1. /\ HeapOK(heap) /\ heap \in Heaps /\ VarsTyped /\ ProgramsOK
      /\ p \in PCBs /\ n \in 0 .. MEMORY /\ n > 0
  <2>1. HeapOK(heap) /\ VarsTyped /\ ProgramsOK
    BY DEF AllocInv
  <2>2. heap \in Heaps
    BY <2>1 DEF HeapOK
  <2>3. p \in PCBs
    BY <2>1 DEF VarsTyped, Created, PCBs
  <2>4. n \in 0 .. MEMORY /\ n > 0
    BY <2>1, <2>3 DEF VarsTyped, ProgramsOK
  <2> QED BY <2>1, <2>2, <2>3, <2>4
<1>2. /\ heap' = r /\ br' = [br EXCEPT ![numPID] = base]
      /\ UNCHANGED <<lr, memoryNum, numPID, status>>
      /\ n > MEMORY - memoryNum /\ numPID < NPROC
      /\ ~ Refuses(heap, n) /\ ~ Overruns(heap, n)
  BY <1>1 DEF NoClone, Request, Insufficient, VarsTyped
<1>3. heap.hq \in Nat /\ heap.Holes \in Nat /\ heap.hq > 0
  BY <1>1 DEF AllocInv, HolesQueued, Heaps
<1> HIDE DEF r, base, n
<1>4. /\ HeapOK(r) /\ base \in 0 .. MEMORY
      /\ \A b \in Nat, m \in Nat \ {0} : OutsideHoles(heap, b, m) => OutsideHoles(r, b, m)
      /\ r.Holes > 0 /\ r.hq >= r.Holes
  <2>1. /\ HeapOK(r) /\ base \in Nat /\ base + n <= MEMORY
        /\ \A b \in Nat, m \in Nat \ {0} : OutsideHoles(heap, b, m) => OutsideHoles(r, b, m)
    BY <1>1, <1>2, <1>3, RequestKeeps DEF r, base, n
  <2>2. \/ r.hq = heap.hq - 1 /\ r.Holes = heap.Holes - 1 /\ heap.Holes > 1
        \/ r.hq = heap.hq + 1 /\ r.Holes = heap.Holes
    BY <1>1, <1>2, <1>3, RequestCounts DEF r, n
  <2> QED BY <2>1, <2>2, <1>1, <1>3 DEF AllocInv, HolesQueued
<1>5. /\ VarsTyped' /\ Created' = Created
      /\ \A q \in Created : br'[q] = br[q] /\ lr'[q] = lr[q] /\ q \in PCBs
  BY <1>1, <1>2, <1>4 DEF VarsTyped, PCBs, Created
<1>6. ProgramsOK'
  <2>1. ASSUME NEW q \in Created
        PROVE  /\ lr[q] > 0 /\ br[q] + lr[q] <= MEMORY /\ OutsideHoles(heap', br[q], lr[q])
               /\ \A s \in Created : q # s => Apart(br[q], lr[q], br[s], lr[s])
    <3>1. br[q] \in Nat /\ lr[q] \in Nat \ {0} /\ OutsideHoles(heap, br[q], lr[q])
      BY <1>1, <1>5 DEF ProgramsOK, VarsTyped
    <3> QED BY <3>1, <1>1, <1>2, <1>4 DEF ProgramsOK
  <2>2. \A q \in Created' :
          /\ lr'[q] > 0 /\ br'[q] + lr'[q] <= MEMORY
          /\ OutsideHoles(heap', br'[q], lr'[q])
          /\ \A s \in Created' : q # s => Apart(br'[q], lr'[q], br'[s], lr'[s])
    BY <2>1, <1>5
  <2> QED BY <2>2 DEF ProgramsOK, OutsideHoles, Listed, Apart
<1> QED BY <1>2, <1>4, <1>5, <1>6 DEF AllocInv, HolesQueued

(***************************************************************************)
(* EX that gets the memory that it released.                               *)
(***************************************************************************)
LEMMA LoadKeeps ==
  ASSUME AllocInv, NEW p \in Created, NEW n \in Lengths, NEW words, GetsOwnMemory(p, n),
         Load(p, n, words)
  PROVE  AllocInv'
<1> USE AllocatorAssumption
<1> DEFINE f == AfterRelease(heap, br[p], lr[p])
           r == AfterRequest(f, n)
<1>1. HeapOK(heap) /\ heap \in Heaps /\ VarsTyped /\ ProgramsOK /\ n \in 1 .. MEMORY - 1
  BY DEF AllocInv, HeapOK
<1>2. \A q \in Created : /\ q \in PCBs /\ br[q] \in 0 .. MEMORY /\ lr[q] \in 1 .. MEMORY
                         /\ br[q] + lr[q] <= MEMORY /\ OutsideHoles(heap, br[q], lr[q])
  <2> SUFFICES ASSUME NEW q \in Created
               PROVE  /\ q \in PCBs /\ br[q] \in 0 .. MEMORY /\ lr[q] \in 1 .. MEMORY
                      /\ br[q] + lr[q] <= MEMORY /\ OutsideHoles(heap, br[q], lr[q])
    OBVIOUS
  <2>1. q \in PCBs
    BY <1>1 DEF VarsTyped, Created, PCBs
  <2> QED BY <2>1, <1>1 DEF VarsTyped, ProgramsOK
<1>3. /\ ~ ReleaseFails(heap, br[p], lr[p])
      /\ heap' = r /\ br' = [br EXCEPT ![numPID] = Location(f, n)]
      /\ lr' = [lr EXCEPT ![p] = n] /\ UNCHANGED <<memoryNum, numPID, status>>
      /\ numPID < NPROC /\ ~ Refuses(f, n) /\ ~ Overruns(f, n)
  BY DEF Load, Request
<1>4. UsesLastHole(f, n) /\ Location(f, n) = br[p]
  BY <1>3 DEF GetsOwnMemory
<1>5. heap.hq \in Nat /\ heap.Holes \in Nat /\ heap.Holes > 0 /\ heap.hq >= heap.Holes
  BY <1>1 DEF AllocInv, HolesQueued, Heaps
<1> HIDE DEF f, r
<1>6. /\ VarsTyped' /\ Created' = Created
      /\ \A q \in Created : br'[q] = br[q] /\ lr'[q] = IF q = p THEN n ELSE lr[q]
  <2>1. VarsTyped'
    <3>1. Location(f, n) \in 0 .. MEMORY /\ n \in 0 .. MEMORY
      BY <1>1, <1>2, <1>4
    <3>2. /\ br \in [PCBs -> 0 .. MEMORY] /\ lr \in [PCBs -> 0 .. MEMORY]
          /\ memoryNum' \in 0 .. MEMORY /\ numPID' \in 1 .. NPROC
      BY <1>1, <1>3 DEF VarsTyped
    <3>3. br' \in [PCBs -> 0 .. MEMORY] /\ lr' \in [PCBs -> 0 .. MEMORY]
      BY <1>3, <3>1, <3>2
    <3> QED BY <3>2, <3>3 DEF VarsTyped, PCBs
  <2>2. Created' = Created /\ numPID \notin Created
    BY <1>1, <1>3 DEF Created, VarsTyped
  <2>3. br \in [PCBs -> 0 .. MEMORY] /\ lr \in [PCBs -> 0 .. MEMORY]
    BY <1>1 DEF VarsTyped
  <2> QED BY <2>1, <2>2, <2>3, <1>2, <1>3
<1>7. /\ HeapOK(r) /\ OutsideHoles(r, br[p], n) /\ br[p] + n <= MEMORY
      /\ \A q \in Created : q # p => /\ OutsideHoles(r, br[q], lr[q])
                                     /\ Apart(br[q], lr[q], br[p], n)
      /\ r.Holes > 0 /\ r.hq >= r.Holes
  <2>1. /\ HeapOK(f)
        /\ \/ f.hq = heap.hq /\ f.Holes = heap.Holes
           \/ f.hq = heap.hq + 1 /\ f.Holes = heap.Holes + 1
        /\ \A b \in Nat, m \in Nat \ {0} :
             OutsideHoles(heap, b, m) /\ Apart(b, m, br[p], lr[p]) => OutsideHoles(f, b, m)
    <3>1. br[p] \in Nat /\ lr[p] \in Nat \ {0} /\ br[p] + lr[p] <= MEMORY
      BY <1>2
    <3> QED BY <3>1, <1>1, <1>2, <1>3, <1>5, ReleaseKeeps DEF f
  <2>2. f.hq > 0
    BY <2>1, <1>5
  <2>3. /\ HeapOK(r) /\ OutsideHoles(r, br[p], n) /\ br[p] + n <= MEMORY
        /\ \A b \in Nat, m \in Nat \ {0} :
             OutsideHoles(f, b, m) => OutsideHoles(r, b, m) /\ Apart(b, m, br[p], n)
    BY <2>1, <2>2, <1>1, <1>3, <1>4, RequestKeeps DEF r
  <2>4. \A q \in Created : q # p => /\ OutsideHoles(r, br[q], lr[q])
                                   /\ Apart(br[q], lr[q], br[p], n)
    <3> SUFFICES ASSUME NEW q \in Created, q # p
                 PROVE  OutsideHoles(r, br[q], lr[q]) /\ Apart(br[q], lr[q], br[p], n)
      OBVIOUS
    <3>1. br[q] \in Nat /\ lr[q] \in Nat \ {0} /\ OutsideHoles(heap, br[q], lr[q])
      BY <1>2
    <3>2. Apart(br[q], lr[q], br[p], lr[p])
      BY <1>1 DEF ProgramsOK
    <3> QED BY <3>1, <3>2, <2>1, <2>3
  <2>5. \/ r.hq = f.hq - 1 /\ r.Holes = f.Holes - 1 /\ f.Holes > 1
        \/ r.hq = f.hq + 1 /\ r.Holes = f.Holes
    BY <2>1, <2>2, <1>1, <1>3, <1>4, RequestCounts DEF r
  <2>6. r.Holes > 0 /\ r.hq >= r.Holes
    BY <2>1, <2>5, <1>5
  <2> QED BY <2>3, <2>4, <2>6
<1>8. ProgramsOK'
  <2>1. ASSUME NEW q \in Created'
        PROVE  /\ lr'[q] > 0 /\ br'[q] + lr'[q] <= MEMORY /\ OutsideHoles(heap', br'[q], lr'[q])
               /\ \A s \in Created' : q # s => Apart(br'[q], lr'[q], br'[s], lr'[s])
    <3>1. q \in Created /\ br'[q] = br[q] /\ lr'[q] = IF q = p THEN n ELSE lr[q]
      BY <1>6
    <3>2. lr'[q] > 0 /\ br'[q] + lr'[q] <= MEMORY /\ OutsideHoles(heap', br'[q], lr'[q])
      BY <3>1, <1>1, <1>2, <1>3, <1>7
    <3>3. ASSUME NEW s \in Created', q # s
          PROVE  Apart(br'[q], lr'[q], br'[s], lr'[s])
      <4>1. s \in Created /\ br'[s] = br[s] /\ lr'[s] = IF s = p THEN n ELSE lr[s]
        BY <1>6
      <4>2. Apart(br[q], lr[q], br[s], lr[s])
        BY <3>1, <3>3, <4>1, <1>1 DEF ProgramsOK
      <4>3. CASE q = p
        BY <3>1, <3>3, <4>1, <4>3, <1>1, <1>2, <1>7 DEF Apart
      <4>4. CASE s = p
        BY <3>1, <3>3, <4>1, <4>4, <1>7
      <4> QED BY <3>1, <4>1, <4>2, <4>3, <4>4
    <3> QED BY <3>2, <3>3
  <2> QED BY <2>1 DEF ProgramsOK, OutsideHoles, Listed, Apart
<1> QED BY <1>3, <1>6, <1>7, <1>8 DEF AllocInv, HolesQueued
-----------------------------------------------------------------------------
\* A step that only stops the machine, or nothing.
LEMMA HaltKeeps ==
  ASSUME AllocInv, UNCHANGED <<heap, br, lr, memoryNum, numPID>>
  PROVE  AllocInv'
  BY DEF AllocInv, HolesQueued, VarsTyped, ProgramsOK, Created, OutsideHoles, HeapOK,
         HolesApart, Listed, Apart

LEMMA AllocStep == AllocInv /\ [CarefulNext]_allocVars => AllocInv'
<1> SUFFICES ASSUME AllocInv, [CarefulNext]_allocVars PROVE AllocInv'
  OBVIOUS
<1>1. CASE \E p \in Created : UsesLastHole(heap, lr[p]) /\ Fork(p)
  <2>1. PICK p \in Created : UsesLastHole(heap, lr[p]) /\ Fork(p)
    BY <1>1
  <2>2. CASE ForkFails(p)
    BY <2>2, HaltKeeps DEF ForkFails, RequestFails, Abort
  <2> QED BY <2>1, <2>2, CloneKeeps, NoCloneKeeps DEF Fork
<1>2. CASE \E p \in Created : \E n \in Lengths : \E words \in 0 .. n :
             (~ ReleaseFails(heap, br[p], lr[p]) => GetsOwnMemory(p, n)) /\ Exec(p, n, words)
  <2>1. PICK p \in Created, n \in Lengths : \E words \in 0 .. n :
          (~ ReleaseFails(heap, br[p], lr[p]) => GetsOwnMemory(p, n)) /\ Exec(p, n, words)
    BY <1>2
  <2>2. PICK words \in 0 .. n :
          (~ ReleaseFails(heap, br[p], lr[p]) => GetsOwnMemory(p, n)) /\ Exec(p, n, words)
    BY <2>1
  <2>3. CASE LoadFails(p, n, words)
    BY <2>3, HaltKeeps DEF LoadFails, RequestFails, Abort
  <2>4. CASE Load(p, n, words)
    <3>1. ~ ReleaseFails(heap, br[p], lr[p])
      BY <2>4 DEF Load
    <3> QED BY <2>2, <2>4, <3>1, LoadKeeps
  <2> QED BY <2>2, <2>3, <2>4 DEF Exec
<1>3. CASE UNCHANGED allocVars
  BY <1>3, HaltKeeps DEF allocVars
<1> QED BY <1>1, <1>2, <1>3 DEF CarefulNext, Stopped

\* The inductive invariant holds in every reachable state.
THEOREM AllocInvariant == CarefulSpec => []AllocInv
<1> QED BY AllocInit, AllocStep, PTL DEF CarefulSpec

(***************************************************************************)
(* The types of the allocator's variables, for every size of memory.       *)
(***************************************************************************)
THEOREM AllocTyped == CarefulSpec => []AllocTypeOK
<1> DEFINE Running == status \in {"running", "exit", "oob"}
<1>1. AllocInv /\ Running => AllocTypeOK
  BY DEF AllocInv, AllocTypeOK, VarsTyped, HeapOK, Heaps, HoleRecord, Spots, Listed
<1>2. Init => Running
  BY DEF Init
<1>3. Running /\ [CarefulNext]_allocVars => Running'
  BY DEF CarefulNext, Fork, Clone, NoClone, ForkFails, Exec, Load, LoadFails, RequestFails,
         Abort, Stopped, allocVars
<1> QED BY <1>1, <1>2, <1>3, AllocInvariant, PTL DEF CarefulSpec

(***************************************************************************)
(* No word of memory belongs to two programs, to a program and a hole, or  *)
(* to two holes, for every size of memory and all lengths of programs.     *)
(***************************************************************************)
THEOREM BlocksStayApart == CarefulSpec => []BlocksApart
<1>1. AllocInv => BlocksApart
  <2> USE AllocatorAssumption
  <2> SUFFICES ASSUME AllocInv PROVE BlocksApart
    OBVIOUS
  <2>1. \A p \in Created : br[p] \in Nat /\ lr[p] \in Nat \ {0}
    <3> SUFFICES ASSUME NEW p \in Created PROVE br[p] \in Nat /\ lr[p] \in Nat \ {0}
      OBVIOUS
    <3>1. p \in PCBs
      BY DEF AllocInv, VarsTyped, Created, PCBs
    <3> QED BY <3>1 DEF AllocInv, VarsTyped, ProgramsOK
  <2>2. \A i \in Listed(heap) : /\ heap.Spaces[i].Location \in Nat
                                /\ heap.Spaces[i].Size \in Nat \ {0}
    <3> SUFFICES ASSUME NEW i \in Listed(heap)
                 PROVE  heap.Spaces[i].Location \in Nat /\ heap.Spaces[i].Size \in Nat \ {0}
      OBVIOUS
    <3>1. HeapOK(heap) /\ heap \in Heaps
      BY DEF AllocInv, HeapOK
    <3>2. i \in Spots
      BY <3>1 DEF Heaps, Listed, Spots
    <3>3. heap.Spaces[i] \in HoleRecord
      BY <3>1, <3>2 DEF Heaps
    <3> QED BY <3>1, <3>3 DEF HeapOK, HoleRecord
  <2>3. ProgramsApart
    <3> SUFFICES ASSUME NEW p \in Created, NEW q \in Created, p # q
                 PROVE  Program(p) \cap Program(q) = {}
      BY DEF ProgramsApart
    <3>1. Apart(br[p], lr[p], br[q], lr[q])
      BY DEF AllocInv, ProgramsOK
    <3> QED BY <3>1, <2>1, ApartBlocks DEF Program
  <2>4. ASSUME NEW i \in Listed(heap), NEW p \in Created
        PROVE  Hole(i) \cap Program(p) = {}
    <3>1. Apart(heap.Spaces[i].Location, heap.Spaces[i].Size, br[p], lr[p])
      BY DEF AllocInv, ProgramsOK, OutsideHoles
    <3> QED BY <3>1, <2>1, <2>2, ApartBlocks DEF Program, Hole
  <2>5. ASSUME NEW i \in Listed(heap), NEW j \in Listed(heap), i # j
        PROVE  Hole(i) \cap Hole(j) = {}
    <3>1. Apart(heap.Spaces[i].Location, heap.Spaces[i].Size,
                heap.Spaces[j].Location, heap.Spaces[j].Size)
      BY <2>5 DEF AllocInv, HeapOK, HolesApart
    <3> QED BY <3>1, <2>2, ApartBlocks DEF Hole
  <2>6. HolesFree
    BY <2>4, <2>5 DEF HolesFree, Listed
  <2> QED BY <2>3, <2>6 DEF BlocksApart
<1> QED BY <1>1, AllocInvariant, PTL

(***************************************************************************)
(* The hole queue never runs empty, for every size of memory.              *)
(***************************************************************************)
THEOREM QueueNeverEmpty == CarefulSpec => []HolesQueued
<1>1. AllocInv => HolesQueued
  BY DEF AllocInv
<1> QED BY <1>1, AllocInvariant, PTL
=============================================================================
