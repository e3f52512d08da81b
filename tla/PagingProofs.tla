---------------------------- MODULE PagingProofs ----------------------------
(***************************************************************************)
(* The paging of RAM.c under CarefulSpec of Paging: frames are never       *)
(* shared, and the programs see a flat memory, for every number and size   *)
(* of pages, programs and processes.                                       *)
(***************************************************************************)
EXTENDS Paging, DataLemmas, FiniteSetTheorems, TLAPS

USE DEF Frames

\* The constants, as the provers need them.
LEMMA Sizes ==
  /\ numpages \in Nat /\ numpages > 0 /\ pagesize \in Nat \ {0} /\ MEMORY \in Nat
  /\ Length \in Nat /\ Length > 0 /\ Block \in Nat /\ Block > 0 /\ Block <= Length
  /\ BYTE \in Nat /\ BYTE > 0 /\ NeverUsed \in Nat /\ NeverUsed > 1
  /\ Procs \subseteq Nat /\ 0 \in Procs /\ Base \in [Procs -> Nat]
  /\ \A p \in Procs : Base[p] + Length <= MEMORY
<1>1. {numpages, pagesize, MEMORY, Length, Block, BYTE, NeverUsed} \subseteq Nat \ {0}
  BY PagingAssumption
<1>2. /\ numpages \in Nat \ {0} /\ pagesize \in Nat \ {0} /\ MEMORY \in Nat \ {0}
      /\ Length \in Nat \ {0} /\ Block \in Nat \ {0} /\ BYTE \in Nat \ {0}
      /\ NeverUsed \in Nat \ {0}
  BY <1>1, Zenon
<1>3. Procs \subseteq Nat /\ 0 \in Procs
  <2>1. Cardinality(Procs) \in Nat
    BY PagingAssumption, FS_CardinalityType
  <2>2. Procs = 0 .. Cardinality(Procs) - 1 /\ 0 \in Procs
    BY PagingAssumption
  <2> QED BY <2>1, <2>2
<1> QED BY <1>2, <1>3, PagingAssumption

LEMMA Table == Size_PT \in Nat /\ Size_PT > 0 /\ MEMORY < Size_PT * pagesize
<1>1. /\ MEMORY \div pagesize \in Nat /\ MEMORY % pagesize \in 0 .. pagesize - 1
      /\ MEMORY = (MEMORY \div pagesize) * pagesize + (MEMORY % pagesize)
  BY Sizes, DivMod
<1>2. Size_PT \in Nat /\ MEMORY \div pagesize < Size_PT
  BY <1>1 DEF Size_PT
<1>3. MEMORY \in 0 .. Size_PT * pagesize - 1
  BY <1>1, <1>2, Sizes, BelowMultiple
<1>4. Size_PT * pagesize \in Nat
  BY <1>2, Sizes
<1> QED BY <1>2, <1>3, <1>4, <1>1, Sizes

\* The word of frame f is in RAM, that of page pg on the disk.
LEMMA WordInFrame ==
  ASSUME NEW f \in Frames, NEW i \in Nat
  PROVE  /\ InFrame(f, i) \in 0 .. numpages * pagesize - 1
         /\ InFrame(f, i) \div pagesize = f /\ InFrame(f, i) % pagesize = i % pagesize
<1> DEFINE r == i % pagesize
<1>1. pagesize \in Nat \ {0} /\ numpages \in Nat /\ f \in Nat /\ f < numpages
  BY Sizes
<1>2. r \in 0 .. pagesize - 1
  BY <1>1, DivMod
<1> HIDE DEF r
<1>3. f * pagesize + r \in 0 .. numpages * pagesize - 1
  BY <1>1, <1>2, BelowMultiple
<1>4. (f * pagesize + r) \div pagesize = f /\ (f * pagesize + r) % pagesize = r
  BY <1>1, <1>2, DivUnique
<1>5. InFrame(f, i) = f * pagesize + r
  BY DEF InFrame, r
<1> QED BY <1>3, <1>4, <1>5 DEF r

LEMMA WordOnDisk ==
  ASSUME NEW pg \in Pages, NEW i \in Nat
  PROVE  Address(pg, i) \in Addresses /\ Address(pg, i) \div pagesize = pg
<1> DEFINE r == i % pagesize
<1>1. pagesize \in Nat \ {0} /\ Size_PT \in Nat /\ pg \in Nat /\ pg < Size_PT
  BY Sizes, Table DEF Pages
<1>2. r \in 0 .. pagesize - 1
  BY <1>1, DivMod
<1> HIDE DEF r
<1>3. pg * pagesize + r \in 0 .. Size_PT * pagesize - 1
  BY <1>1, <1>2, BelowMultiple
<1>4. (pg * pagesize + r) \div pagesize = pg
  BY <1>1, <1>2, DivUnique
<1>5. Address(pg, i) = pg * pagesize + r
  BY DEF Address, r
<1> QED BY <1>3, <1>4, <1>5 DEF Addresses

LEMMA PageOfAddress ==
  ASSUME NEW a \in Addresses
  PROVE  a \in Nat /\ a \div pagesize \in Pages
<1>1. Size_PT * pagesize \in Nat /\ a \in Nat /\ a < Size_PT * pagesize
  BY Sizes, Table DEF Addresses
<1>2. /\ a \div pagesize \in Nat /\ a % pagesize \in Nat
      /\ a = (a \div pagesize) * pagesize + (a % pagesize)
  <2>1. a \in Nat /\ pagesize \in Nat \ {0}
    BY <1>1, Sizes
  <2>2. /\ a \div pagesize \in Nat /\ a % pagesize \in 0 .. pagesize - 1
        /\ a = (a \div pagesize) * pagesize + (a % pagesize)
    BY <2>1, DivMod
  <2> QED BY <2>1, <2>2
<1>3. ASSUME Size_PT <= a \div pagesize PROVE FALSE
  <2>1. PICK d \in Nat : a \div pagesize = Size_PT + d
    <3>1. (a \div pagesize) - Size_PT \in Nat
      BY <1>2, <1>3, Table
    <3> QED BY <3>1, <1>2, Table
  <2>2. (a \div pagesize) * pagesize = Size_PT * pagesize + d * pagesize /\ d * pagesize \in Nat
    BY <2>1, Sizes, Table
  <2> QED BY <2>2, <1>1, <1>2
<1> QED BY <1>1, <1>2, <1>3, Table DEF Pages

\* An offset of a program is a word of the disk.
LEMMA OffsetOnDisk ==
  ASSUME NEW p \in Procs, NEW i \in Offsets
  PROVE  Base[p] \in Nat /\ i \in Nat /\ Base[p] + i \in Addresses /\ Page(p, i) \in Pages
<1>1. Base[p] \in Nat /\ i \in Nat /\ Base[p] + i < MEMORY
  BY Sizes DEF Offsets
<1>2. Base[p] + i \in Addresses
  BY <1>1, Table, Sizes DEF Addresses
<1> QED BY <1>1, <1>2, PageOfAddress DEF Page

-----------------------------------------------------------------------------
(***************************************************************************)
(* Programs on pages of their own.                                         *)
(***************************************************************************)
LEMMA AlignedOffset ==
  ASSUME Apart, NEW p \in Procs, NEW i \in Offsets
  PROVE  /\ Base[p] % BYTE = Base[p]
         /\ Address(Page(p, i), i) = Base[p] + i
         /\ (Base[p] + i) % pagesize = i % pagesize
<1> DEFINE b == Base[p] \div pagesize
           q == i \div pagesize
           r == i % pagesize
<1>1. Base[p] \in Nat /\ i \in Nat /\ pagesize \in Nat \ {0} /\ Base[p] % pagesize = 0
  BY Sizes, OffsetOnDisk DEF Apart
<1>2. b \in Nat /\ Base[p] = b * pagesize
  <2>1. b \in Nat /\ Base[p] = b * pagesize + (Base[p] % pagesize)
    BY <1>1, DivMod
  <2> QED BY <2>1, <1>1
<1>3. q \in Nat /\ r \in 0 .. pagesize - 1 /\ i = q * pagesize + r
  BY <1>1, DivMod
<1> HIDE DEF b, q, r
<1>4. Base[p] + i = (b + q) * pagesize + r /\ b + q \in Nat
  BY <1>1, <1>2, <1>3
<1>5. (Base[p] + i) \div pagesize = b + q /\ (Base[p] + i) % pagesize = r
  <2>1. \A n \in Nat : (n * pagesize + r) \div pagesize = n /\ (n * pagesize + r) % pagesize = r
    <3>1. pagesize \in Nat \ {0} /\ r \in 0 .. pagesize - 1
      BY <1>1, <1>3
    <3> QED BY <3>1, DivUnique
  <2> QED BY <2>1, <1>4
<1>6. Base[p] % BYTE = Base[p]
  BY <1>1, Sizes DEF Apart
<1> QED BY <1>4, <1>5, <1>6 DEF Address, Page, r

LEMMA OwnWord ==
  ASSUME Apart, NEW p \in Procs, NEW i \in Offsets, NEW q \in Procs, NEW j \in Offsets
  PROVE  /\ Page(p, i) = Page(q, j) => p = q
         /\ Base[p] + i = Base[q] + j => p = q /\ i = j
<1>1. Page(p, i) = Page(q, j) => p = q
  BY DEF Apart
<1>2. Base[p] + i = Base[q] + j => p = q
  BY <1>1 DEF Page
<1>3. Base[p] \in Nat /\ i \in Nat /\ j \in Nat
  BY OffsetOnDisk
<1> QED BY <1>1, <1>2, <1>3

\* Two words of one program with one place in the frame of one page are one.
LEMMA SamePlace ==
  ASSUME Apart, NEW p \in Procs, NEW i \in Offsets, NEW q \in Procs, NEW j \in Offsets,
         Page(p, i) = Page(q, j), i % pagesize = j % pagesize
  PROVE  p = q /\ i = j
<1>1. Address(Page(p, i), i) = Base[p] + i /\ Address(Page(q, j), j) = Base[q] + j
  BY AlignedOffset
<1>2. Address(Page(p, i), i) = Address(Page(q, j), j)
  BY DEF Address
<1> QED BY <1>1, <1>2, OwnWord

-----------------------------------------------------------------------------
(***************************************************************************)
(* The invariant: besides what the run checks, the count tells whether a   *)
(* page is in RAM, only processes that exist have pages there, and they    *)
(* exist in the order of their PIDs.                                       *)
(***************************************************************************)
CountTells ==
  \A pg \in Pages : IF Valid(pg) THEN pageTable[pg].count < NeverUsed
                    ELSE pageTable[pg].count = NeverUsed

CreatedInRam == \A p \in Procs, i \in Offsets : Valid(Page(p, i)) => p \in created

CreatedInOrder == \E n \in Nat \ {0} : created = 0 .. n - 1

TableInv == FramesDisjoint /\ CountTells /\ CreatedInRam

PagingInv == Apart /\ PagingTypeOK /\ TableInv /\ CreatedInOrder

LEMMA NewcomerIsNew ==
  ASSUME CreatedInOrder, NEW q, q = Cardinality(created)
  PROVE  /\ q \in Nat \ {0} /\ created = 0 .. q - 1
         /\ q \notin created /\ created \cup {q} = 0 .. (q + 1) - 1
<1>1. PICK n \in Nat \ {0} : created = 0 .. n - 1
  BY DEF CreatedInOrder
<1>2. Cardinality(0 .. n - 1) = n
  <2>1. 0 \in Int /\ n - 1 \in Int
    OBVIOUS
  <2>2. Cardinality(0 .. n - 1) = IF 0 > n - 1 THEN 0 ELSE (n - 1) - 0 + 1
    BY <2>1, FS_Interval
  <2> QED BY <2>2
<1> QED BY <1>1, <1>2

LEMMA EntryType ==
  ASSUME PagingTypeOK, NEW pg \in Pages
  PROVE  /\ pageTable[pg].v \in {0, 1} /\ pageTable[pg].framenumber \in Frames
         /\ pageTable[pg].count \in Nat
  BY Sizes DEF PagingTypeOK

\* RemoveLeastUsedPage finds a page, and no count is smaller.
LEMMA VictimIsLeastUsed ==
  ASSUME PagingTypeOK
  PROVE  Victim \in Pages /\ \A pg \in Pages : pageTable[Victim].count <= pageTable[pg].count
<1> DEFINE Counts == {pageTable[pg].count : pg \in Pages}
<1>1. 0 \in Pages /\ Pages \subseteq Nat
  BY Table DEF Pages
<1>2. Counts \in SUBSET Nat /\ Counts # {}
  BY <1>1, EntryType
<1>3. PICK least \in Counts : \A c \in Counts : least <= c
  BY <1>2, NatMin
<1> DEFINE Least == {pg \in Pages : pageTable[pg].count = least}
<1>4. Least \in SUBSET Nat /\ Least # {}
  BY <1>1, <1>3
<1>5. PICK first \in Least : \A pg \in Least : first <= pg
  BY <1>4, NatMin
<1>6. \A other \in Pages :
        \/ pageTable[first].count < pageTable[other].count
        \/ pageTable[first].count = pageTable[other].count /\ first <= other
  <2> TAKE other \in Pages
  <2>1. pageTable[other].count \in Nat /\ least <= pageTable[other].count /\ least \in Nat
    BY <1>2, <1>3, EntryType
  <2>2. pageTable[first].count = least
    BY <1>5
  <2>3. CASE pageTable[other].count = least
    BY <2>2, <2>3, <1>5
  <2>4. CASE pageTable[other].count # least
    BY <2>1, <2>2, <2>4
  <2> QED BY <2>3, <2>4
<1>7. first \in Pages
  BY <1>5
<1>8. /\ Victim \in Pages
      /\ \A other \in Pages :
           \/ pageTable[Victim].count < pageTable[other].count
           \/ pageTable[Victim].count = pageTable[other].count /\ Victim <= other
  BY <1>6, <1>7 DEF Victim
<1> QED BY <1>8, EntryType

(***************************************************************************)
(* A full RAM replaces a page that is in it: every frame has a page with a *)
(* count below that of the pages outside.                                  *)
(***************************************************************************)
LEMMA VictimInRam ==
  ASSUME PagingTypeOK, CountTells, FreeFrames = {}
  PROVE  Valid(Victim)
<1>1. 0 \in Frames
  BY Sizes
<1>2. PICK pg \in Pages : Valid(pg)
  BY <1>1 DEF FreeFrames
<1>3. /\ Victim \in Pages /\ pageTable[Victim].count <= pageTable[pg].count
      /\ pageTable[pg].count < NeverUsed /\ pageTable[pg].count \in Nat
      /\ pageTable[Victim].count \in Nat
  BY <1>2, VictimIsLeastUsed, EntryType DEF CountTells
<1> QED BY <1>3, Sizes DEF CountTells

\* The frame a fault takes: only the replaced page had it, if any.
LEMMA FrameFound ==
  ASSUME PagingTypeOK, TableInv
  PROVE  /\ FrameTaken \in Frames
         /\ Replaced \subseteq {pg \in Pages : Valid(pg)}
         /\ \A pg \in Pages \ Replaced : Valid(pg) => pageTable[pg].framenumber # FrameTaken
<1>1. CASE FreeFrames = {}
  <2>1. Victim \in Pages /\ Valid(Victim)
    BY <1>1, VictimInRam, VictimIsLeastUsed DEF TableInv
  <2>2. Replaced = {Victim} /\ FrameTaken = pageTable[Victim].framenumber
    BY <1>1 DEF Replaced, FrameTaken
  <2> QED BY <2>1, <2>2, EntryType DEF TableInv, FramesDisjoint
<1>2. CASE FreeFrames # {}
  <2>1. FreeFrames \in SUBSET Nat
    BY Sizes DEF FreeFrames
  <2>2. PICK f \in FreeFrames : \A g \in FreeFrames : f <= g
    BY <1>2, <2>1, NatMin
  <2>3. Min(FreeFrames) \in FreeFrames
    BY <2>2 DEF Min
  <2>4. Replaced = {} /\ FrameTaken = Min(FreeFrames)
    BY <1>2 DEF Replaced, FrameTaken
  <2> QED BY <2>3, <2>4 DEF FreeFrames
<1> QED BY <1>1, <1>2

-----------------------------------------------------------------------------
(***************************************************************************)
(* Types and the page table through a fault.                               *)
(***************************************************************************)
LEMMA WrittenBackType ==
  ASSUME PagingTypeOK, NEW pgs
  PROVE  WrittenBack(pgs) \in [Addresses -> Words]
<1>1. \A a \in Addresses :
        /\ pageTable[a \div pagesize].framenumber \in Frames
        /\ InFrame(pageTable[a \div pagesize].framenumber, a) \in 0 .. numpages * pagesize - 1
  BY PageOfAddress, EntryType, WordInFrame
<1> QED BY <1>1 DEF WrittenBack, PagingTypeOK

LEMMA RamAfterFaultType ==
  ASSUME PagingTypeOK, NEW page \in Pages
  PROVE  RamAfterFault(page) \in [0 .. numpages * pagesize - 1 -> Words]
<1>1. DiskAfterFault \in [Addresses -> Words]
  BY WrittenBackType DEF DiskAfterFault
<1>2. \A w \in 0 .. numpages * pagesize - 1 : w \in Nat /\ Address(page, w) \in Addresses
  <2> TAKE w \in 0 .. numpages * pagesize - 1
  <2>1. numpages * pagesize \in Nat
    BY Sizes
  <2>2. w \in Nat
    BY <2>1
  <2> QED BY <2>2, WordOnDisk
<1>3. DOMAIN ram = 0 .. numpages * pagesize - 1
  BY DEF PagingTypeOK
<1> QED BY <1>1, <1>2, <1>3 DEF RamAfterFault, PagingTypeOK

\* A page in frame f, the rest of the table as it was.
LEMMA FaultTable ==
  ASSUME PagingTypeOK, TableInv, NEW page \in Pages, ~ Valid(page),
         pageTable' = TableAfterFault(page)
  PROVE  /\ pageTable' \in [Pages -> [v : {0, 1}, framenumber : Frames, count : 1 .. NeverUsed]]
         /\ FramesDisjoint' /\ CountTells'
         /\ pageTable'[page].v = 1 /\ pageTable'[page].framenumber = FrameTaken
         /\ \A pg \in Pages \ {page} :
              IF pg \in Replaced THEN pageTable'[pg].v = 0 ELSE pageTable'[pg] = pageTable[pg]
<1>1. pageTable \in [Pages -> [v : {0, 1}, framenumber : Frames, count : 1 .. NeverUsed]]
  BY DEF PagingTypeOK
<1>2. /\ FrameTaken \in Frames
      /\ \A pg \in Pages \ Replaced : Valid(pg) => pageTable[pg].framenumber # FrameTaken
  BY FrameFound
<1>3. pageTable' = [pg \in Pages |->
                     IF pg = page THEN [v |-> 1, framenumber |-> FrameTaken, count |-> 1]
                     ELSE IF pg \in Replaced
                       THEN [v |-> 0, framenumber |-> pageTable[pg].framenumber, count |-> NeverUsed]
                     ELSE pageTable[pg]]
  BY DEF TableAfterFault
<1>4. /\ pageTable'[page].v = 1 /\ pageTable'[page].framenumber = FrameTaken
      /\ pageTable'[page].count = 1
  BY <1>3
<1>5. \A pg \in Pages \ {page} :
        pg \in Replaced => pageTable'[pg].v = 0 /\ pageTable'[pg].count = NeverUsed
  BY <1>3
<1>6. \A pg \in Pages \ {page} : pg \notin Replaced => pageTable'[pg] = pageTable[pg]
  BY <1>3
<1>7. pageTable' \in [Pages -> [v : {0, 1}, framenumber : Frames, count : 1 .. NeverUsed]]
  BY <1>1, <1>2, <1>3, Sizes
<1>8. FramesDisjoint'
  BY <1>2, <1>4, <1>5, <1>6 DEF FramesDisjoint, TableInv, Valid
<1>9. CountTells'
  BY <1>4, <1>5, <1>6, Sizes DEF CountTells, TableInv, Valid
<1> QED BY <1>4, <1>5, <1>6, <1>7, <1>8, <1>9

LEMMA FaultInv ==
  ASSUME PagingInv, NEW p \in created, NEW i \in Offsets, ~ Valid(Page(p, i)),
         pageTable' = TableAfterFault(Page(p, i)), created' = created
  PROVE  TableInv'
<1>1. Page(p, i) \in Pages /\ p \in Procs
  BY OffsetOnDisk DEF PagingInv, PagingTypeOK
<1>2. /\ FramesDisjoint' /\ CountTells'
      /\ \A pg \in Pages \ {Page(p, i)} : pageTable'[pg].v = 1 => Valid(pg)
  BY <1>1, FaultTable DEF PagingInv, Valid
<1>3. \A r \in Procs, j \in Offsets : pageTable'[Page(r, j)].v = 1 => r \in created
  BY <1>1, <1>2, OwnWord, OffsetOnDisk DEF PagingInv, TableInv, CreatedInRam
<1> QED BY <1>2, <1>3 DEF TableInv, CreatedInRam, Valid

-----------------------------------------------------------------------------
(***************************************************************************)
(* What the programs see through a write back and through a fault.         *)
(***************************************************************************)
LEMMA SeenIsWord ==
  ASSUME PagingTypeOK, NEW p \in Procs, NEW i \in Offsets
  PROVE  Seen(p, i) \in Words
<1>1. /\ Base[p] + i \in Addresses /\ i \in Nat
      /\ pageTable[Page(p, i)].framenumber \in Frames
  BY OffsetOnDisk, EntryType
<1>2. InFrame(pageTable[Page(p, i)].framenumber, i) \in 0 .. numpages * pagesize - 1
  BY <1>1, WordInFrame
<1> QED BY <1>1, <1>2 DEF Seen, PagingTypeOK

LEMMA WrittenBackWord ==
  ASSUME Apart, NEW pgs, NEW p \in Procs, NEW i \in Offsets
  PROVE  WrittenBack(pgs)[Base[p] + i] =
           IF Page(p, i) \in pgs THEN ram[InFrame(pageTable[Page(p, i)].framenumber, i)]
           ELSE disk[Base[p] + i]
<1>1. Base[p] + i \in Addresses /\ (Base[p] + i) % pagesize = i % pagesize
  BY OffsetOnDisk, AlignedOffset
<1> QED BY <1>1 DEF WrittenBack, Page, InFrame

\* With the pages of RAM written back, the disk holds what the programs see.
LEMMA FlushedIsSeen ==
  ASSUME Apart, NEW p \in Procs, NEW i \in Offsets
  PROVE  Flushed[Base[p] + i] = Seen(p, i)
<1>1. Page(p, i) \in Pages
  BY OffsetOnDisk
<1> QED BY <1>1, WrittenBackWord DEF Flushed, Seen, Valid

LEMMA RamAfterFaultWord ==
  ASSUME PagingTypeOK, NEW page \in Pages, NEW f \in Frames, NEW i \in Nat
  PROVE  RamAfterFault(page)[InFrame(f, i)] =
           IF f = FrameTaken THEN DiskAfterFault[Address(page, i)] ELSE ram[InFrame(f, i)]
<1>1. /\ InFrame(f, i) \in DOMAIN ram
      /\ InFrame(f, i) \div pagesize = f /\ InFrame(f, i) % pagesize = i % pagesize
  BY WordInFrame DEF PagingTypeOK
<1>2. Address(page, InFrame(f, i)) = Address(page, i)
  BY <1>1 DEF Address
<1> QED BY <1>1, <1>2 DEF RamAfterFault

\* A fault moves pages, and no program sees it.
LEMMA FaultUnseen ==
  ASSUME PagingInv, NEW page \in Pages, ~ Valid(page), pageTable' = TableAfterFault(page),
         NEW p \in Procs, NEW i \in Offsets
  PROVE  Seen(p, i) =
           IF pageTable'[Page(p, i)].v = 1
           THEN RamAfterFault(page)[InFrame(pageTable'[Page(p, i)].framenumber, i)]
           ELSE DiskAfterFault[Base[p] + i]
<1> DEFINE pg == Page(p, i)
<1>1. /\ pg \in Pages /\ i \in Nat /\ page \notin Replaced
      /\ pageTable[pg].framenumber \in Frames /\ FrameTaken \in Frames
  BY OffsetOnDisk, EntryType, FrameFound DEF PagingInv
<1>2. DiskAfterFault[Base[p] + i] =
        IF pg \in Replaced THEN ram[InFrame(pageTable[pg].framenumber, i)] ELSE disk[Base[p] + i]
  BY WrittenBackWord DEF DiskAfterFault, PagingInv
<1>3. /\ pageTable'[page].v = 1 /\ pageTable'[page].framenumber = FrameTaken
      /\ pg # page =>
           IF pg \in Replaced THEN pageTable'[pg].v = 0 ELSE pageTable'[pg] = pageTable[pg]
  BY <1>1, FaultTable DEF PagingInv
<1>4. \A f \in Frames : RamAfterFault(page)[InFrame(f, i)] =
        IF f = FrameTaken THEN DiskAfterFault[Address(page, i)] ELSE ram[InFrame(f, i)]
  BY <1>1, RamAfterFaultWord DEF PagingInv
<1>5. CASE pg = page
  <2>1. Address(page, i) = Base[p] + i
    BY <1>5, AlignedOffset DEF PagingInv
  <2>2. RamAfterFault(page)[InFrame(FrameTaken, i)] = disk[Base[p] + i]
    BY <1>1, <1>2, <1>4, <1>5, <2>1
  <2> QED BY <1>3, <1>5, <2>2 DEF Seen, Valid
<1>6. CASE pg \in Replaced
  <2>1. Valid(pg)
    BY <1>6, FrameFound DEF PagingInv
  <2> QED BY <1>1, <1>2, <1>3, <1>6, <2>1 DEF Seen, Valid
<1>7. CASE pg # page /\ pg \notin Replaced /\ Valid(pg)
  <2>1. pageTable[pg].framenumber # FrameTaken
    BY <1>1, <1>7, FrameFound DEF PagingInv
  <2> QED BY <1>1, <1>3, <1>4, <1>7, <2>1 DEF Seen, Valid
<1>8. CASE pg # page /\ pg \notin Replaced /\ ~ Valid(pg)
  BY <1>2, <1>3, <1>8 DEF Seen, Valid
<1> QED BY <1>5, <1>6, <1>7, <1>8

-----------------------------------------------------------------------------
(***************************************************************************)
(* A write changes one word that the programs see.                         *)
(***************************************************************************)
Tables == [Pages -> [v : {0, 1}, framenumber : Frames, count : 1 .. NeverUsed]]

LEMMA OneWordInRam ==
  ASSUME Apart, NEW t \in Tables,
         \A pg, other \in Pages :
           t[pg].v = 1 /\ t[other].v = 1 /\ t[pg].framenumber = t[other].framenumber => pg = other,
         NEW p \in Procs, NEW i \in Offsets, t[Page(p, i)].v = 1,
         NEW q \in Procs, NEW j \in Offsets, t[Page(q, j)].v = 1,
         InFrame(t[Page(p, i)].framenumber, i) = InFrame(t[Page(q, j)].framenumber, j)
  PROVE  p = q /\ i = j
<1>1. /\ Page(p, i) \in Pages /\ Page(q, j) \in Pages /\ i \in Nat /\ j \in Nat
      /\ t[Page(p, i)].framenumber \in Frames /\ t[Page(q, j)].framenumber \in Frames
  BY OffsetOnDisk DEF Tables
<1>2. /\ t[Page(p, i)].framenumber = t[Page(q, j)].framenumber
      /\ i % pagesize = j % pagesize
  BY <1>1, WordInFrame
<1>3. Page(p, i) = Page(q, j)
  BY <1>1, <1>2
<1> QED BY <1>2, <1>3, SamePlace

LEMMA WriteSeen ==
  ASSUME PagingInv, NEW p \in created, NEW i \in Offsets, NEW x \in Words, WriteLogical(p, i, x),
         NEW q \in Procs, NEW j \in Offsets
  PROVE  Seen(q, j)' = IF q = p /\ j = i THEN x ELSE Seen(q, j)
<1>1. /\ p \in Procs /\ Page(p, i) \in Pages /\ Page(q, j) \in Pages /\ i \in Nat /\ j \in Nat
      /\ pageTable \in Tables /\ ram \in [0 .. numpages * pagesize - 1 -> Words]
  BY OffsetOnDisk DEF PagingInv, PagingTypeOK, Tables
<1>2. CASE WriteHit(p, i, x)
  <2> DEFINE w == InFrame(pageTable[Page(p, i)].framenumber, i)
  <2>1. w \in DOMAIN ram
    BY <1>1, WordInFrame, EntryType DEF PagingInv
  <2>2. /\ pageTable[Page(p, i)].v = 1 /\ pageTable' = pageTable /\ disk' = disk
        /\ ram' = [ram EXCEPT ![w] = x]
    BY <1>2 DEF WriteHit, Valid
  <2>3. CASE pageTable[Page(q, j)].v = 1 /\ ~ (q = p /\ j = i)
    <3>1. InFrame(pageTable[Page(q, j)].framenumber, j) # w
      BY <1>1, <2>2, <2>3, OneWordInRam DEF PagingInv, TableInv, FramesDisjoint, Valid
    <3> HIDE DEF w
    <3> QED BY <2>2, <2>3, <3>1 DEF Seen, PagingTypeOK
  <2>4. CASE q = p /\ j = i
    BY <2>1, <2>2, <2>4 DEF Seen
  <2>5. CASE pageTable[Page(q, j)].v # 1
    BY <2>2, <2>5 DEF Seen
  <2> QED BY <2>3, <2>4, <2>5
<1>3. CASE WriteFault(p, i, x)
  <2> DEFINE page == Page(p, i)
             w == InFrame(FrameTaken, i)
             before == RamAfterFault(page)
  <2>1. /\ ~ Valid(page) /\ pageTable' = TableAfterFault(page) /\ disk' = DiskAfterFault
        /\ ram' = [before EXCEPT ![w] = x]
    BY <1>3 DEF WriteFault, InsertPage
  <2>2. /\ pageTable' \in Tables /\ FramesDisjoint'
        /\ pageTable'[page].v = 1 /\ pageTable'[page].framenumber = FrameTaken
    BY <1>1, <2>1, FaultTable DEF PagingInv, Tables
  <2>3. FrameTaken \in Frames
    BY FrameFound DEF PagingInv
  <2>4. w \in DOMAIN before
    BY <1>1, <2>3, WordInFrame, RamAfterFaultType DEF PagingInv
  <2>5. Seen(q, j) = IF pageTable'[Page(q, j)].v = 1
                     THEN before[InFrame(pageTable'[Page(q, j)].framenumber, j)]
                     ELSE DiskAfterFault[Base[q] + j]
    BY <1>1, <2>1, FaultUnseen
  <2>6. CASE pageTable'[Page(q, j)].v = 1 /\ ~ (q = p /\ j = i)
    <3>1. \A pg, other \in Pages :
            pageTable'[pg].v = 1 /\ pageTable'[other].v = 1
              /\ pageTable'[pg].framenumber = pageTable'[other].framenumber => pg = other
      BY <2>2 DEF FramesDisjoint, Valid
    <3>2. InFrame(pageTable'[Page(q, j)].framenumber, j) # w
      BY <1>1, <2>2, <2>6, <3>1, OneWordInRam DEF PagingInv
    <3> HIDE DEF w, before
    <3>3. ram'[InFrame(pageTable'[Page(q, j)].framenumber, j)]
            = before[InFrame(pageTable'[Page(q, j)].framenumber, j)]
      BY <2>1, <3>2
    <3> QED BY <2>5, <2>6, <3>3 DEF Seen
  <2>7. CASE q = p /\ j = i
    BY <2>1, <2>2, <2>4, <2>7 DEF Seen
  <2>8. CASE pageTable'[Page(q, j)].v # 1 /\ ~ (q = p /\ j = i)
    BY <2>1, <2>5, <2>8 DEF Seen
  <2> QED BY <2>6, <2>7, <2>8
<1> QED BY <1>2, <1>3 DEF WriteLogical

LEMMA ReadUnseen ==
  ASSUME PagingInv, NEW p \in created, NEW i \in Offsets, ReadLogical(p, i),
         NEW q \in Procs, NEW j \in Offsets
  PROVE  Seen(q, j)' = Seen(q, j) /\ got' = Value[Seen(p, i)]
<1>1. p \in Procs /\ Page(p, i) \in Pages /\ Page(q, j) \in Pages
  BY OffsetOnDisk DEF PagingInv, PagingTypeOK
<1>2. CASE ReadHit(p, i)
  <2>1. /\ pageTable \in Tables /\ pageTable[Page(p, i)].v = 1
        /\ pageTable' = [pageTable EXCEPT ![Page(p, i)].count = @ + 1]
        /\ UNCHANGED <<disk, ram>>
        /\ got' = Value[ram[InFrame(pageTable[Page(p, i)].framenumber, i)]]
    BY <1>2 DEF ReadHit, Valid, PagingInv, PagingTypeOK, Tables
  <2>2. \A pg \in Pages : /\ pageTable'[pg].v = pageTable[pg].v
                          /\ pageTable'[pg].framenumber = pageTable[pg].framenumber
    BY <1>1, <2>1 DEF Tables
  <2> QED BY <1>1, <2>1, <2>2 DEF Seen
<1>3. CASE ReadFault(p, i)
  <2>1. /\ ~ Valid(Page(p, i)) /\ pageTable' = TableAfterFault(Page(p, i))
        /\ disk' = DiskAfterFault /\ ram' = RamAfterFault(Page(p, i))
        /\ got' = Value[disk[i + (Base[p] % BYTE)]]
    BY <1>3 DEF ReadFault, InsertPage
  <2>2. Seen(q, j)' = Seen(q, j)
    BY <1>1, <2>1, FaultUnseen DEF Seen
  <2>3. i + (Base[p] % BYTE) = Base[p] + i
    BY <1>1, AlignedOffset, OffsetOnDisk DEF PagingInv
  <2> QED BY <2>1, <2>2, <2>3 DEF Seen, Valid
<1> QED BY <1>2, <1>3 DEF ReadLogical

(***************************************************************************)
(* Fork: the clone sees the words of the caller, and none of its own pages *)
(* were in RAM before.                                                     *)
(***************************************************************************)
LEMMA ForkSeen ==
  ASSUME PagingInv, NEW p \in created, NEW c \in Procs, Fork(p, c),
         NEW q \in Procs, NEW j \in Offsets
  PROVE  Seen(q, j)' = IF q = c THEN Seen(p, j) ELSE Seen(q, j)
<1>1. /\ p \in Procs /\ Page(q, j) \in Pages /\ Base[q] + j \in Addresses
      /\ Base[q] \in Nat /\ Base[c] \in Nat /\ Base[p] \in Nat /\ j \in Nat
  BY OffsetOnDisk, Sizes DEF PagingInv, PagingTypeOK
<1>2. /\ UNCHANGED <<ram, pageTable>>
      /\ disk' = [a \in Addresses |->
                    IF a - Base[c] \in Offsets THEN Flushed[Base[p] + a - Base[c]] ELSE Flushed[a]]
  BY DEF Fork
<1>3. Flushed[Base[q] + j] = Seen(q, j) /\ Flushed[Base[p] + j] = Seen(p, j)
  BY <1>1, FlushedIsSeen DEF PagingInv
<1>4. CASE q = c
  <2>1. c \notin created
    BY NewcomerIsNew DEF Fork, PagingInv
  <2>2. ~ Valid(Page(q, j))
    BY <1>4, <2>1 DEF PagingInv, TableInv, CreatedInRam
  <2>3. Base[q] + j - Base[c] = j /\ Base[p] + (Base[q] + j) - Base[c] = Base[p] + j
    BY <1>1, <1>4
  <2>4. disk'[Base[q] + j] = Flushed[Base[p] + j]
    BY <1>1, <1>2, <2>3
  <2> QED BY <1>2, <1>3, <1>4, <2>2, <2>4 DEF Seen, Valid
<1>5. CASE q # c
  <2>1. ASSUME Base[q] + j - Base[c] \in Offsets PROVE FALSE
    <3>1. Base[q] + j = Base[c] + (Base[q] + j - Base[c])
      BY <1>1
    <3> QED BY <1>5, <2>1, <3>1, OwnWord DEF PagingInv
  <2>2. disk'[Base[q] + j] = Flushed[Base[q] + j]
    BY <1>1, <1>2, <2>1
  <2> QED BY <1>2, <1>3, <1>5, <2>2 DEF Seen
<1> QED BY <1>4, <1>5

(***************************************************************************)
(* Words put on the disk over a block none of whose pages is in RAM: the   *)
(* data of GD, and a block RC copies.                                      *)
(***************************************************************************)
BlockOnDisk(p, a, words) ==
  /\ UNCHANGED <<ram, pageTable, created, got>>
  /\ disk' \in [Addresses -> Words]
  /\ \A k \in Addresses :
       disk'[k] = IF k - Base[p] \in BlockAt(a) THEN words[k - Base[p]] ELSE disk[k]

LEMMA BlockOffsets ==
  ASSUME NEW a \in 0 .. Length - Block
  PROVE  BlockAt(a) \subseteq Offsets /\ BlockAt(a) \subseteq Nat /\ a \in Nat
  BY Sizes DEF BlockAt, Offsets

LEMMA BlockSeen ==
  ASSUME PagingInv, NEW p \in created, NEW a \in 0 .. Length - Block, OnDisk(p, a),
         NEW words, BlockOnDisk(p, a, words), NEW q \in Procs, NEW j \in Offsets
  PROVE  Seen(q, j)' = IF q = p /\ j \in BlockAt(a) THEN words[j] ELSE Seen(q, j)
<1>1. /\ p \in Procs /\ Base[q] + j \in Addresses /\ Base[q] \in Nat /\ Base[p] \in Nat /\ j \in Nat
  BY OffsetOnDisk, Sizes DEF PagingInv, PagingTypeOK
<1>2. CASE q = p /\ j \in BlockAt(a)
  <2>1. Base[q] + j - Base[p] = j
    BY <1>1, <1>2
  <2>2. ~ Valid(Page(q, j))
    BY <1>2 DEF OnDisk
  <2> QED BY <1>1, <1>2, <2>1, <2>2 DEF BlockOnDisk, Seen, Valid
<1>3. CASE ~ (q = p /\ j \in BlockAt(a))
  <2>1. ASSUME Base[q] + j - Base[p] \in BlockAt(a) PROVE FALSE
    <3>1. Base[q] + j = Base[p] + (Base[q] + j - Base[p])
      BY <1>1
    <3>2. q = p /\ j = Base[q] + j - Base[p]
      BY <1>1, <2>1, <3>1, OwnWord, BlockOffsets DEF PagingInv
    <3> QED BY <1>3, <2>1, <3>2
  <2>2. disk'[Base[q] + j] = disk[Base[q] + j]
    BY <1>1, <2>1 DEF BlockOnDisk
  <2> QED BY <1>3, <2>2 DEF BlockOnDisk, Seen
<1> QED BY <1>2, <1>3

LEMMA GetDataOnDisk ==
  ASSUME PagingInv, NEW p \in created, NEW a \in 0 .. Length - Block, GetData(p, a)
  PROVE  \E words \in [BlockAt(a) -> Words] : BlockOnDisk(p, a, words)
<1>1. p \in Procs /\ Base[p] % BYTE = Base[p]
  <2>1. p \in Procs /\ 0 \in Offsets
    BY Sizes DEF PagingInv, PagingTypeOK, Offsets
  <2> QED BY <2>1, AlignedOffset DEF PagingInv
<1>2. PICK words \in [BlockAt(a) -> Words] :
        disk' = [k \in Addresses |->
                  IF k - Base[p] \in BlockAt(a) THEN words[k - Base[p]] ELSE disk[k]]
  BY <1>1 DEF GetData
<1>3. disk' \in [Addresses -> Words]
  BY <1>2 DEF PagingInv, PagingTypeOK
<1> QED BY <1>2, <1>3 DEF GetData, BlockOnDisk

\* The words of s in the order of their offsets: no block on pages of its own repeats.
LEMMA ReceiveOnDisk ==
  ASSUME PagingInv, NEW p \in created, NEW s \in created, NEW a \in 0 .. Length - Block,
         OnDisk(s, a), Receive(p, s, a)
  PROVE  BlockOnDisk(p, a, memory[s])
<1>1. /\ p \in Procs /\ s \in Procs /\ Base[p] \in Nat /\ Base[s] \in Nat
      /\ Base[p] % BYTE = Base[p] /\ Base[s] % BYTE = Base[s]
  <2>1. p \in Procs /\ s \in Procs /\ 0 \in Offsets
    BY Sizes DEF PagingInv, PagingTypeOK, Offsets
  <2> QED BY <2>1, AlignedOffset, OffsetOnDisk DEF PagingInv
<1>2. /\ UNCHANGED <<ram, pageTable, created, got>>
      /\ disk' = [k \in Addresses |->
           IF k - Base[p] \notin BlockAt(a) THEN disk[k]
           ELSE IF Base[s] < Base[p]
                THEN disk[Base[s] + a + ((k - Base[p] - a) % (Base[p] - Base[s]))]
                ELSE disk[k - Base[p] + Base[s]]]
  BY <1>1 DEF Receive, CopyDisk, Copied
<1>3. ASSUME NEW k \in Addresses, k - Base[p] \in BlockAt(a)
      PROVE  disk'[k] = memory[s][k - Base[p]] /\ disk'[k] \in Words
  <2> DEFINE i == k - Base[p]
  <2>1. i \in Offsets /\ i \in Nat /\ a \in Nat /\ a <= i /\ k \in Nat
    BY <1>3, BlockOffsets, PageOfAddress DEF BlockAt
  <2>2. Base[s] + i \in Addresses /\ memory[s][i] = disk[Base[s] + i]
    BY <1>1, <1>3, <2>1, OffsetOnDisk DEF memory, Seen, OnDisk, Valid
  <2>3. CASE Base[s] < Base[p]
    <3> DEFINE d == Base[p] - Base[s]
    <3>1. d \in Nat \ {0}
      BY <1>1, <2>3
    <3>2. ASSUME d <= i - a PROVE FALSE
      <4>1. i - d \in Offsets /\ Base[p] + (i - d) = Base[s] + i
        BY <1>1, <2>1, <3>1, <3>2, Sizes DEF Offsets
      <4> QED BY <1>1, <2>1, <2>3, <4>1, OwnWord DEF PagingInv
    <3>3. (i - a) % d = i - a
      BY <2>1, <3>1, <3>2
    <3>4. Base[s] + a + (i - a) = Base[s] + i
      BY <1>1, <2>1
    <3>5. disk'[k] = disk[Base[s] + a + ((i - a) % d)]
      BY <1>2, <1>3, <2>3
    <3> QED BY <2>2, <3>3, <3>4, <3>5 DEF PagingInv, PagingTypeOK
  <2>4. CASE ~ (Base[s] < Base[p])
    <3>1. disk'[k] = disk[i + Base[s]] /\ i + Base[s] = Base[s] + i
      BY <1>1, <1>2, <1>3, <2>1, <2>4
    <3> QED BY <2>2, <3>1 DEF PagingInv, PagingTypeOK
  <2> QED BY <2>3, <2>4
<1>4. \A k \in Addresses : k - Base[p] \notin BlockAt(a) => disk'[k] = disk[k] /\ disk[k] \in Words
  BY <1>2 DEF PagingInv, PagingTypeOK
<1>5. disk' \in [Addresses -> Words]
  BY <1>2, <1>3, <1>4
<1> QED BY <1>2, <1>3, <1>4, <1>5 DEF BlockOnDisk

-----------------------------------------------------------------------------
(***************************************************************************)
(* The invariant is inductive under CarefulSpec.                           *)
(***************************************************************************)
LEMMA InitPaging == Init /\ Apart => PagingInv
<1> SUFFICES ASSUME Init, Apart PROVE PagingInv
  OBVIOUS
<1>1. PICK program \in [Offsets -> Words] :
        disk = [a \in Addresses |-> IF a \in Offsets THEN program[a] ELSE Unread]
  BY DEF Init
<1>2. Unread \in Words
  <2>1. 0 \in Offsets
    BY Sizes DEF Offsets
  <2> QED BY <1>1, <2>1 DEF Unread
<1>3. PagingTypeOK
  BY <1>1, <1>2, Sizes DEF Init, PagingTypeOK
<1>4. \A pg \in Pages : ~ Valid(pg) /\ pageTable[pg].count = NeverUsed
  BY DEF Init, Valid
<1>5. TableInv
  BY <1>4, OffsetOnDisk DEF TableInv, FramesDisjoint, CountTells, CreatedInRam
<1>6. CreatedInOrder
  <2>1. 1 \in Nat \ {0} /\ created = 0 .. 1 - 1
    BY DEF Init
  <2> QED BY <2>1 DEF CreatedInOrder
<1> QED BY <1>3, <1>5, <1>6 DEF PagingInv

LEMMA ReadPaging ==
  ASSUME PagingInv, NEW p \in created, NEW i \in Offsets, ReadLogical(p, i)
  PROVE  PagingInv'
<1>1. p \in Procs /\ Page(p, i) \in Pages
  BY OffsetOnDisk DEF PagingInv, PagingTypeOK
<1>2. CASE ReadHit(p, i)
  <2> DEFINE page == Page(p, i)
  <2>1. /\ pageTable \in Tables /\ page \in Pages /\ pageTable[page].v = 1
        /\ pageTable' = [pageTable EXCEPT ![page].count = @ + 1]
        /\ pageTable[page].count \in Nat /\ pageTable[page].count + 1 < NeverUsed
        /\ UNCHANGED <<disk, ram, created>>
    BY <1>1, <1>2, EntryType DEF ReadHit, Valid, PagingInv, PagingTypeOK, Tables
  <2> HIDE DEF page
  <2>2. \A pg \in Pages : /\ pageTable'[pg].v = pageTable[pg].v
                          /\ pageTable'[pg].framenumber = pageTable[pg].framenumber
                          /\ pg # page => pageTable'[pg].count = pageTable[pg].count
    BY <2>1 DEF Tables
  <2>3. pageTable'[page].count = pageTable[page].count + 1
    BY <2>1 DEF Tables
  <2>4. pageTable' \in Tables
    BY <2>1, Sizes DEF Tables
  <2>5. PagingTypeOK'
    BY <2>1, <2>4 DEF PagingInv, PagingTypeOK, Tables
  <2>6. FramesDisjoint' /\ CreatedInRam'
    BY <2>1, <2>2, OffsetOnDisk DEF PagingInv, TableInv, FramesDisjoint, CreatedInRam, Valid
  <2>7. CountTells'
    BY <2>1, <2>2, <2>3 DEF PagingInv, TableInv, CountTells, Valid
  <2> QED BY <2>1, <2>5, <2>6, <2>7 DEF PagingInv, TableInv, CreatedInOrder
<1>3. CASE ReadFault(p, i)
  <2>1. /\ ~ Valid(Page(p, i)) /\ pageTable' = TableAfterFault(Page(p, i)) /\ created' = created
        /\ disk' = DiskAfterFault /\ ram' = RamAfterFault(Page(p, i))
    BY <1>3 DEF ReadFault, InsertPage
  <2>2. TableInv'
    BY <2>1, FaultInv
  <2>3. PagingTypeOK'
    BY <1>1, <2>1, FaultTable, RamAfterFaultType, WrittenBackType
       DEF DiskAfterFault, PagingInv, PagingTypeOK
  <2> QED BY <2>1, <2>2, <2>3 DEF PagingInv, CreatedInOrder
<1> QED BY <1>2, <1>3 DEF ReadLogical

LEMMA WritePaging ==
  ASSUME PagingInv, NEW p \in created, NEW i \in Offsets, NEW x \in Words, WriteLogical(p, i, x)
  PROVE  PagingInv'
<1>1. p \in Procs /\ Page(p, i) \in Pages
  BY OffsetOnDisk DEF PagingInv, PagingTypeOK
<1>2. CASE WriteHit(p, i, x)
  <2>1. UNCHANGED <<disk, pageTable, created>> /\ ram' \in [0 .. numpages * pagesize - 1 -> Words]
    BY <1>2 DEF WriteHit, PagingInv, PagingTypeOK
  <2> QED BY <2>1 DEF PagingInv, PagingTypeOK, TableInv, FramesDisjoint, CountTells, CreatedInRam,
                      CreatedInOrder, Valid
<1>3. CASE WriteFault(p, i, x)
  <2>1. /\ ~ Valid(Page(p, i)) /\ pageTable' = TableAfterFault(Page(p, i)) /\ created' = created
        /\ disk' = DiskAfterFault
        /\ ram' = [RamAfterFault(Page(p, i)) EXCEPT ![InFrame(FrameTaken, i)] = x]
    BY <1>3 DEF WriteFault, InsertPage
  <2>2. TableInv'
    BY <2>1, FaultInv
  <2>3. RamAfterFault(Page(p, i)) \in [0 .. numpages * pagesize - 1 -> Words]
    BY <1>1, RamAfterFaultType DEF PagingInv
  <2>4. PagingTypeOK'
    BY <1>1, <2>1, <2>3, FaultTable, WrittenBackType DEF DiskAfterFault, PagingInv, PagingTypeOK
  <2> QED BY <2>1, <2>2, <2>4 DEF PagingInv, CreatedInOrder
<1> QED BY <1>2, <1>3 DEF WriteLogical

LEMMA ForkPaging ==
  ASSUME PagingInv, NEW p \in created, NEW c \in Procs, Fork(p, c)
  PROVE  PagingInv'
<1>1. UNCHANGED <<ram, pageTable>> /\ created' = created \cup {c} /\ c = Cardinality(created)
  BY DEF Fork
<1>2. \A a \in Addresses : a - Base[c] \in Offsets => Base[p] + a - Base[c] \in Addresses
  <2> TAKE a \in Addresses
  <2> HAVE a - Base[c] \in Offsets
  <2>1. p \in Procs /\ Base[p] \in Nat /\ Base[c] \in Nat /\ a \in Nat
    BY Sizes, PageOfAddress DEF PagingInv, PagingTypeOK
  <2>2. Base[p] + (a - Base[c]) \in Addresses
    BY <2>1, OffsetOnDisk
  <2> QED BY <2>1, <2>2
<1>3. disk' \in [Addresses -> Words]
  BY <1>2, WrittenBackType DEF Fork, Flushed, PagingInv
<1>4. PagingTypeOK'
  BY <1>1, <1>3 DEF PagingInv, PagingTypeOK
<1>5. TableInv'
  BY <1>1 DEF PagingInv, TableInv, FramesDisjoint, CountTells, CreatedInRam, Valid
<1>6. CreatedInOrder'
  <2>1. c + 1 \in Nat \ {0} /\ created' = 0 .. (c + 1) - 1
    BY <1>1, NewcomerIsNew DEF PagingInv
  <2> QED BY <2>1 DEF CreatedInOrder
<1> QED BY <1>4, <1>5, <1>6 DEF PagingInv

LEMMA BlockPaging ==
  ASSUME PagingInv, NEW p, NEW a, NEW words, BlockOnDisk(p, a, words)
  PROVE  PagingInv'
  BY DEF BlockOnDisk, PagingInv, PagingTypeOK, TableInv, FramesDisjoint, CountTells, CreatedInRam,
         CreatedInOrder, Valid

LEMMA NextPaging == PagingInv /\ [CarefulNext]_pagingVars => PagingInv'
<1> SUFFICES ASSUME PagingInv, [CarefulNext]_pagingVars PROVE PagingInv'
  OBVIOUS
<1>1. CASE UNCHANGED pagingVars
  BY <1>1 DEF pagingVars, PagingInv, PagingTypeOK, TableInv, FramesDisjoint, CountTells,
              CreatedInRam, CreatedInOrder, Valid
<1>2. ASSUME NEW p \in created, Access(p) PROVE PagingInv'
  BY <1>2, ReadPaging, WritePaging DEF Access
<1>3. ASSUME NEW p \in created, NEW c \in Procs, Fork(p, c) PROVE PagingInv'
  BY <1>3, ForkPaging
<1>4. ASSUME NEW p \in created, NEW a \in 0 .. Length - Block, GetData(p, a) PROVE PagingInv'
  BY <1>4, GetDataOnDisk, BlockPaging
<1>5. ASSUME NEW p \in created, NEW s \in created, NEW a \in 0 .. Length - Block,
             OnDisk(s, a), Receive(p, s, a)
      PROVE  PagingInv'
  BY <1>5, ReceiveOnDisk, BlockPaging
<1> QED BY <1>1, <1>2, <1>3, <1>4, <1>5 DEF CarefulNext

-----------------------------------------------------------------------------
(***************************************************************************)
(* A page in RAM is in a frame that exists, and the words of RAM and disk  *)
(* are words.                                                              *)
(***************************************************************************)
THEOREM PagingTyped == CarefulSpec => []PagingTypeOK
<1>1. PagingInv => PagingTypeOK
  BY DEF PagingInv
<1> QED BY InitPaging, NextPaging, <1>1, PTL DEF CarefulSpec

(***************************************************************************)
(* InsertPage never gives a frame to two pages.                            *)
(***************************************************************************)
THEOREM FramesStayDisjoint == CarefulSpec => []FramesDisjoint
<1>1. PagingInv => FramesDisjoint
  BY DEF PagingInv, TableInv
<1> QED BY InitPaging, NextPaging, <1>1, PTL DEF CarefulSpec

(***************************************************************************)
(* The page that leaves a full RAM is in it.                               *)
(***************************************************************************)
THEOREM AlwaysKicksOneOut == CarefulSpec => []KicksOneOut
<1>1. PagingInv => KicksOneOut
  BY VictimInRam DEF PagingInv, TableInv, KicksOneOut
<1> QED BY InitPaging, NextPaging, <1>1, PTL DEF CarefulSpec

-----------------------------------------------------------------------------
(***************************************************************************)
(* Every step of the paging is a step of FlatMemory.                       *)
(***************************************************************************)
LEMMA FlatBecomes ==
  ASSUME PagingTypeOK, NEW p \in Procs, NEW words, \A i \in Offsets : words[i] \in Words,
         \A q \in Procs, i \in Offsets : Seen(q, i)' = IF q = p THEN words[i] ELSE Seen(q, i)
  PROVE  Flat!Becomes(p, words)
<1>1. memory' = [q \in Procs |-> [i \in Offsets |-> Seen(q, i)']]
  BY DEF memory
<1>2. \A q \in Procs, i \in Offsets : Seen(q, i)' \in Words
  BY SeenIsWord
<1>3. memory' \in [Procs -> [Offsets -> Words]]
  BY <1>1, <1>2
<1>4. \A q \in Procs, i \in Offsets : memory'[q][i] = IF q = p THEN words[i] ELSE memory[q][i]
  BY <1>1 DEF memory
<1> QED BY <1>3, <1>4 DEF Flat!Becomes, Flat!Offsets, Offsets

LEMMA ReadIsFlat ==
  ASSUME PagingInv, NEW p \in created, NEW i \in Offsets, ReadLogical(p, i)
  PROVE  Flat!Read(p, i)
<1>1. p \in Procs /\ PagingTypeOK
  BY DEF PagingInv, PagingTypeOK
<1>2. \A j \in Offsets : memory[p][j] = Seen(p, j) /\ memory[p][j] \in Words
  BY <1>1, SeenIsWord DEF memory
<1>3. \A q \in Procs, j \in Offsets : Seen(q, j)' = IF q = p THEN memory[p][j] ELSE Seen(q, j)
  BY <1>2, ReadUnseen
<1>4. Flat!Becomes(p, memory[p])
  BY <1>1, <1>2, <1>3, FlatBecomes
<1>5. created' = created /\ got' = Value[Seen(p, i)]
  BY <1>1, ReadUnseen DEF ReadLogical, ReadHit, ReadFault
<1> QED BY <1>2, <1>4, <1>5 DEF Flat!Read

LEMMA WriteIsFlat ==
  ASSUME PagingInv, NEW p \in created, NEW i \in Offsets, NEW x \in Words, WriteLogical(p, i, x)
  PROVE  Flat!Write(p, i, x)
<1> DEFINE words == [memory[p] EXCEPT ![i] = x]
<1>1. p \in Procs /\ PagingTypeOK
  BY DEF PagingInv, PagingTypeOK
<1>2. memory[p] \in [Offsets -> Words] /\ \A j \in Offsets : memory[p][j] = Seen(p, j)
  BY <1>1, SeenIsWord DEF memory
<1>3. \A j \in Offsets : words[j] = (IF j = i THEN x ELSE Seen(p, j)) /\ words[j] \in Words
  BY <1>2
<1> HIDE DEF words
<1>4. \A q \in Procs, j \in Offsets : Seen(q, j)' = IF q = p THEN words[j] ELSE Seen(q, j)
  BY <1>3, WriteSeen
<1>5. Flat!Becomes(p, words)
  BY <1>1, <1>3, <1>4, FlatBecomes
<1>6. UNCHANGED <<created, got>>
  BY DEF WriteLogical, WriteHit, WriteFault
<1> QED BY <1>5, <1>6 DEF Flat!Write, words

LEMMA ForkIsFlat ==
  ASSUME PagingInv, NEW p \in created, NEW c \in Procs, Fork(p, c)
  PROVE  Flat!Fork(p, c)
<1>1. p \in Procs /\ PagingTypeOK
  BY DEF PagingInv, PagingTypeOK
<1>2. \A j \in Offsets : memory[p][j] = Seen(p, j) /\ memory[p][j] \in Words
  BY <1>1, SeenIsWord DEF memory
<1>3. \A q \in Procs, j \in Offsets : Seen(q, j)' = IF q = c THEN memory[p][j] ELSE Seen(q, j)
  BY <1>2, ForkSeen
<1>4. Flat!Becomes(c, memory[p])
  BY <1>1, <1>2, <1>3, FlatBecomes
<1>5. c \notin created /\ created' = created \cup {c} /\ got' = got
  BY NewcomerIsNew DEF Fork, PagingInv
<1> QED BY <1>4, <1>5 DEF Flat!Fork

LEMMA BlockIsFlat ==
  ASSUME PagingInv, NEW p \in created, NEW a \in 0 .. Length - Block, OnDisk(p, a),
         NEW words, \A i \in BlockAt(a) : words[i] \in Words, BlockOnDisk(p, a, words)
  PROVE  Flat!Overlay(p, a, words) /\ UNCHANGED <<created, got>>
<1> DEFINE laid == [i \in Offsets |-> IF i \in BlockAt(a) THEN words[i] ELSE memory[p][i]]
<1>1. p \in Procs /\ PagingTypeOK
  BY DEF PagingInv, PagingTypeOK
<1>2. \A j \in Offsets : memory[p][j] = Seen(p, j) /\ memory[p][j] \in Words
  BY <1>1, SeenIsWord DEF memory
<1>3. \A j \in Offsets : /\ laid[j] = IF j \in BlockAt(a) THEN words[j] ELSE Seen(p, j)
                         /\ laid[j] \in Words
  BY <1>2
<1>4. laid = [i \in Flat!Offsets |-> IF i \in Flat!BlockAt(a) THEN words[i] ELSE memory[p][i]]
  BY DEF Flat!Offsets, Offsets, Flat!BlockAt, BlockAt
<1> HIDE DEF laid
<1>5. \A q \in Procs, j \in Offsets : Seen(q, j)' = IF q = p THEN laid[j] ELSE Seen(q, j)
  BY <1>3, BlockSeen
<1>6. Flat!Becomes(p, laid)
  BY <1>1, <1>3, <1>5, FlatBecomes
<1> QED BY <1>4, <1>6 DEF Flat!Overlay, BlockOnDisk

LEMMA GetDataIsFlat ==
  ASSUME PagingInv, NEW p \in created, NEW a \in 0 .. Length - Block, OnDisk(p, a), GetData(p, a)
  PROVE  Flat!GetData(p, a)
<1>1. PICK words \in [BlockAt(a) -> Words] : BlockOnDisk(p, a, words)
  BY GetDataOnDisk
<1>2. Flat!Overlay(p, a, words) /\ UNCHANGED <<created, got>>
  BY <1>1, BlockIsFlat
<1>3. words \in [Flat!BlockAt(a) -> Words]
  BY DEF Flat!BlockAt, BlockAt
<1> QED BY <1>2, <1>3 DEF Flat!GetData

LEMMA ReceiveIsFlat ==
  ASSUME PagingInv, NEW p \in created, NEW s \in created, NEW a \in 0 .. Length - Block,
         OnDisk(p, a), OnDisk(s, a), Receive(p, s, a)
  PROVE  Flat!Receive(p, s, a)
<1>1. BlockOnDisk(p, a, memory[s])
  BY ReceiveOnDisk
<1>2. \A i \in BlockAt(a) : memory[s][i] \in Words
  BY SeenIsWord, BlockOffsets DEF memory, PagingInv, PagingTypeOK
<1>3. Flat!Overlay(p, a, memory[s]) /\ UNCHANGED <<created, got>>
  BY <1>1, <1>2, BlockIsFlat
<1> QED BY <1>3 DEF Flat!Receive

LEMMA InitIsFlat == Init /\ PagingInv => Flat!Init
<1> SUFFICES ASSUME Init, PagingInv PROVE Flat!Init
  OBVIOUS
<1>1. memory \in [Procs -> [Offsets -> Words]]
  BY SeenIsWord DEF memory, PagingInv
<1>2. 0 \in Procs /\ created = {0} /\ got \in {Value[x] : x \in Words}
  BY Sizes DEF Init
<1> QED BY <1>1, <1>2 DEF Flat!Init, Flat!Offsets, Offsets

LEMMA NextIsFlat ==
  PagingInv /\ [CarefulNext]_pagingVars => [Flat!Next]_<<memory, created, got>>
<1> SUFFICES ASSUME PagingInv, [CarefulNext]_pagingVars
             PROVE  [Flat!Next]_<<memory, created, got>>
  OBVIOUS
<1>1. CASE UNCHANGED pagingVars
  BY <1>1 DEF pagingVars, memory, Seen
<1>2. ASSUME NEW p \in created, NEW i \in Offsets, ReadLogical(p, i) PROVE Flat!Next
  BY <1>2, ReadIsFlat DEF Flat!Next, Flat!Offsets, Offsets
<1>3. ASSUME NEW p \in created, NEW i \in Offsets, NEW x \in Words, WriteLogical(p, i, x)
      PROVE  Flat!Next
  BY <1>3, WriteIsFlat DEF Flat!Next, Flat!Offsets, Offsets
<1>4. ASSUME NEW p \in created, NEW c \in Procs, Fork(p, c) PROVE Flat!Next
  BY <1>4, ForkIsFlat DEF Flat!Next
<1>5. ASSUME NEW p \in created, NEW a \in 0 .. Length - Block, OnDisk(p, a), GetData(p, a)
      PROVE  Flat!Next
  BY <1>5, GetDataIsFlat DEF Flat!Next
<1>6. ASSUME NEW p \in created, NEW s \in created, NEW a \in 0 .. Length - Block,
             OnDisk(p, a), OnDisk(s, a), Receive(p, s, a)
      PROVE  Flat!Next
  BY <1>6, ReceiveIsFlat DEF Flat!Next
<1> QED BY <1>1, <1>2, <1>3, <1>4, <1>5, <1>6 DEF CarefulNext, Access

(***************************************************************************)
(* The paging is a flat memory: a read gives the last word written, by     *)
(* whatever way the word went to the disk and back in between.             *)
(***************************************************************************)
THEOREM PagingIsMemory == CarefulSpec => ImplementsFlatMemory
<1>1. Init /\ Apart => PagingInv /\ Flat!Init
  BY InitPaging, InitIsFlat
<1> QED BY <1>1, NextPaging, NextIsFlat, PTL DEF CarefulSpec, ImplementsFlatMemory, Flat!Spec
=============================================================================
