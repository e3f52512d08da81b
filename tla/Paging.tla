------------------------------- MODULE Paging -------------------------------
(***************************************************************************)
(* The virtual memory of the BRAIN machine (RAM.c) with the code that goes *)
(* to the disk behind it: GD and the block copy of RC (Disk.c), and the    *)
(* copying of Fork (Exec_Brain.c).  A page of the disk is read and written *)
(* through a frame of RAM; a fault with every frame taken replaces the     *)
(* page with the smallest count.                                           *)
(*                                                                         *)
(* Nothing checks an offset against LR: programs are taken to stay within  *)
(* their length, and the base of every process is a constant.              *)
(***************************************************************************)
EXTENDS Integers, FiniteSets, FiniteSetsExt

CONSTANTS
  numpages,    \* frames in RAM
  pagesize,    \* words in a page
  MEMORY,      \* words on the disk (10000)
  Procs,
  Base,        \* BR of each process
  Length,      \* LR, which Fork copies
  Block,       \* words that GD reads and RC copies (10)
  BYTE,        \* what a u_int8_t holds (256)
  NeverUsed,   \* the count of a page that never was in RAM (0xFFFFFFFF)
  Words,
  Value        \* what ReadRAM and ReadDisk turn a word into

ASSUME PagingAssumption ==
  /\ {numpages, pagesize, MEMORY, Length, Block, BYTE, NeverUsed} \subseteq Nat \ {0}
  /\ NeverUsed > 1
  /\ IsFiniteSet(Procs) /\ Procs = 0 .. Cardinality(Procs) - 1 /\ 0 \in Procs
  /\ Base \in [Procs -> Nat] /\ Base[0] = 0
  /\ \A p \in Procs : Base[p] + Length <= MEMORY
  /\ Block <= Length

VARIABLES
  disk,         \* Memory_Start
  ram,          \* RAM_Start
  pageTable,    \* PageTable
  created,      \* the processes that exist
  got           \* what the last ReadLogical returned

pagingVars == <<disk, ram, pageTable, created, got>>

Size_PT == MEMORY \div pagesize + 1
Pages == 0 .. Size_PT - 1
Frames == 0 .. numpages - 1
Addresses == 0 .. Size_PT * pagesize - 1
Offsets == 0 .. Length - 1

Page(p, i) == (Base[p] + i) \div pagesize
Valid(pg) == pageTable[pg].v = 1

\* The word of frame f that belongs to offset i: i%pagesize, without the base.
InFrame(f, i) == f * pagesize + (i % pagesize)
Address(pg, i) == pg * pagesize + (i % pagesize)

(***************************************************************************)
(* RemoveLeastUsedPage: the first page with the smallest count, in RAM or  *)
(* not, is written back and made invalid.                                  *)
(***************************************************************************)
Victim ==
  CHOOSE pg \in Pages :
    \A other \in Pages : \/ pageTable[pg].count < pageTable[other].count
                         \/ pageTable[pg].count = pageTable[other].count /\ pg <= other

WrittenBack(pgs) ==
  [a \in Addresses |->
     IF a \div pagesize \in pgs THEN ram[InFrame(pageTable[a \div pagesize].framenumber, a)]
     ELSE disk[a]]

(***************************************************************************)
(* InsertPage: the first frame no valid page has, or the victim's.         *)
(***************************************************************************)
\* Mutant: the frame after the last is free as well.
FreeFramesAndNext ==
  {f \in 0 .. numpages : \A pg \in Pages : ~ (Valid(pg) /\ pageTable[pg].framenumber = f)}

FreeFrames == {f \in Frames : \A pg \in Pages : ~ (Valid(pg) /\ pageTable[pg].framenumber = f)}
Replaced == IF FreeFrames = {} THEN {Victim} ELSE {}
FrameTaken == IF FreeFrames = {} THEN pageTable[Victim].framenumber ELSE Min(FreeFrames)

\* Mutant: the replaced page is not written back.
DiskAfterFaultLost == disk

DiskAfterFault == WrittenBack(Replaced)

\* Mutant: the replaced page stays valid.
TableAfterFaultKept(page) ==
  [pageTable EXCEPT ![page] = [v |-> 1, framenumber |-> FrameTaken, count |-> 1]]

\* Mutant: the replaced page keeps its count.
TableAfterFaultCounted(page) ==
  [pg \in Pages |->
     IF pg = page THEN [v |-> 1, framenumber |-> FrameTaken, count |-> 1]
     ELSE IF pg \in Replaced THEN [pageTable[pg] EXCEPT !.v = 0]
     ELSE pageTable[pg]]

TableAfterFault(page) ==
  LET frame == FrameTaken
      replaced == Replaced
  IN [pg \in Pages |->
        IF pg = page THEN [v |-> 1, framenumber |-> frame, count |-> 1]
        ELSE IF pg \in replaced
          THEN [v |-> 0, framenumber |-> pageTable[pg].framenumber, count |-> NeverUsed]
        ELSE pageTable[pg]]

RamAfterFault(page) ==
  LET frame == FrameTaken
      words == DiskAfterFault
  IN [w \in DOMAIN ram |-> IF w \div pagesize = frame THEN words[Address(page, w)] ELSE ram[w]]

InsertPage(page) ==
  /\ disk' = DiskAfterFault
  /\ pageTable' = TableAfterFault(page)

(***************************************************************************)
(* ReadLogical.  On a fault the word comes from ReadDisk, whose parameter  *)
(* BR is a u_int8_t, and the page is inserted after that.                  *)
(***************************************************************************)
ReadHit(p, i) ==
  LET page == Page(p, i) IN
  /\ Valid(page)
  /\ pageTable[page].count + 1 < NeverUsed        \* Bound: reads of a page
  /\ got' = Value[ram[InFrame(pageTable[page].framenumber, i)]]
  /\ pageTable' = [pageTable EXCEPT ![page].count = @ + 1]
  /\ UNCHANGED <<disk, ram, created>>

ReadFault(p, i) ==
  /\ ~ Valid(Page(p, i))
  /\ got' = Value[disk[i + (Base[p] % BYTE)]]
  /\ InsertPage(Page(p, i))
  /\ ram' = RamAfterFault(Page(p, i))
  /\ UNCHANGED created

ReadLogical(p, i) == ReadHit(p, i) \/ ReadFault(p, i)

(***************************************************************************)
(* WriteLogical does not count.                                            *)
(***************************************************************************)
WriteHit(p, i, x) ==
  /\ Valid(Page(p, i))
  /\ ram' = [ram EXCEPT ![InFrame(pageTable[Page(p, i)].framenumber, i)] = x]
  /\ UNCHANGED <<disk, pageTable, created, got>>

WriteFault(p, i, x) ==
  /\ ~ Valid(Page(p, i))
  /\ InsertPage(Page(p, i))
  /\ ram' = [RamAfterFault(Page(p, i)) EXCEPT ![InFrame(FrameTaken, i)] = x]
  /\ UNCHANGED <<created, got>>

WriteLogical(p, i, x) == WriteHit(p, i, x) \/ WriteFault(p, i, x)

(***************************************************************************)
(* Fork writes every valid page to the disk, where it stays valid, and     *)
(* copies the words of the caller to those of the clone on the disk.  A    *)
(* fork that finds no memory leaves the words alone.                       *)
(***************************************************************************)
Flushed == WrittenBack({pg \in Pages : Valid(pg)})

Fork(p, q) ==
  /\ q = Cardinality(created)                       \* numPID
  /\ created' = created \cup {q}
  /\ disk' = [a \in Addresses |->
                IF a - Base[q] \in Offsets THEN Flushed[Base[p] + a - Base[q]] ELSE Flushed[a]]
  /\ UNCHANGED <<ram, pageTable, got>>

(***************************************************************************)
(* GD writes a block of words to the disk, page table or not; its base is  *)
(* a u_int8_t.  The END of the data leaves the disk alone.                 *)
(***************************************************************************)
BlockAt(a) == a .. a + Block - 1

GetData(p, a) ==
  LET base == Base[p] % BYTE IN
  /\ a % Block = 0
  /\ \E words \in [BlockAt(a) -> Words] :
       disk' = [k \in Addresses |-> IF k - base \in BlockAt(a) THEN words[k - base] ELSE disk[k]]
  /\ UNCHANGED <<ram, pageTable, created, got>>

(***************************************************************************)
(* RC copies a block on the disk word by word from the first, so a copy to *)
(* a higher address within the block repeats the words between the two.    *)
(* RC of a process takes the two bases, RCXX the two PIDs where the bases  *)
(* should be.                                                              *)
(***************************************************************************)
Copied(to, from, a) ==
  [k \in Addresses |->
     IF k - to \notin BlockAt(a) THEN disk[k]
     ELSE IF from < to THEN disk[from + a + ((k - to - a) % (to - from))]
     ELSE disk[k - to + from]]

CopyDisk(to, from, a) ==
  /\ disk' = Copied(to % BYTE, from % BYTE, a)
  /\ UNCHANGED <<ram, pageTable, created, got>>

Receive(p, s, a) == CopyDisk(Base[p], Base[s], a)
ReceiveAny(p, s, a) == CopyDisk(p, s, a)

(***************************************************************************)
(* EX writes the frames of the pages of p to the disk, also those of pages *)
(* that are not in RAM, makes them invalid without touching their counts   *)
(* (RemovePages), and puts the new program, here of the same length, on    *)
(* the disk at the old base.                                               *)
(***************************************************************************)
Removed(p) == Base[p] \div pagesize .. Base[p] \div pagesize + Length \div pagesize - 1

Exec(p) ==
  /\ \E words \in [Offsets -> Words] :
       disk' = [a \in Addresses |-> IF a - Base[p] \in Offsets THEN words[a - Base[p]]
                                    ELSE WrittenBack(Removed(p))[a]]
  /\ pageTable' = [pg \in Pages |-> IF pg \in Removed(p) THEN [pageTable[pg] EXCEPT !.v = 0]
                                    ELSE pageTable[pg]]
  /\ UNCHANGED <<ram, created, got>>

(***************************************************************************)
(* The machine starts with one program on the disk and nothing in RAM.     *)
(* Nobody reads the words around the program before they are written.      *)
(***************************************************************************)
Unread == CHOOSE x \in Words : TRUE

Init ==
  /\ \E program \in [Offsets -> Words] :
       disk = [a \in Addresses |-> IF a \in Offsets THEN program[a] ELSE Unread]
  /\ ram = [w \in 0 .. numpages * pagesize - 1 |-> Unread]
  /\ pageTable = [pg \in Pages |-> [v |-> 0, framenumber |-> 0, count |-> NeverUsed]]
  /\ created = {0}
  /\ got \in {Value[x] : x \in Words}

Access(p) ==
  \E i \in Offsets : ReadLogical(p, i) \/ \E x \in Words : WriteLogical(p, i, x)

Next ==
  \E p \in created :
    \/ Access(p)
    \/ Exec(p)
    \/ \E q \in Procs : Fork(p, q)
    \/ \E a \in 0 .. Length - Block :
         \/ GetData(p, a)
         \/ \E s \in created : Receive(p, s, a) \/ ReceiveAny(p, s, a)

Spec == Init /\ [][Next]_pagingVars
-----------------------------------------------------------------------------
(***************************************************************************)
(* The conditions under which the paging keeps its promise: programs on    *)
(* pages of their own, at bases a byte holds, that read no data and        *)
(* receive no block over or from a page in RAM, and neither EX nor RCXX.   *)
(***************************************************************************)
Apart ==
  /\ \A p \in Procs : Base[p] % pagesize = 0 /\ Base[p] < BYTE
  /\ \A p, q \in Procs : \A i, j \in Offsets : Page(p, i) = Page(q, j) => p = q

OnDisk(p, a) == \A i \in BlockAt(a) : ~ Valid(Page(p, i))

CarefulNext ==
  \E p \in created :
    \/ Access(p)
    \/ \E q \in Procs : Fork(p, q)
    \/ \E a \in 0 .. Length - Block :
         /\ OnDisk(p, a)
         /\ \/ GetData(p, a)
            \/ \E s \in created : OnDisk(s, a) /\ Receive(p, s, a)

CarefulSpec == Init /\ Apart /\ [][CarefulNext]_pagingVars
-----------------------------------------------------------------------------
(***************************************************************************)
(* The types of the variables: a page in RAM is in a frame that exists.    *)
(***************************************************************************)
PagingTypeOK ==
  /\ disk \in [Addresses -> Words]
  /\ ram \in [0 .. numpages * pagesize - 1 -> Words]
  /\ pageTable \in [Pages -> [v : {0, 1}, framenumber : Frames, count : 1 .. NeverUsed]]
  /\ created \subseteq Procs

(***************************************************************************)
(* No two pages are in RAM in one frame: InsertPage's search for a frame   *)
(* and the replacement never give away a frame that is in use.             *)
(***************************************************************************)
FramesDisjoint ==
  \A pg, other \in Pages :
    Valid(pg) /\ Valid(other) /\ pageTable[pg].framenumber = pageTable[other].framenumber
      => pg = other

(***************************************************************************)
(* When RAM is full, the page that RemoveLeastUsedPage kicks out is in it: *)
(* the counts of the pages outside RAM never make one of them the least    *)
(* used.                                                                   *)
(***************************************************************************)
KicksOneOut == FreeFrames = {} => Valid(Victim)

(***************************************************************************)
(* What a program sees: the word in RAM if its page is there, or the word  *)
(* on the disk.                                                            *)
(***************************************************************************)
Seen(p, i) ==
  LET entry == pageTable[Page(p, i)] IN
  IF entry.v = 1 THEN ram[InFrame(entry.framenumber, i)] ELSE disk[Base[p] + i]

memory == [p \in Procs |-> [i \in Offsets |-> Seen(p, i)]]

Flat == INSTANCE FlatMemory

(***************************************************************************)
(* Hits, faults, replacement, write back and the copying of Fork are a     *)
(* memory: every read gives the last word written, also after its page     *)
(* went to the disk and came back.                                         *)
(***************************************************************************)
ImplementsFlatMemory == Flat!Spec

(***************************************************************************)
(* RC copies memory values: the receiver sees in its block the words the   *)
(* sender saw in its own.                                                  *)
(***************************************************************************)
CopiesMemoryValues ==
  [][\A p, s \in created, a \in 0 .. Length - Block :
       Receive(p, s, a) => \A i \in BlockAt(a) : Seen(p, i)' = Seen(s, i)]_pagingVars
=============================================================================
