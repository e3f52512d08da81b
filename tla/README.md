# osbrain in TLA+

osbrain is a teaching operating system: one C program that simulates the BRAIN
machine. It loads a program of four character instructions, executes it one
instruction at a time, and lets it fork processes that share the processor in
time slices, send each other messages and take semaphores, over a paged memory.
Everything runs in one thread, so an instruction is atomic; what is concurrent
is the simulated processes, whose instructions interleave by time slices, and
which wait for each other in queues that several handlers update.

This directory models the kernel, the memory, and the repository's own BRAIN
programs on top of them, checks the models with TLC and proves their main
invariants with TLAPS.

## Inventory

| component | state | operations | hard behaviour | what makes it right |
|---|---|---|---|---|
| main loop, scheduler (`Exec_Brain.c` 50-107, `sched.c`) | `PCB_Array`, `numPID`, `Current_PCB`, `TDMA`, `Block`, queues `rq`, `bq` | fetch, count, context switch, `readyq`, `blockq` | a process moves between queues in several statements of different handlers | every process is in one place; ready processes run |
| messages (`Send`, `Rec`, 468-560) | `PostOffice`, `WaitID` | SD, RC, RCXX | sends cross, repeat, overtake; stale `WaitID`s | no lost wakeup, no orphaned sender, a synchronous send |
| semaphores (`SharedMem.c`) | value, holder, ring of waiters | PE, VE, SI | waiter is in the ring and in `bq` at once; ring end | hand over in order, only to waiters; mutual exclusion |
| shared words | `shared` | LS, ST | races between programs | programs that use PE/VE lose no update |
| Fork, Exec (565-722) | PCBs, memory, pages | FK, EX | limits; copies behind the page table | the clone is a copy and is scheduled |
| linked list (`curlyqueue.c`) | nodes, front, back, iterator, count | 14 functions | pointers, freed nodes | its values stay in order, its iterator on its value |
| paging (`RAM.c`) | `RAM_Start`, `PageTable`, disk | read, write, fault, replace, remove | stale counts and copies | reads return the last write |
| allocator (`Disk.c` 223-347) | `Spaces`, hole queue, size queue, `Memory_Avail` | request, release | best fit over two queues | live blocks do not overlap |
| loader, GD, PD (`Disk.c`, `Brain.c`) | program text | parse | formats | input only |
| arithmetic, words | R, SP, C, IC | loads, stores, AD, SU, MU, DI, stack | four decimal digits or 32 bits in a word | conversion keeps numbers to 9999 |
| BRAIN programs (`ProConsumer`, `philosopherseman`, ...) | their words, the shared words | loops, self-modifying PE and VE, forks | a slice ends between LS and ST, or between two forks | no lost update, both forks, nobody waits for ever |
| dumps | none | printing | none | output only |

The main loop calls a handler for every instruction; the handlers call `readyq`
and `blockq`, which keep pointers to PIDs in two curlyqueues; VE and PE go
through the rings of `SharedMem.c` too; loads and stores go through `RAM.c`,
which reads and writes the disk of `Disk.c`; Fork and Exec call the allocator
and write the disk directly.

## Modules

| module | models | extends |
|---|---|---|
| `Sched` | PCBs, ready and block queue, slice, context switch | |
| `Mail` | SD, RC, RCXX | `Sched` |
| `Semaphores` | PE, VE, SI | `Sched` |
| `Kernel` | the main loop, all instructions, Fork, Exec, Halt; the composition and its properties | `Mail`, `Semaphores` |
| `Words` | numbers as bytes of a word, and what `ReadRAM` reads | |
| `Allocator` | `RequestMemory`, `ReleaseMemory`, and how FK and EX use them | |
| `Programs` | the machine that executes the words of its memory: registers, stack, shared words, FK and EX with their memory; a composition | `Kernel`, `Words`; instance of `Allocator` |
| `Rendezvous` | abstract: synchronous messages | |
| `FairLock` | abstract: a lock whose owners come from a line | |
| `Polite` | Kernel under a sending discipline, and its mappings to `Rendezvous` and `FairLock` | `Kernel` |
| `CursorQueue` | abstract: what the functions of `curlyqueue.c` do to a queue with a cursor, which in two places is not what their comments say | |
| `CurlyQueue` | the linked list with its pointers, and its mapping to `CursorQueue` | |
| `BlockQueue` | `blockq` over the linked list, against the operators of `Sched` | `CurlyQueue` |
| `FlatMemory` | abstract: every program has words that keep what was written | |
| `Paging` | `RAM.c`, the disk words of `Disk.c` and the copying of FK, EX, RC, RCXX and GD, and its mapping to `FlatMemory` | |
| `DataLemmas` | facts about sequences, least elements and division | |
| `KernelProofs`, `PoliteProofs`, `ListProofs`, `AllocatorProofs`, `PagingProofs` | theorems about the module of that name | that module, and those of the proofs they cite |
| `ProgramProofs` | theorems about `Programs`, for every set of files, and about one program of the repository, `ProConsumer` | `MCPrograms`, `PoliteProofs`; instance of `AllocatorProofs` |
| `PhilosopherProofs` | theorems about another one, `philosopherseman` | `ProgramProofs` |
| `MCKernel`, `MCPolite`, `MCPrograms`, `MCCurlyQueue`, `MCBlockQueue`, `MCPaging`, `MCAllocator` | instances for TLC | |

Operators whose comment says Mutant are deliberate errors; with one in place of
the definition after it, TLC must find the property named in `PROJECT.json`
violated. They are used nowhere else.

### Kernel: state and actions

A process is the index of its PCB. `rq` and `bq` are sequences of indices,
front first, for the linked lists of `sched.c` (`BlockQueue` shows that the list
does what the sequence does). `block`, `tdma`, `waitID`, `mailbox` and `semaphore`
are the fields and arrays of the same names; `tdma` is that of the current
process, as it is 0 in every other PCB. `blockedOn` stands for the part of IC
that matters: a process that blocked in RC has its IC decremented and fetches the
same RC again; for the others it records where they blocked, and only
properties look at it. `status` is "running", or says how the machine stopped:
exit(), a null dereference ("segv"), an access outside an array ("oob") or a
division by zero. Nothing is modelled after a stop, and the effects of the
stopping instruction before the stop are left out.

Each instruction is one action. Next is one turn of the main loop: `Step`
(fetch, `Instruction`, TDMA++), `SliceEnd` (the code after the inner loop), or
`Stopped`.

What a program does is left open: any process may fetch any instruction of the
constant `Text`. This is more than any set of programs can do, so what holds here
holds for all of them, as long as no process rewrites the RC instruction
another process (or itself) is blocked in. R is any of `Regs` when it is sent or
stored in a semaphore. SD and RC operands are two digits (`OperandAssumption`).
Instructions that touch only registers and the process's own words are one
action, `Tick`; their data is abstracted. So is the memory that FK and EX request:
RequestMemory may exit, or go on past the end of its arrays, in any state
(`OutOfMemory`); `Allocator` says when.

### Programs: the words decide

`Programs` closes what `Kernel` leaves open. Its actions are those of `Kernel`,
`Mail` and `Semaphores`, conjoined with what the instruction does to the registers
(`pcb`), to `memory` and to the `shared` words. The next instruction is the word at
BR + IC, which the program may have rewritten (LL puts the digits of a number in
an instruction; the philosophers give their PE and VE their operands this way).
FK and EX take their memory from `Allocator`, of which `Programs` has an instance
over the same variables, and copy or load words at the bases that it gives out.
A stop of the machine in `Kernel` (exit, an index beyond an array, a division by
zero) is tied here to the condition that the code tests or trips over.

`MCPrograms` holds the files `ProConsumer`, `CO`, `PR`, `philosopherseman`, `PH`,
`TP`, `TestFK`, `FT` and `ET` as they are in the repository, and four small ones
written for the instructions that those leave out. A word is an instruction with
its operand, or a number. A word that was stored from a number is read back as
`Words` says `ReadRAM` reads it.

RAM has room for every page in this module, so reads and writes are those of
`memory`; `Paging` shows when that is what the paged memory gives. SD, RC, GD
and PD are not among the instructions here, so that the files which use them
(`M1`, `ptest`, and those of several programs) are left out.

### Allocator

`heap` is `Spaces`, the number `Holes`, the length `hq` of the hole queue and
`Memory_Avail_Current`. The code looks at the hole queue only to learn whether it
is empty, and what it dequeues it throws away, so the length is all there is to
it; the size queue lives within one call and is the choice `BestFit`. `BESTFIT` is
defined in the code, so mode 0 of `RequestMemory` is never asked for. `FromEnd`,
the branch the code says should not occur, is there and fires in `Spec` only.
A file may list fewer words than its length; EX writes only those it lists. A
request, a release, FK's copy or EX's words that reach beyond the end of an array
stop the machine (`Overruns`, `ReleaseFails`, `CopyOverruns`, `LoadFails`).

Three things go wrong, and `CarefulSpec` names them as its conditions: a perfect
fit takes the last record off `Spaces` whichever hole was used (so the used one
must be the last); a perfect fit of the only hole leaves none for `ReleaseMemory`,
whose loop then does nothing; and EX stores the base it was given in the PCB of
the process to be forked next (so it must be given back the block it released).

### The linked list

`CurlyQueue` has the nodes malloc can return, the set of live ones, and an action
for each function of `curlyqueue.c`. Following an iterator to a freed node is
undefined behaviour and leads to status "undefined"; `CursorQueue` says exactly
when: the item under the cursor was dequeued and the caller did not jump or
enqueue before using it.

`CursorQueue` is what the functions do, seen without nodes; it is not a contract
found in the repository. It was written from the code, and `ImplementsCursorQueue`
says that the pointer updates, in any order of calls, amount to it. Two comments of
`curlyqueue.c` promise something else (318 and 405, quoted below under "What the
violated runs say"), and there the model has what the code does. Two more are
not statements about a state that a caller can see: destroy_queue is said to set
"the list manager's pointers" to null (52), but frees the struct, so that nobody can
look; and enqueue sets the iterator "to avoid the possibility of a null iter if there
are items in list" (87), which it does itself, but a step past either end or a
delete leaves a null iterator, and a dequeue a dangling one, with items there.

Every call passes an `except_t`, as `sched.c` does.
Destroying the queue, which the program never does, takes one step for each node.
`BlockQueue` runs the loop of `blockq` on that list.

### Paging

`disk`, `ram` and `pageTable` are the arrays of the same meaning; `got` is what the
last read returned. Reading and writing a word are an action each, with the hit
and the fault as alternatives; a fault takes the lowest free frame or replaces
the page with the smallest count, looking at all pages as the code does. FK
writes back all pages and copies on the disk; GD, RC and RCXX write the disk
behind the page table, and EX removes pages without resetting their counts. The
bases are constants here; where they come from is in `Allocator`. A word is a member of
`Words`, and `Value` is what `ReadRAM` and `ReadDisk` alike turn it into.

`Spec` has all of these. `CarefulSpec` is the part of it in which the paging
keeps its promise: page-aligned programs that share no page, below base 256, no
EX or RCXX, and GD and RC only where no page of the block is in RAM. What the
program sees, the word in RAM if the page is valid and else the one on the disk,
is then the `memory` of `FlatMemory`. The conditions are needed: with EX in the
specification `KicksOneOut` and then `FramesDisjoint` fail, because the least
count may be that of a page removed earlier.

## Runs

| run | checks | result |
|---|---|---|
| `kernel_all` | types, `EveryProcessAccounted`, `SleeperHasNoMail`, `SenderHasMailOut` over every instruction, 2 processes | holds |
| `polite` | messages and a semaphore between 3 processes under the sending discipline: `ImplementsRendezvous`, `ImplementsFairLock`, `NoNullDereference`, `ReleasesSender`, `RingIsWaiters`, `PEReturnsToHolder`, `NoStarvation` | holds until a ring reaches its last slot |
| `programs` | the repository's programs: `UpdatesByOne`, `EatsWithBothForks`, `ExitMeansDone`, `WritesStayInside` and its hypothesis `WellBehaved`, `RingIsWaiters`, `Results` | holds until a ring reaches its last slot |
| `curly_queue` | `WellLinked`, `NoLeak`; `ImplementsCursorQueue`: the list does what the code's functions do to a queue with a cursor | holds |
| `block_queue` | `UnlinksFirstEntry`, `IteratorIsLive`, `WellLinked`, `WalkEnds` | holds |
| `paging` | `ImplementsFlatMemory`, `FramesDisjoint`, `KicksOneOut` under `CarefulSpec` | holds |
| `allocator` | `BlocksApart`, `HolesQueued` under `CarefulSpec` | holds |
| `send_confirm` | a sender does not run before its message is received | violated: crossing sends |
| `ring_wrap` | a wait adds the current process to the ring and nothing else | violated on the last slot, by `ProConsumer` |
| `stale_waitid` | the head waiter of a semaphore is in the block queue | violated after RCXX |
| `stale_copy` | RC copies what the sender sees to what the receiver sees | violated when a page of the block is in RAM |
| `exec_overlap` | EX runs a program in the memory of its caller: no word belongs to two programs | violated by an EX to a longer program |

Each run that holds also checks the type invariant of its module, where it has one.

### Bounds

- Processes: 2 or 3 for 100. Two cross messages; with a third, a process waits
  in one place while two others act on it, which is what stale `WaitID`s and wrong
  wakeups need. The handlers touch at most the current process and one other.
  Messages of three processes that do not keep to the discipline are not run; the
  theorems cover them for any number.
- `TDMA_Setting`: 1 for 5 in `polite`, where every interleaving by instructions is
  then possible; 2 in `programs`, so that a slice ends after every second
  instruction and, over the laps of a loop, at every place in it; 5, the code's, in
  `ring_wrap`.
- Rings: 2 to 6 slots for 100, and 100 in `programs` and `ring_wrap`. The last slot
  is reached with 2 at once; `FirstLap` bounds the runs that check the ring to
  states in which none is at its last slot, that is to 98 waits at one semaphore in
  the code, since `ring_wrap` shows what happens there.
- `Regs`: small numbers and 131072. Only byte2 of the message word and whether
  a semaphore value is 0, 1 or another matter. 255 is left out: with PID 0 it is
  the mark of an empty mailbox.
- `programs` and `ring_wrap`: 5 PCBs, which is what the philosophers, and
  `TestFK` until it runs out of them, need. 260 words of memory for 10000, so that
  forks run out of it. `WORD` is 40000 for 2^32; the programs compute nothing above
  9999, except below zero, where the register wraps around.
- Paging: three pages for two frames of two words, so that a fault must replace
  and the victim depends on the counts; counts 1 and 2 (`NeverUsed` is 3), which
  tell apart equal and smaller; two words. Blocks of one word, since the words
  of a block are treated alike; the proof is for blocks of any length.
- Allocator: 14 units, 4 programs of 5 lengths and records for 3 holes, so that
  holes split, merge, are used up and run out of records; at most 6 entries in
  the hole queue, where the same hole may be queued again and again.
- Linked list: 4 nodes, so that there are an item at each end, and two between.

### Fairness

`Spec` of `Kernel`, `PoliteSpec` and `ProgramSpec` have WF on their next-state
relation: the only thread runs the main loop until the machine stops, so some
step is taken if one is possible. There is no fairness between processes;
`NoStarvation` follows from the round robin. `polite` uses `FirstLapSpec`, the same
with `FirstLap` in the step, so that TLC's bound is part of the specification and
liveness is checked of the behaviours within it. `BlockQueue` has WF on the turn
of the loop, for the same reason. The other specifications have none, and only
safety is checked of them.

## What the violated runs say

1. **Crossing sends** (`Exec_Brain.c:476`). SD wakes any process whose `WaitID`
   names the sender, and a process blocked in SD also has one. If 0 sends to 1 and
   1 to 0, the second SD releases process 0, although its message is still in the
   mailbox ("Do no more instructions until message confirmation", 487). If 1 then
   receives from 0, `blockq` does not find 0 and dereferences NULL. `polite`
   shows that the messages are synchronous if sends do not cross.
2. **The ring** (`SharedMem.c:129`). At the last slot `tail` is reset and then
   incremented, so the stale slot 0 becomes part of the wait list. The repository's
   own `ProConsumer` reaches it: the 99th wait at its semaphore brings `tail` to the
   last slot, the 100th, after some 1860 steps, uses that slot and takes `tail` past
   slot 0, and a VE about fifteen steps later hands the semaphore to a process that
   is not blocked, for which `blockq` runs off its queue.
3. **Stale WaitID** (`Exec_Brain.c:556`). RCXX resets the receiver's `WaitID`,
   where RC resets the sender's (529).
4. **Copies behind the page table** (`Exec_Brain.c:518`). `CopyDisk` copies from
   disk to disk. The sender's words are on the disk only if its page was replaced
   or written back since, and the receiver sees the disk only if its page is not
   in RAM.
5. **EX and the allocator** (`Exec_Brain.c:673`). The base that `RequestMemory`
   answers is stored for the next process, and the program is loaded at the old
   base, which was released. A longer program reaches into its neighbour's block.

In two more places the code does not do what a comment says. There is no violated run
for them: `ImplementsCursorQueue` holds of the code, and `CursorQueue` says what that
does, against the comments.

- **The iterator after an insert** (`curlyqueue.c:340`, `PutBehind`). "the q iter
  points at the enew node" (318) holds where the value is enqueued, at the back; in the
  middle and at the front the iterator stays on its old node: after two enqueues and a
  jump to the front, an insertion leaves it at the front. The program never calls the
  insertions, so nothing depends on it yet.
- **A silent delete** (`curlyqueue.c:409`, `Delete`). "@throws null_iter if iterator is
  not set to an element" (405), but the function returns without setting the exception,
  and the items of the queue stay: after an enqueue and a step forward, a delete does
  nothing. The loop of `blockq`, the only caller, has followed the iterator before it
  deletes.

## Proofs

All theorems are for all constants that satisfy the assumptions of the modules.

`KernelProofs`:

- `KernelTyping`: SmallRegs /\ Spec => []TypeOK
- `KernelAccounting`: SmallRegs /\ Spec => []EveryProcessAccounted
- `NoLostWakeup`: SmallRegs /\ NoEmptyMessage /\ Spec => []SleeperHasNoMail
- `NoOrphanedSender`: the same => []SenderHasMailOut
- `TakersRelease`: the same => ReleasesSender, an action property

SmallRegs says that registers that are sent are below 65536, NoEmptyMessage that
none is 255. The first is needed: R is added to PID << 16 unmasked
(`Exec_Brain.c:474`), byte2 may then name another process or a PCB that is not
created, and a register of 65536 makes TLC refute `ReleasesSender`, which the run
`polite`, with the one register 50, therefore says nothing about. The
second is what makes a message of process 0 different from an empty mailbox.

Neither invariant is inductive alone. `IInv` adds to the process accounting what
the handlers rely on when they follow a PID found in memory: every nonempty
mailbox word names the process whose word it is (`MailNamesSender`), and every ring
slot holds a created process (`RingsCreated`), so that Rec and VE unlink and
requeue one and the same process. Initially all holds; each action moves at most
the current process and one taken out of `bq`, and `DataLemmas` says what RemoveAt,
Append and Tail do to the elements of a sequence and to its being injective. The
mail theorems add an invariant on sleepers to that, one step per instruction;
`TakersRelease` looks at the steps that empty a word, which are those of Rec.

`PoliteProofs`, each of the form SmallRegs /\ PoliteSpec /\ []FirstLap => ...:

- `MessagesAreSynchronous`: ImplementsRendezvous
- `RingsListWaiters`: []RingIsWaiters
- `QueuesHold`: []NoNullDereference
- `WaitersBecomeHolders`: PEReturnsToHolder, an action property
- `LocksAreFair`: with []ValuesTell as one more hypothesis, ImplementsFairLock
- `LocksWithoutSI`: the same without that hypothesis, if no instruction is SI

`PoliteSpec` keeps to the sending discipline, and `FirstLap` says that no ring is at
its last slot; `ring_wrap` and `send_confirm` show that neither can be left out.
FirstLap is a hypothesis on the behaviour and not a part of the specification, so
that the theorems speak of every behaviour with at most 98 waits at one semaphore.
`RingIsWaiters` says that the slots from `head` to `tail` hold the processes blocked
in PE of that semaphore, each once and in the order of the block queue; stated
with `Precedes`, the order of two entries, it is a first-order formula that
survives Append and RemoveAt (`AppendPrecedes`, `RemoveAtPrecedes`). `PoliteInv` adds
what makes it inductive: `RingLists` (the slots from head to tail name exactly the
processes blocked in PE there, in the order of the block queue),
`MessageMeansSending` (a message in a mailbox is that of a process blocked in SD to
its owner) and `WaitIDIsTrue` (a process whose `waitID` names someone is blocked in
RC or SD on that one). From these, every process
a handler looks for is in the block queue, so that `blockq` cannot run off it; and
for `ImplementsRendezvous` a process is mapped by what it is blocked in, with one
lemma for each instruction that blocks or wakes.

`FairLock` is what a semaphore promises: it has an owner or none, and a line of those
who wait; whoever comes takes the lock only if it has no owner, else joins the line
at its end, and a release gives it to the first in line. The mapping takes the owner
from value and holder, and the line from the ring: the slots from head to tail.
`Lining` and `RingOf` say that this is a sequence that lists the processes blocked in
PE, `PELocks` and `VELocks` that acquiring, waiting, freeing and handing over are the
steps of the lock of their semaphore, and `LocksKept` that every other step leaves
every lock alone. `ValuesTell` says that a semaphore has the value 0 exactly when
somebody has it, or else 1 with nobody in line. It cannot be left out: SI may store
any value, and a PE at a 1 stored over a held semaphore gives it a second owner. But
PE and VE alone keep it, whatever the order of their calls (`Tells`), which is
`LocksWithoutSI`.

`ListProofs`, of the linked list for any finite set of nodes:

- `ListTyped`, `ListStaysLinked`, `NothingOutlivesQueue`: the three invariants
- `ListIsCursorQueue`: qSpec => ImplementsCursorQueue
- `BlockQueueStaysLinked`, `IteratorStaysLive`: the invariants of `bSpec`
- `BlockQueueUnlinksFirst`: bSpec => UnlinksFirstEntry, if the entries are PIDs below 100

`WellLinked` follows prev from the front, node by node, and that path is a
recursive function whose shape no step of a proof sees. `ListInv` has a witness in
its place: there is an order, a sequence that lists every live node once, whose
neighbours are what next and prev say and whose ends are front and back
(`Chained`, `Whole`). `FromFrontIsOrder` shows that following prev gives that order:
if not, take the least place at which the two differ (`NatMin`) and look one before
it, which needs no induction. What a function writes is then an insertion at a
place of the order or a removal from one (`Inserts`, `Removes`), whatever its pointer
updates look like, and `InsertLinks` and `RemoveLinks` show once for all of them that
the new order is listed; half of these proofs are about the two neighbours, at
the ends and in a list of one. While destroy_queue walks, only the nodes not yet
freed are chained, over next, and the cursor is at the last of them: `DestroyNode`
reads the link before it frees the node. The refinement maps the values along
the order (`GrownItems`, `ShrunkItems`) and the iterator to its place, and then has
one lemma for each function. `BlockInv` adds that the entries a walk of `blockq` has
passed are of other PIDs (`Passed`), so the one it unlinks is the first, which is
what `BqWithout` of `Sched` says; with this the kernel's proofs, which are about
sequences, hold of the list.

`PagingProofs`, under `CarefulSpec` of `Paging`:

- `PagingTyped`, `FramesStayDisjoint`, `AlwaysKicksOneOut`: the three invariants
- `PagingIsMemory`: CarefulSpec => ImplementsFlatMemory

A replacement hands out the victim's frame, so that two pages could share a
frame if the victim were not in RAM. `CountTells` rules that out: a page is in RAM
if and only if its count is below `NeverUsed`, so the least count of a full RAM is
that of a page in it. `CreatedInRam` says that only processes that exist have
pages in RAM, without which FK would leave a clone with old words, and
`CreatedInOrder` that their PIDs are the first ones. With these as one invariant,
`FaultUnseen` shows that no program sees a fault: the page that comes is read
from where it was, the one that goes is on the disk, and the others do not have
the frame that changes hands. The refinement then has one lemma per action. The
division of addresses into page and offset by a page size that is not known
rests on `DataLemmas`.

`AllocatorProofs`, under `CarefulSpec` of `Allocator`:

- `AllocTyped`, `BlocksStayApart`, `QueueNeverEmpty`: the three invariants of the run

The invariant says that programs and holes, taken as pairs of base and length, lie
one before the other pairwise; `ApartBlocks` makes that the disjointness of sets of
words. Requests shrink a hole from below or drop the last one, releases extend
the first hole downward or add one, so that each step moves one boundary.

`ProgramProofs`, of the machine that executes the words of its memory:

- `PushedRoundTrip`: what is pushed on the stack is read back modulo 10000
- `StoredRoundTrip`: a number up to 9999 is read back from memory as it was stored
- `LargeNumbersMisread`: from 10000 up to 58 * 2^24 - 1 every number stored is
  read back as another one

and, for every set of files, every size of memory, and Text = ProgramText /\ SmallRegs:

- `ProgramsAreKernel`: ProgramSpec /\ []StoresRegs => Init /\ [][PoliteNext]_vars
- `ProgramsAccounted`: ProgramSpec /\ []StoresRegs => [](TypeOK /\ EveryProcessAccounted)
- `ProgramRings`: ProgramSpec /\ []StoresRegs /\ []FirstLap =>
  [](RingIsWaiters /\ NoNullDereference)
- `ProgramHolders`: the same => PEReturnsToHolder
- `ProgramLocks`: ProgramSpec /\ [](~ Runs({"SI"})) /\ []FirstLap => ImplementsFairLock
- `ProgramsIsolated`: ProgramSpec /\ []WellBehaved => WritesStayInside

`ProgramText` is the constant `Text` that `Programs` needs, since its instructions
other than those of the kernel are `NP` to it. `ProgramsAreKernel` is a refinement
without a mapping: the variables of `Kernel` are among those of `Programs`, and each
word at IC, whatever the program has made of it, chooses one of the steps that
`Kernel` leaves open. Programs send no messages here, so they keep to the discipline
of `Polite`, and the invariants of `PoliteProofs` hold of them. What a program
stores in a semaphore is not bounded by the machine; `StoresRegs` says that it is
one of `Regs`, of which SmallRegs asks only that they be below 65536.

No instruction compares an address with LR, so a program that stores at 60 of its
40 words changes its neighbour. `WellBehaved` is what remains for the programs to
do: address their own words with SR and the stack (`AddressesOwnWords`), and fork and
run each other only when the allocator does not run into its faults
(`AllocatesCarefully`, the conditions of `CarefulSpec` of `Allocator`, at the
instruction about to run). The run `programs` checks that the programs of the
repository are so, from every interleaving of their slices. That those conditions
are enough is the theorem: FK and EX write only words that belong to nobody, or to
the process that EX replaces. Its invariant joins `IInv` of the kernel with
`AllocInv` of the allocator, whose proofs are used through an instance over the
lengths of the files. The proof showed that FK and EX may run past an array in any
state, and not only with `NPROC` processes: hence `OutOfMemory` of `Kernel`.

`ProgramProofs`, of the machine started with `ProConsumer` (`ConsumerMachine`), each
of the form UntilLastSlot => ...:

- `ConsumerCounts`: UpdatesByOne, an action property
- `ConsumerBehaves`: []WellBehaved
- `ConsumerExits`: [](status = "running" /\ ExitMeansDone)
- `ConsumerIsolated`: WritesStayInside, an action property

What holds of the words of one file and not of all programs needs an invariant that
knows the words. `ConsumerInv` has, beside `PoliteInv` and `ValuesTell`, one predicate
for each place that a process can have come to: `Starts0` before FK, `Forked` between
FK and EX, `InLoop` in CO or PR. Each says which words the process has at its base,
at which IC it may be, and what R, C and the word that SR wrote are there. The
instruction that a process fetches is then known (`FetchesNow`) and each moves the
process on within its predicate, or from one to the next (`ForkMoves`, `ExecMoves`), and leaves
the other process where it is (`LeavesOther`). In the loop a process is the holder of semaphore 0
exactly from its PE to its VE; at ST its R differs by one from the shared word,
which nobody else can have changed. That is `ConsumerCounts`, and it is a proof about
the interleavings: the slice may end between any two of these instructions.

The hard part is EX. It is given its own memory only while Spaces has one hole that
begins behind the clone (`HoleFrom`): the clone's EX frees words 40 to 79, which border
on the hole and are merged into it; the parent's frees 0 to 39, which become a
second hole, smaller than the first and so the best fit. With the parent first, the
clone would be loaded over words that the allocator gives out again. `CloneIsAhead`
shows that the round robin never lets the parent come first: both have the
same two instructions to go, the clone's turn comes after the slice in which the
parent forks, and each slice is as long as the other. The third disjunct of
`AfterFork` needs no holes any more, as nothing is requested in the loop.

The hypotheses are those that the program needs. More than 100 words make the second
hole the smaller one, a third PCB takes the base that EX requests, and a second record of
Spaces the hole of the parent. `UntilLastSlot` is `ProgramSpec` without its fairness, as
long as `FirstLap` holds: a fair machine that runs ProConsumer came to the last
slot of the ring, where `ring_wrap` shows what happens, with every slice that TLC was
given, so that a theorem about the fair behaviours that never do might say nothing. So
stated, it speaks of every finite beginning of a run that has not come there. TLC
finds that FirstLap => ConsumerInv holds for slices of 1 to 8 and 12, 101 words, 3 PCBs,
2 records and 12 slots.

`PhilosopherProofs`, of the machine started with `philosopherseman`
(`PhilosopherMachine`), each of the form ProgramSpec => ...:

- `PhilosophersHoldForks`: []EatsWithBothForks
- `PhilosophersBehaveWell`: []WellBehaved
- `PhilosophersIsolated`: WritesStayInside, an action property
- `PhilosophersShareFairly`: []FirstLap /\ ImplementsFairLock
- `PhilosophersRunOn`: [][status' = status \/ NothingReady]_machine

The numbers of a philosopher's forks are in no file: it computes them from its PID
and writes them with LL and SR into the PE and VE that it executes later. So
`PhilosopherInv` says of each process which words it never writes (`ForkersFixed`,
`EatersFixed`), which of the others it has written when it is at a given IC
(`HasOwnWords`), what is in R there (`HasRegister`) and which forks it has or waits for
(`HasForks`). Process 0 is the one that forks: its word 3 counts the philosophers
that are missing (`Forking`). A process that does not run loses none of this,
whatever the one that runs does (`SameLife`, `OtherTurn`, `LifeKept`), so that each
instruction is looked at once, in three groups: those that only read
(`EaterReadStep`), those that write a word (`EaterWriteStep`) and those on a semaphore
(`EaterQueueStep`). In contrast to `ProConsumer`, the order of the slices does not
matter: all programs are 50 words long, so that EX is given back the words that it
released, be they the last before the hole or not (`LastLoads`, `EarlierLoads`).

There is no hypothesis on the rings here. A philosopher executes two PEs in its
life, `PEsOf` counts them by its IC, and no tail can be beyond their sum (`FewWait`);
a ring of 8 slots is enough for the six of them, and the program's rings have 100.
TLC agrees: it finds `PhilosopherInv` and `ImplementsFairLock` true for slices of 1, 2,
3, 5, 8, 11, 14 and 30 with 5 PCBs, 251 words, 2 records and rings of 8, where the
philosophers eat and halt. That they all halt, which is `ExitMeansDone`, is not
proved: the forks are taken in a circle, and only the times at which the
philosophers are born keep each of them from holding one fork and waiting for the
next. TLC finds that it holds for every slice from 1 to 16, and 18, 20 and 40.

Only model-checked: `NoStarvation` and `WalkEnds`, as liveness under fairness is out
of the prover's reach; `Results`, as LH takes a number bit by bit with a fold, which
the provers cannot evaluate; `ExitMeansDone` of the philosophers; and `UpdatesByOne`,
`WellBehaved` and `ExitMeansDone` of the files not named above. These hold of the
words of particular files and not of all programs: each would need an invariant
of its own that follows the file word by word.

## Not modelled

- Reading the lines of program files and of data from stdin, and all printing.
- The R that a receiver finds, and SD, RC, GD and PD within `Programs`.
- `Programs` over paged memory: with the paging a word has two places, and the
  programs' states and the page tables together are beyond TLC. `PagingIsMemory` says
  under which conditions `memory` may stand for both.
- Mode 0 of `RequestMemory` and `WritePage`, which nothing calls.
- The older program files (`phil`, `DeadLockCase`, `IOServer`), which
  have no length line and do not load any more.

## Plan

1. The words a receiver finds: R and the block of RC in one model with `Programs`,
   for programs that exchange messages.
2. `Programs` over the instance of `Paging`, for one program of two pages.
3. The memory of `Allocator` under `Paging`: the bases it gives out need not be
   multiples of the page size, as `PagingIsMemory` asks.
