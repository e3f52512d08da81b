---------------------------- MODULE MCAllocator ----------------------------
(* Memory for up to four programs; the lengths are counted in units, for   *)
(* the ProConsumer's programs of 40 and 20 words a unit is 20 words.       *)
EXTENDS Allocator

\* Bound: holes queued; entries for the same hole repeat.
FewQueued == heap.hq <= 6
=============================================================================
