---------------------------- MODULE MCBlockQueue ----------------------------
(***************************************************************************)
(* Instances of BlockQueue for TLC.                                        *)
(***************************************************************************)
EXTENDS BlockQueue
CONSTANTS n1, n2, n3, n4

FourNodes == {n1, n2, n3, n4}
ThreePIDs == 0 .. 2
=============================================================================
