---------------------------- MODULE MCCurlyQueue ----------------------------
(***************************************************************************)
(* Instances of CurlyQueue for TLC.                                        *)
(***************************************************************************)
EXTENDS CurlyQueue
CONSTANTS n1, n2, n3, n4, v1, v2

FourNodes == {n1, n2, n3, n4}
ThreeNodes == {n1, n2, n3}
TwoValues == {v1, v2}
=============================================================================
