------------------------------ MODULE MCPaging ------------------------------
(***************************************************************************)
(* Three programs of one page each compete for two frames of two words.    *)
(***************************************************************************)
EXTENDS Paging

MCBase == [p \in Procs |-> pagesize * p]
MCValue == [x \in Words |-> x + 10]
=============================================================================
