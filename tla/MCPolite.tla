------------------------------ MODULE MCPolite ------------------------------
(* The message instructions, forking, halting, and waiting at a semaphore. *)
EXTENDS Polite

PoliteText == {Instr(op, 0) : op \in {"FK", "H", "PE", "VE"}}
                \cup {Instr(op, a) : op \in {"SD", "RC"}, a \in PCBs}

\* PoliteSpec up to the last slot of a ring.
FirstLapNext == PoliteNext /\ FirstLap'
FirstLapSpec == Init /\ [][FirstLapNext]_vars /\ WF_vars(FirstLapNext)
=============================================================================
