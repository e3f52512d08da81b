------------------------------ MODULE MCKernel ------------------------------
(* Instruction sets and bounds with which TLC checks Kernel. *)
EXTENDS Kernel

Bare(ops) == {Instr(op, 0) : op \in ops}
With(ops, args) == {Instr(op, a) : op \in ops, a \in args}

\* Every instruction; the operand 1 of PE, VE, SI and LS is beyond NSEM = 1.
AllText == Bare({"NP", "DI", "H", "FK", "EX", "RX"})
             \cup With({"SD", "RC"}, PCBs)
             \cup With({"PE", "VE", "SI", "LS"}, {0, 1})

\* Two programs that exchange messages; semaphores together with RCXX.
ExchangeText == Bare({"FK"}) \cup With({"SD", "RC"}, PCBs)
MixedText == Bare({"FK", "RX", "NP"}) \cup With({"SD"}, PCBs)
               \cup With({"PE", "VE"}, Semas)
=============================================================================
