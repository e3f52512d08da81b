\* Every instruction, two processes, one semaphore; byte2 of 131072 + PID names no PCB.
CONSTANTS
  NPROC = 2
  TDMA_Setting = 2
  NSEM = 1
  WLEN = 2
  Regs = {1, 131072}
  Text <- AllText
SPECIFICATION Spec
INVARIANTS TypeOK EveryProcessAccounted SleeperHasNoMail SenderHasMailOut
