\* Messages received with RCXX, then semaphores.
CONSTANTS
  NPROC = 3
  TDMA_Setting = 2
  NSEM = 1
  WLEN = 6
  Regs = {50}
  Text <- MixedText
SPECIFICATION Spec
CONSTRAINT FirstLap
INVARIANT HeadWaiterIsBlocked
