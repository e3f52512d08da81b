\* Polite messages and a semaphore between three processes.
CONSTANTS
  NPROC = 3
  TDMA_Setting = 1
  NSEM = 1
  WLEN = 4
  Regs = {50}
  Text <- PoliteText
SPECIFICATION FirstLapSpec
INVARIANTS NoNullDereference RingIsWaiters
PROPERTIES ReleasesSender PEReturnsToHolder ImplementsRendezvous ImplementsFairLock NoStarvation
