\* Eight programs, a slice of two instructions so that slices end everywhere, at most 98 waits at a semaphore.
CONSTANTS
  NPROC = 5
  TDMA_Setting = 2
  NSEM = 3
  WLEN = 100
  WORD = 40000
  Regs = {0, 1, 5}
  Text <- ProgramText
  MEMORY = 260
  NSPACES = 8
  Files <- MCFiles
  Starts = {"ProConsumer", "philosopherseman", "TP", "TestFK", "FT", "calculation", "failing", "crowd"}
SPECIFICATION ProgramSpec
CONSTRAINT FirstLap
INVARIANTS RingIsWaiters WellBehaved ExitMeansDone EatsWithBothForks Results
PROPERTIES WritesStayInside UpdatesByOne
