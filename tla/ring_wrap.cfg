\* ProConsumer with the constants of the code: a slice of five instructions, a hundred waiting slots.
CONSTANTS
  NPROC = 5
  TDMA_Setting = 5
  NSEM = 1
  WLEN = 100
  WORD = 40000
  Regs = {0}
  Text = {}
  MEMORY = 260
  NSPACES = 8
  Files <- MCFiles
  Starts = {"ProConsumer"}
SPECIFICATION ProgramSpec
PROPERTY WaitAddsCurrent
