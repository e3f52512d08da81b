SPECIFICATION Spec
CONSTANTS
  numpages = 2
  pagesize = 2
  MEMORY = 6
  Procs = {0, 1, 2}
  Base <- MCBase
  Length = 2
  Block = 1
  BYTE = 256
  NeverUsed = 3
  Words = {0, 1}
  Value <- MCValue
PROPERTY CopiesMemoryValues
