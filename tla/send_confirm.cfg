\* Two processes that send to each other.
CONSTANTS
  NPROC = 2
  TDMA_Setting = 2
  NSEM = 1
  WLEN = 2
  Regs = {50}
  Text <- ExchangeText
SPECIFICATION Spec
INVARIANT SenderWaitsForReceipt
