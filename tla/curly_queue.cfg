SPECIFICATION qSpec
CONSTANTS
  n1 = n1  n2 = n2  n3 = n3  n4 = n4
  v1 = v1  v2 = v2
  NULL = NULL
  Nodes <- FourNodes
  Values <- TwoValues
INVARIANTS
  qTypeOK
  WellLinked
  NoLeak
PROPERTY ImplementsCursorQueue
