SPECIFICATION bSpec
CONSTANTS
  n1 = n1  n2 = n2  n3 = n3  n4 = n4
  NULL = NULL
  Nodes <- FourNodes
  Values <- ThreePIDs
INVARIANTS
  WellLinked
  IteratorIsLive
PROPERTIES
  UnlinksFirstEntry
  WalkEnds
