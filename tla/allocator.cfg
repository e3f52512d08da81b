\* Up to four programs in fourteen units of memory, and records for three holes.
CONSTANTS
  NPROC = 4
  MEMORY = 14
  NSPACES = 3
  Lengths = {1,2,3,4,8}
SPECIFICATION CarefulSpec
CONSTRAINT FewQueued
INVARIANTS AllocTypeOK BlocksApart HolesQueued
