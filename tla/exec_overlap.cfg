\* Twelve units of memory, an EX to programs of one or two units.
CONSTANTS
  NPROC = 4
  MEMORY = 12
  NSPACES = 4
  Lengths = {1, 2}
SPECIFICATION Spec
INVARIANT ProgramsApart
