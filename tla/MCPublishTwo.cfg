SPECIFICATION Spec
CONSTANTS
  Builders = {b1, b2}
  Readers = {r1}
  Pieces = 2
  MaxRuns = 2
INVARIANTS NameImpliesServes
CHECK_DEADLOCK FALSE
