SPECIFICATION FairSpec
CONSTANTS
  Builders = {b1, b2}
  Readers = {r1}
  Pieces = 2
  MaxRuns = 3
PROPERTIES Settles
CHECK_DEADLOCK FALSE
