SPECIFICATION FairSpec
CONSTANTS
  Readers = {r1, r2, r3}
  SawCap = 2
INVARIANTS TypeOK NoUseAfterClose ReadersNeverBlock
PROPERTIES NoReaderGoesBack ReloadCompletes
CHECK_DEADLOCK FALSE
