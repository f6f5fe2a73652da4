SPECIFICATION Spec
CONSTANTS
  Builders = {b1}
  Readers = {r1, r2}
  Pieces = 3
  MaxRuns = 4
SYMMETRY ReaderSymmetry
INVARIANTS TypeOK NameImpliesServes SuccessIsPublished
PROPERTIES ServedNeverChanges ImplementsAtomicFile
CHECK_DEADLOCK FALSE
