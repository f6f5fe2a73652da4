SPECIFICATION Spec
CONSTANTS
  Values = {v1, v2}
  Miss = Miss
  Fault = Fault
  MaxU32 = 3
  Octets = 2
  Groups4 = 2
  ByteSize = 2
  MapBase = 1
  MaxRows = 2
  MaxTable = 3
  Words = {0, 1}
SYMMETRY ValueSymmetry
INVARIANTS AcceptedAnswers
CHECK_DEADLOCK FALSE
