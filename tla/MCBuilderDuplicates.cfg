SPECIFICATION Spec
CONSTANTS
  MaxValLen = 1
  Values = {v1, v2, v3}
  Miss = Miss
  Fault = Fault
  WrongWidth = WrongWidth
  MaxU32 = 4
  Octets = 2
  Groups4 = 2
  ByteSize = 2
  MapBase = 1
  Inputs <- FewHosts
SYMMETRY ValueSymmetry
INVARIANTS StatsAccount BuiltStoreValid Bookkeeping NeverPanics
