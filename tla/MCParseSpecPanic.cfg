SPECIFICATION Parsing
CONSTANTS
  Values = {v1, v2}
  Miss = Miss
  Fault = Fault
  WrongWidth = WrongWidth
  BadAddr = BadAddr
  BadHex = BadHex
  MaxU32 = 2
  Octets = 2
  Groups4 = 2
  ByteSize = 2
  MapBase = 1
  MaxValLen = 2
  MaxLines = 4
  Inputs <- SpecAddrs
  Lines <- SpecLines
INVARIANTS ParseNeverPanics
CHECK_DEADLOCK FALSE
