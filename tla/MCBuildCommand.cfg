SPECIFICATION Command
CONSTANTS
  Miss = Miss
  Fault = Fault
  WrongWidth = WrongWidth
  BadAddr = BadAddr
  BadHex = BadHex
  MaxU32 = 3
  Octets = 2
  Groups4 = 2
  ByteSize = 2
  MapBase = 1
  MaxInt64 = 6
  Align = 2
  Epoch = 5
  Magic = 9
  ValLen = 3
  MaxValLen = 3
  MaxLines = 4
  BadCells = {0, 1, 7}
  Values <- MCValues
  Inputs <- MCInputs
  Lines <- MCLines
  Forgeries <- SmallFiles
INVARIANTS
  ParseTypeOK ErrorsNameFirstBadLine SuccessIsWhole
  SpecIsServed TornIsRefused DamageIsRefused AcceptedIsCanonical
CHECK_DEADLOCK FALSE
