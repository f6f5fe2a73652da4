SPECIFICATION Spec
CONSTANTS
  WordBits = 4
  UintTop = 16
  Widths = {0, 1, 2, 3, 4, 5, 15}
  MaxAsked = 16
  WordSize = 4
  WordBytes = 2
  ByteSize = 2
  HexVal <- Hex
  HexRadix = 3
  Radix = 2
  OctetTop = 2
  OctetDigits = 2
  GroupDigits = 2
  NGroups = 4
  MaxLen = 6
  Alphabet <- Chars
  Inputs <- MCInputs
INVARIANTS
  BitsTypeOK DeclaredFits ReadsBack GapsUntouched
  BytesAgree
  QuadsAgree AddressesAgree
PROPERTIES NextIsSuccessor
CHECK_DEADLOCK FALSE
