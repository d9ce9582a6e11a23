SPECIFICATION Spec
CONSTANTS
  MaxLen = 4
  Chars <- MCChars
  NUL = "nul"
  Terminators <- MCTerminators
  Spaces <- MCSpaces
  TooLong = TooLong
  WordSize = 65536
  MaxInput = 4
  Failed = Failed
INVARIANTS
  ReadyIsWhole
