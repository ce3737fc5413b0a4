SPECIFICATION Spec
CONSTANTS
  Base = 4
  U256Length = 4
  SizeLength = 3
  Size = 33
  Funsels = {1, 2}
  Numbers <- MCNumbers
  Strings <- MCStrings
  MaxHead = 3
INVARIANTS ReadsBack EdomIffTooLarge NoOldBytes
CHECK_DEADLOCK FALSE
