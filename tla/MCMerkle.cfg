\* Height 3: every sequence of up to eight leaves, with saves and loads.
SPECIFICATION Spec
CONSTANTS
  Height = 3
  Data = {a, b}
  ShortWrites = {1, 3}
  MaxSaved = 2
INVARIANTS TypeOK RootIsReference SlotsHoldSubtrees
