\* Height 2: four leaves fill the tree.
SPECIFICATION Spec
CONSTANTS
  Height = 2
  Data = {a, b}
  ShortWrites = {1}
  MaxSaved = 1
INVARIANT RootOfAnyTreeIsReference
