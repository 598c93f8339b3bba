SPECIFICATION Spec
CONSTANTS
  Contexts = {c1, c2}
  Ids = {d1, d2}
  Names = {"etc", "map"}
  UserNamed = {"map"}
  Preferred = {"etc"}
  Grouped = {"etc"}
  Nested = {}
  Files = {1}
  Heaps = {1}
  Disks <- MCDisks
  Archives <- MCArchives
SYMMETRY MCSymmetry
INVARIANTS
  OneContext
  HandedOutLives
  IdKept
  FoundOpens
  LeavesNothing
PROPERTY WritingsKept
