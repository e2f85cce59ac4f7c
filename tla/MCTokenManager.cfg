SPECIFICATION Spec
CONSTANTS
  Containers = {c1, c2, c3}
  NoOne = NoOne
  ChCap = 2
  MaxStarts = 3
  Slips = {"command", "read", "early"}
SYMMETRY Symmetry
INVARIANTS
  TypeOK
  FreshIds
  GrantHasNode
  AnnouncedOnce
PROPERTIES
  KeepsPromise
  AnnouncesAll
CHECK_DEADLOCK FALSE
