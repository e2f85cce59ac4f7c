SPECIFICATION Spec
CONSTANTS
  Containers = {c1, c2, c3}
  NoOne = NoOne
  ChCap = 1
  MaxStarts = 2
  Slips = {"early"}
INVARIANT
  OneLivePerId
CHECK_DEADLOCK FALSE
