SPECIFICATION FairSpec
CONSTANTS
  Containers = {c1, c2}
  NoOne = NoOne
  ChCap = 1
  MaxStarts = 2
  Slips = {"command", "read", "early"}
PROPERTIES
  AllocateReturns
CHECK_DEADLOCK FALSE
