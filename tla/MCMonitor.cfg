SPECIFICATION Spec
CONSTANTS
  i1 = i1
  i2 = i2
  p1 = p1
  p2 = p2
  Nil = Nil
  Ids = {i1, i2}
  Pods = {p1, p2}
  PodOf <- UniquePods
  ChCap = 1
  MaxInst = 2
  MonitoringMode = FALSE
INVARIANTS
  TypeOK
  NeverForgotten
PROPERTIES
  OnlyCompletedRemoved
  ReapedForGood
  KeepsPromise
CHECK_DEADLOCK FALSE
