SPECIFICATION Spec
CONSTANTS
  i1 = i1
  i2 = i2
  p1 = p1
  p2 = p2
  Nil = Nil
  Ids = {i1, i2}
  Pods = {p1, p2}
  PodOf <- SharedPod
  ChCap = 1
  MaxInst = 1
  MonitoringMode = FALSE
PROPERTY
  RemovedWasCompleted
CHECK_DEADLOCK FALSE
