SPECIFICATION Spec
CONSTANTS
  W = 2
  Scale = 1
  Rate = 1
  Cpus = {c1, c2}
  RingCap = 1
  EbpfCap = 1
  MaxLaunches = 2
SYMMETRY Symmetry
INVARIANTS
  TypeOK
  UsageIsMeasured
  NoneLost
  SampledAfter
  LaunchPending
CHECK_DEADLOCK FALSE
