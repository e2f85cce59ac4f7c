SPECIFICATION FairSpec
CONSTANTS
  W = 2
  Scale = 1
  Rate = 1
  Cpus = {c1}
  RingCap = 1
  EbpfCap = 1
  MaxLaunches = 2
PROPERTIES
  EveryLaunchSampled
CHECK_DEADLOCK FALSE
