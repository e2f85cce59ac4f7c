SPECIFICATION FairSpec
CONSTANTS
  R = 17
  T = 2
  StaticV = 4
  Weights = {1, 3}
  Unit = 2
  Floor = 2
  Loads = {0, 1, 3, 6}
  MonitoringMode = FALSE
  EventDriven = FALSE
  Enforced <- GpuOnly
INVARIANT
  FirstQueueSaturated
PROPERTIES
  
  
  HeadroomGiven
  
  EventuallySatisfied
