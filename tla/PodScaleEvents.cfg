SPECIFICATION Spec
CONSTANTS
  R = 8
  T = 2
  StaticV = 0
  Weights = {1, 3}
  Unit = 1
  Floor = 3
  Loads = {0, 1, 2, 3, 4, 5}
  MonitoringMode = FALSE
  EventDriven = TRUE
  Enforced <- GpuOnly
INVARIANTS
  TypeOK
  PoorSavesNothing
PROPERTIES
  UnderBudgetNotThrottled
  OverBudgetNotRaised
  UnderBudgetAffordable
