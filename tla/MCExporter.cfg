SPECIFICATION Spec
CONSTANTS
  Pods = {p1, p2}
  Scrapers = {s1, s2}
  Vectors = 2
  MaxWrites = 3
SYMMETRY Symmetry
INVARIANTS
  TypeOK
  LoneReportIsExact
CHECK_DEADLOCK FALSE
