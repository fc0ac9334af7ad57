SPECIFICATION Spec
CHECK_DEADLOCK FALSE
CONSTANTS
  LiveVms = {"l1", "l2"}
  Fetches <- MCFetches
  Synthetic = {"d1", "d2"}
  OnpremVms = {"d2"}
  Workers = {"w1", "w2", "s1"}
  Home <- MCHome
  LiveModes = {TRUE, FALSE}
  Failed = Failed
  Absent = Absent
  Torn = Torn
  MaxFaults = 2
INVARIANTS
  CollectsTheRest
  JoinOfWholeInventory
PROPERTIES
  SeededTogether
  SeedServes
