SPECIFICATION ScriptSpec
CHECK_DEADLOCK FALSE
CONSTANTS
  FirstVm = 91
  Hours = {0, 1}
  Lists <- MCLists
  FirstMetric = 901
  DemoRange = 90
  MaxApplied = 2
  RealVms = {42, 92}
INVARIANTS
  RechargeStaysPut
PROPERTY
  SeedMatchesSnapshot
