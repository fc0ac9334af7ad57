SPECIFICATION Spec
CONSTANTS
  i1 = i1
  a1 = a1
  o1 = o1
  g1 = g1
  Rows = {b1, b2, b3}
  Vms = {v1, v2}
  Resources = {i1, a1, o1, g1}
  CloudOf <- Clouding
  NoId = NoId
  Bills <- Mixed
  Machines <- Inventory
INVARIANTS
  CostsAddUp
  EveryVmOnce
  JoinsWhatIsDenoted
  ExactUploadsJoinAlike
CHECK_DEADLOCK FALSE
