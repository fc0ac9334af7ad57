SPECIFICATION Spec
CHECK_DEADLOCK FALSE
CONSTANTS
  Sources <- MCSources
  Bills <- MCBills
  Partitions <- MCPartitions
  NoRes = ""
  VmsOf <- MCVmsOf
  Vms <- MCVms
  TopLimit = 2
  Drills <- MCDrills
  Idle <- MCIdle
  Recharge <- MCRecharge
  MaxCommits = 1
  NoExport = NoExport
INVARIANTS
  JoinReconciles
