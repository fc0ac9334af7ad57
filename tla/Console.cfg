SPECIFICATION Spec
CONSTANTS
  Sources <- MCSources
  Bills <- MCBills
  Partitions <- MCPartitions
  NoRes = ""
  VmsOf <- MCVmsOf
  Vms <- MCVms
  TopLimit = 2
  Drills <- MCDrills
  Idle <- MCIdle
  Recharge <- MCRecharge
  MaxCommits = 2
  NoExport = NoExport
INVARIANTS
  QuietPageAgrees
  TilesAgree
  DetailAddsUp
  MoneyReconciles
