SPECIFICATION Spec
CONSTANTS
  s1 = s1
  s2 = s2
  jan = jan
  feb = feb
  mar = mar
  good = good
  more = more
  broken = broken
  ragged = ragged
  hollow = hollow
  refused = refused
  r1 = r1
  r2 = r2
  Sources = {s1, s2}
  Names = {jan, feb}
  HiddenNames = {}
  Bodies = {good, more, broken, ragged, refused}
  Unparsable = {ragged}
  NonConformant = {broken}
  DbRejected = {refused}
  RowLess = {}
  Export = Export
  Blank = Blank
  NoFile = NoFile
  NoOne = NoOne
  Requests = {r1, r2}
  Submissions <- SharedNames
  Sample <- SampleS1
  Managed = {s2}
  Seeded = {s2}
  Faults = {"crash", "worker", "db"}
  MaxOps = 3
INVARIANTS
  TypeOK
  IngestMutex
  WholeInbox
  NoLostUpload
  WarehouseConformant
  AcknowledgedIsLoaded
SYMMETRY Alike
CHECK_DEADLOCK FALSE
PROPERTY ImplementsWarehouse
