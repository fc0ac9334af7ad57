SPECIFICATION Spec
CONSTANTS
  s1 = s1
  s2 = s2
  jan = jan
  feb = feb
  mar = mar
  good = good
  more = more
  broken = broken
  ragged = ragged
  hollow = hollow
  refused = refused
  r1 = r1
  r2 = r2
  Sources = {s1, s2}
  Names = {jan, feb, mar}
  HiddenNames = {}
  Bodies = {good, more, broken, ragged, hollow}
  Unparsable = {ragged}
  NonConformant = {broken}
  DbRejected = {}
  RowLess = {hollow}
  Export = Export
  Blank = Blank
  NoFile = NoFile
  NoOne = NoOne
  Requests = {r1}
  Submissions <- Resent
  Sample <- SampleS1
  Managed = {}
  Seeded = {}
  Faults = {}
  MaxOps = 4
INVARIANTS
  Reproducible
CHECK_DEADLOCK FALSE
