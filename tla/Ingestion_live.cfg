SPECIFICATION FairSpec
CONSTANTS
  s1 = s1
  s2 = s2
  jan = jan
  feb = feb
  mar = mar
  good = good
  more = more
  broken = broken
  ragged = ragged
  hollow = hollow
  refused = refused
  r1 = r1
  r2 = r2
  Sources = {s1, s2}
  Names = {jan, feb}
  HiddenNames = {}
  Bodies = {good, ragged}
  Unparsable = {ragged}
  NonConformant = {}
  DbRejected = {}
  RowLess = {}
  Export = Export
  Blank = Blank
  NoFile = NoFile
  NoOne = NoOne
  Requests = {r1, r2}
  Submissions <- Loadable
  Sample <- SampleS1
  Managed = {s2}
  Seeded = {s2}
  Faults = {"crash", "worker", "db"}
  MaxOps = 2
PROPERTIES
  Answered
  RestartSucceeds
CHECK_DEADLOCK FALSE
