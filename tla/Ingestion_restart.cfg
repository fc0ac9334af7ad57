SPECIFICATION FairSpec
CONSTANTS
  s1 = s1
  s2 = s2
  jan = jan
  feb = feb
  mar = mar
  good = good
  more = more
  broken = broken
  ragged = ragged
  hollow = hollow
  refused = refused
  r1 = r1
  r2 = r2
  Sources = {s1, s2}
  Names = {jan, feb}
  HiddenNames = {}
  Bodies = {good, refused}
  Unparsable = {}
  NonConformant = {}
  DbRejected = {refused}
  RowLess = {}
  Export = Export
  Blank = Blank
  NoFile = NoFile
  NoOne = NoOne
  Requests = {r1}
  Submissions <- Refused
  Sample <- SampleS1
  Managed = {}
  Seeded = {}
  Faults = {"crash"}
  MaxOps = 4
PROPERTIES
  RestartSucceeds
CHECK_DEADLOCK FALSE
