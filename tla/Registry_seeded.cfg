SPECIFICATION FairSpec
CONSTANTS
  aws = aws
  acme = acme
  export = export
  upload = upload
  Ids = {aws, acme}
  Configs = {export, upload}
  Absent = Absent
  Missing = Missing
  NoOne = NoOne
  Procs = {p1, p2, p3}
  PocSeed <- Shipped
  Boot = Missing
  SeedOnStart = TRUE
  Seeder = p1
  MaxCalls = 4
PROPERTIES
  Linearizable
  OthersKept
  Returned
CHECK_DEADLOCK FALSE
