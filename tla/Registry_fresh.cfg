SPECIFICATION Spec
CONSTANTS
  aws = aws
  acme = acme
  export = export
  upload = upload
  Ids = {aws, acme}
  Configs = {export, upload}
  Absent = Absent
  Missing = Missing
  NoOne = NoOne
  Procs = {p1, p2}
  PocSeed <- Shipped
  Boot = Missing
  SeedOnStart = FALSE
  Seeder = p1
  MaxCalls = 4
PROPERTIES
  OthersKept
CHECK_DEADLOCK FALSE
