SPECIFICATION Spec
CONSTANTS
  Workers = {w1}
  Requests = {r1, r2}
  Endpoints <- MCEndpoints
  Views <- MCViews
  Ids <- MCIds
  AuthOn = TRUE
  Slow = 2
  Edges <- MCEdges
  Free = Free
SYMMETRY MCSymmetry
INVARIANTS
  ScrapeIsWhole
  CountedAsSent
  AuditsAddUp
  ToldIsAudited
