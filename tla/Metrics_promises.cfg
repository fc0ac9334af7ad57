SPECIFICATION Spec
CONSTANTS
  Workers = {w1}
  Requests = {r1, r2}
  Endpoints <- MCEndpoints
  Views <- MCViews
  Ids <- MCIds
  AuthOn = TRUE
  Slow = 1
  Edges <- MCEdges
  Free = Free
INVARIANTS
  EveryChangeIsAudited
  CredentialsAdmit
