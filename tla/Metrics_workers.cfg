SPECIFICATION Spec
CONSTANTS
  Workers = {w1, w2}
  Requests = {r1, r2, r3}
  Endpoints = {"page", "metrics"}
  Views <- MCViews
  Ids <- MCIds
  AuthOn = TRUE
  Slow = 1
  Edges <- MCEdges
  Free = Free
INVARIANT
  ScrapedTotalsNeverFall
