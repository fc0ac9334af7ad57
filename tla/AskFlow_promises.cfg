SPECIFICATION Spec
CONSTANTS
  Canned <- MCCanned
  Questions = {"why"}
  Params <- MCParams
  Replies <- MCReplies
  MaxCalls = 3
  MaxLoads = 1
  Losses = FALSE
  Nothing = Nothing
INVARIANTS
  NarrativeAnswersQuestion
  RawTotalsAreFlagged
  FanOutIsFlagged
