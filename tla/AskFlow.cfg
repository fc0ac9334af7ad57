SPECIFICATION Spec
CONSTANTS
  Canned <- MCCanned
  Questions = {"why"}
  Params <- MCParams
  Replies <- MCReplies
  MaxCalls = 3
  MaxLoads = 1
  Losses = TRUE
  Nothing = Nothing
INVARIANTS
  NarrativeIsOfRows
  AnswersAreVetted
  OneQuestionAsked
PROPERTIES
  AskReturns
