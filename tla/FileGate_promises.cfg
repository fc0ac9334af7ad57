SPECIFICATION Spec
CHECK_DEADLOCK FALSE
CONSTANTS
  RowCount = 2
  Old = Old
  Files <- MCFiles
INVARIANTS
  DoorAgreesWithGate
  MissingValueIsGated
  SentinelsAreNulls
  PanelAgreesWithGate
