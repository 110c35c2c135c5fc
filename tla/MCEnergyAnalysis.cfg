SPECIFICATION Spec
CONSTANTS
  FirstDay = 2
  MaxDay = 3
  LoadDays = 2
  Hours <- Night
  Cells <- MCCells
  Calls <- MCCalls
  Unreadable = Unreadable
  None = None
INVARIANTS
  TypeOK
  ReportAgrees
  NegativesAreFacts
CHECK_DEADLOCK FALSE
