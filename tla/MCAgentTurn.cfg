SPECIFICATION FairSpec
CONSTANTS
  A = A
  B = B
  district = district
  cgi = cgi
  vendor = vendor
  level = level
  Cities = {A, B}
  Counties = {district}
  Cells = {cgi}
  Vendors = {vendor}
  Levels = {level}
  Conservative = level
  Home = Home
  All = All
  None = None
  Texts <- MCTexts
  Histories <- MCHistories
  Proposals <- MCProposals
  Budget = 1
  MaxSteps = 2
  MaxCalls = 2
  MaxTurns = 2
INVARIANTS
  TypeOK
  AnswerHasEvidence
  WaitIsBounded
  TaskIsCarriedOver
PROPERTY TurnsEnd
CHECK_DEADLOCK FALSE
