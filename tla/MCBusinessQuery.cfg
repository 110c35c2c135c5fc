CONSTANTS
  MaxDays = 2
  DefaultDays = 1
  Today = 1
  Tables <- MCTables
  GrainKeys <- MCGrainKeys
  DefaultGrain <- MCDefaultGrain
  Dated <- MCDated
  Timestamps <- MCTimestamps
  Relationships <- MCRelationships
  Metrics <- MCMetrics
  Rows <- MCRows
  WindowDays = 1
  NoGrain = NoGrain
  Star = Star
  Null = Null
  None = None
  Plans <- MCPlans
  CandidateSets <- MCCandidates
  Lookups <- MCLookups
SPECIFICATION Spec
CHECK_DEADLOCK FALSE
INVARIANTS
  TypeOK
  AcceptedRuns
  OnlyDetailMultiplies
  RangeIsBounded
  AnswerIsWhole
