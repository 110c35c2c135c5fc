SPECIFICATION FairSpec
CONSTANTS
  Queries = {q1, q2}
  WarmUp = WarmUp
  None = None
INVARIANTS
  TypeOK
PROPERTIES
  SnapshotIsFinal
  StatusFollowsDatabase
  QueryAnswered
