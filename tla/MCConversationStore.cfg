SPECIFICATION FairSpec
CONSTANTS
  Cids = {c1}
  Users = {u1, u2}
  Requests = {p1, p2, p3}
  Legacy = Legacy
  NoRow = NoRow
  Free = Free
INVARIANTS
  TypeOK
  TurnsAreSerial
  MemoryMatchesTranscript
  OutcomesHold
  AnsweredFromOwnTurns
PROPERTIES
  ImplementsLedger
  StoreAnswers
CHECK_DEADLOCK FALSE
