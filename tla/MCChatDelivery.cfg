SPECIFICATION FairSpec
CONSTANTS
  Tools = {t1, t2}
  MaxText = 3
INVARIANTS
  TypeOK
  EnvelopeIsTrue
  StreamIsTrue
PROPERTY HearsTheOutcome
CHECK_DEADLOCK FALSE
