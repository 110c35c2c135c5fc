SPECIFICATION FairSpec
CONSTANTS
  Cids = {c1, c2}
  Messages = {m1, m2}
  Slots = {s1}
  None = None
INVARIANTS
  TypeOK
PROPERTIES
  StreamNeverSwitches
  MessagesArrive
CHECK_DEADLOCK FALSE
