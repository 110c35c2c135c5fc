SPECIFICATION Spec
CONSTANTS
  Cids = {c1, c2}
  Messages = {m1, m2}
  Slots = {s1, s2}
  None = None
SYMMETRY PageSymmetry
INVARIANT ShowsActive
CHECK_DEADLOCK FALSE
