SPECIFICATION UpdateSpec
CONSTANTS
  N = 3
  Essential = {1, 3}
  Present = {1, 3}
  Old = Old
  good = good
  better = better
  cluttered = cluttered
  partial = partial
  broken = broken
  Releases <- MCReleases
  Holds <- MCHolds
  Cluttered = {cluttered}
  Fails <- MCFails
  MaxRuns = 3
  MaxReboots = 1
  MaxRestarts = 1
  Absent = Absent
INVARIANTS
  UpdateTypeOK
  UpdateBackupsRestore
  UpdateResultIsTrue
  UpdateHalfIsNotServed
CHECK_DEADLOCK FALSE
