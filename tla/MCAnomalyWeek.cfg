SPECIFICATION Spec
CONSTANTS
  FirstDay = 1
  Yesterday = 5
  Lookback = 2
  city = city
  county = county
  all = all
  Cities = {city, all}
  Rests = {county, all}
  Whole = all
  Contents <- UniqueContents
  Calls <- MCCalls
  None = None
INVARIANT
  BaselineIsAWeek
CHECK_DEADLOCK FALSE
