SPECIFICATION AreaSpec
CONSTANTS
  FirstDay = 2
  MaxDay = 3
  LoadDays = 2
  a = a
  b = b
  city = city
  town = town
  all = all
  Hours = {22, 23}
  Areas = {city, town, all}
  Wildcards = {all}
  AreaCells <- MCCells
  AreaCalls <- MCCalls
  Unreadable = Unreadable
  None = None
INVARIANTS
  AreaTypeOK
  AreaOverviewIsTrue
CHECK_DEADLOCK FALSE
