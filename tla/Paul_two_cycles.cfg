SPECIFICATION HistorySpec
CONSTANTS
  Desps = {d1, d2}
  NZones = 2
  ZoneBlks = 2
  Cycle_Length = 2
  Grain = 2
  MaxStamp = 7
PROPERTIES TwoCyclesInactive
CHECK_DEADLOCK FALSE
