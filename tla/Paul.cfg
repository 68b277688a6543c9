SPECIFICATION Spec
CONSTANTS
  Desps = {d1, d2, d3}
  NZones = 3
  ZoneBlks = 2
  Cycle_Length = 4
  Grain = 2
  MaxStamp = 7
INVARIANTS ListsMatchFlags CycleEnds
PROPERTIES ColdestZonesOpen OldestOfOpenZones IsEvictStrategy
SYMMETRY Symmetry
CHECK_DEADLOCK FALSE
