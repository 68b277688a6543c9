SPECIFICATION Spec
CONSTANTS
  Desps = {d1, d2, d3}
  Nil = Nil
  NZones = 3
  ZoneBlks = 2
  Cycle_Length = 3
  Grain = 2
  MaxStamp = 5
  MaxProgress = 7
  plus_Dirty_Threshold = 2
  Thresholds = {1, 2}
  plus_Clean_LowBound = 1
  plus_Clean_UpBound = 2
INVARIANTS ListsSound NeverLost
PROPERTIES ImplementsListOrder IsEvictStrategy NewPeriodTakesFullest DirtyOnlyByName EvictsOldestKnown WholeZoneLeaves
SYMMETRY Symmetry
CHECK_DEADLOCK FALSE
