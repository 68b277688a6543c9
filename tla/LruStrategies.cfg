SPECIFICATION Spec
CONSTANTS
  NPrivate = 4
  NRw = 3
  Grain = 2
  MaxStamp = 7
  Procs = {p1, p2, p3}
  SharedDesps = {d1, d2, d3}
  NoDesp = NoDesp
  Nobody = Nobody
  Free = Free
  Listed = Listed
  MaxDeaths = 1
INVARIANTS ListsMatchCache CreatedOnce
PROPERTIES ImplementsLru IsEvictStrategy
SYMMETRY Symmetry
CHECK_DEADLOCK FALSE
