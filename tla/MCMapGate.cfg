SPECIFICATION Spec
SYMMETRY Symmetry
CONSTANTS
  Threads = {t1, t2}
  NoThread = NoThread
  Usages = {"map_read", "map_write"}
  Events = {"hal_error"}
  Ranges = {}
  MaxMaps = 2
  MaxWrites = 1
  MaxSubmits = 3
INVARIANTS
  MappedIsIdle
  UpToDate
  OutcomeTrue
  OnlyOwnAbort
