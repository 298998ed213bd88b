SPECIFICATION Live
CONSTANTS
  Threads = {t1, t2}
  Modes = {"process", "spontaneous"}
  Kinds = {"ready", "request", "refused", "map", "work_done"}
  MaxFutures = 2
  MaxSubmits = 1
  MaxRefs = 2
  MaxDepth = 1
INVARIANTS
  DeliveredOnce
  NothingStranded
  GateHonored
PROPERTIES
  EventuallySettled
  KeepsFutures
