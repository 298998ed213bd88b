SPECIFICATION Reentrant
CONSTANTS
  Threads = {t1}
  Modes = {"wait_any", "process", "spontaneous"}
  Kinds = {"request", "map", "work_done"}
  MaxFutures = 3
  MaxSubmits = 1
  MaxRefs = 1
  MaxDepth = 2
INVARIANTS
  FutureObservable
PROPERTIES
  CallbackOrder
  NoResurrection
  ImplementsFutures
