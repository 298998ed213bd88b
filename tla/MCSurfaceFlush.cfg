SPECIFICATION Spec
CONSTANTS
  Threads = {t1, t2}
  NoThread = NoThread
  Fences = {f1, f2}
  Pools = {p1, p2}
  None = None
  Layouts = {"used"}
  Images = {0, 1}
  MaxInFlight = 1
  MaxRecycled = 1
  RingSize = 1
  Ops = {"submit"}
  Faults = {"flush"}
  SubmitsDuringConfigure = FALSE
  MaxCalls = 1
  MaxAcquires = 3
  MaxTotal = 4
  MaxFaults = 1
INVARIANTS
  AcquireReturns
