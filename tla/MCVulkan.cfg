SPECIFICATION Spec
CONSTANTS
  Threads = {t1, t2}
  NoThread = NoThread
  Fences = {f1, f2, f3}
  Pools = {p1, p2, p3}
  None = None
  Layouts = {"used"}
  Images = {0}
  MaxInFlight = 1
  MaxRecycled = 1
  RingSize = 1
  Ops = {"submit", "submit_empty", "wait", "poll", "wait_idle"}
  Faults = {"create", "encode", "submit", "query", "flush", "transition", "present"}
  SubmitsDuringConfigure = FALSE
  MaxCalls = 2
  MaxAcquires = 3
  MaxTotal = 4
  MaxFaults = 1
INVARIANTS
  FencesIntact
  ResourcesHeld
  NothingLeaks
  LayoutsChain
  SemaphoresAlternate
  PresentedReturns
PROPERTIES
  ImplementsTimeline

SYMMETRY Symmetry
