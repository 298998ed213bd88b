SPECIFICATION Spec
CONSTANTS
  Threads = {t1, t2}
  NoThread = NoThread
  Kinds = {"internal", "validation"}
  Modes = {"spontaneous", "process"}
  Ops = {"push", "pop", "error", "destroy", "release", "add_ref", "submit", "process", "get_future"}
  CallbackOps = {"push", "pop", "error", "destroy", "release", "add_ref", "submit", "process", "get_future"}
  MaxScopes = 2
  MaxCalls = 4
  MaxDepth = 3
INVARIANTS
  ErrorCallbackSilenced
  LossSettled
  ScopesTrue
  NoDeadlock
