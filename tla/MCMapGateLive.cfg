SPECIFICATION FairSpec
CONSTANTS
  Threads = {t1, t2}
  NoThread = NoThread
  Usages = {"map_read", "map_write", "plain"}
  Events = {"destroy", "release", "lose", "end_of_use", "poll_error", "error_buffer", "hal_error"}
  Ranges <- FewRanges
  MaxMaps = 1
  MaxWrites = 0
  MaxSubmits = 2
INVARIANT Backed
PROPERTY PendingEnds
