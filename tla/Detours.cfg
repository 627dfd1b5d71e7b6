SPECIFICATION FairDetourSpec
CONSTANTS
  Threads = {t1, t2}
  NoThread = NoThread
  MaxLoads = 2
INVARIANT HooksAsPublished
PROPERTY LoadEnds
