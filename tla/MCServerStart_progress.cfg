\* Browsers join and leave during the start; a stage may fail; the process may be stopped.
SPECIFICATION FairSpec
CONSTANTS
  b1 = b1
  b2 = b2
  Subs = {b1}
  Cap = 1
  MaxReports = 1
  MaxDrops = 1
  MayClose = TRUE
INVARIANTS EventsArrive PoolAsTold
PROPERTY StreamEnds
CHECK_DEADLOCK FALSE
