\* A ping beside a stream, and a worker that may die: which calls end.
SPECIFICATION FairSpec
CONSTANTS
  i1 = i1
  u1 = u1
  u2 = u2
  t1 = t1
  Inline = {i1}
  Synth = {}
  Streams = {t1}
  Overriding = {}
  Cancellable = {t1}
  Slow = {i1}
  StreamCap = 1
  OutCap = 1
  NetCap = 1
  MaxChunks = 3
  Exclusive = TRUE
  MayCrash = TRUE
  MayClose = FALSE
INVARIANTS ReaderNeverWaits
PROPERTIES UnaryEnds RegisteredEnds
CHECK_DEADLOCK FALSE
