\* A synthesis and a stream one at a time as the pool makes them; the worker may die, Close may come.
SPECIFICATION Spec
CONSTANTS
  i1 = i1
  u1 = u1
  u2 = u2
  t1 = t1
  Inline = {}
  Synth = {u1}
  Streams = {t1}
  Overriding = {u1}
  Cancellable = {u1, t1}
  Slow = {}
  StreamCap = 1
  OutCap = 1
  NetCap = 1
  MaxChunks = 2
  Exclusive = TRUE
  MayCrash = TRUE
  MayClose = TRUE
INVARIANTS TableExact StreamWhole AnsweredCallsKeepParameters
PROPERTIES ImplementsCall
CHECK_DEADLOCK FALSE
