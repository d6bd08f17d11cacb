\* Progress, without cancellation and Close.
SPECIFICATION FairSpec
CONSTANTS
  s1 = s1
  s2 = s2
  s3 = s3
  r1 = r1
  SynthRequests = {s1, s2, s3}
  ReadRequests = {}
  Cancellable = {}
  NumWork = 1
  MaxReserve = 1
  MaxStarts = 1
  CloseAllowed = FALSE
PROPERTIES AcquireReturns QueuedIsServed
CHECK_DEADLOCK FALSE
