\* A queued request is cancelled while dispatchPending hands it a core.
SPECIFICATION Spec
CONSTANTS
  s1 = s1
  s2 = s2
  s3 = s3
  r1 = r1
  SynthRequests = {s1, s2}
  ReadRequests = {}
  Cancellable = {s1, s2}
  NumWork = 1
  MaxReserve = 0
  MaxStarts = 0
  CloseAllowed = FALSE
INVARIANT NoLeakedCore
CHECK_DEADLOCK FALSE
