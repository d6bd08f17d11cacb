\* Two requests and a reader compete for one resident and one reserve core;
\* contexts are cancelled, the monitor runs, the pool may be closed.
SPECIFICATION Spec
CONSTANTS
  s1 = s1
  s2 = s2
  s3 = s3
  r1 = r1
  SynthRequests = {s1, s2}
  ReadRequests = {r1}
  Cancellable = {s1, s2}
  NumWork = 1
  MaxReserve = 1
  MaxStarts = 2
  CloseAllowed = TRUE
SYMMETRY Symmetry
INVARIANTS ExclusiveLease CountIsLease ReserveBound QueueConsistent
PROPERTY ImplementsLease
CHECK_DEADLOCK FALSE
