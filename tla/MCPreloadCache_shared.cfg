\* Two processes share the directory; one file cannot be written or one process dies.
SPECIFICATION Spec
CONSTANTS
  w1 = w1
  w2 = w2
  r1 = r1
  r2 = r2
  r3 = r3
  i1 = i1
  i2 = i2
  i3 = i3
  p1 = p1
  p2 = p2
  Workers = {w1, w2}
  Requests = {r1, r2, r3}
  Ids = {i1, i2, i3}
  Paths = {p1, p2}
  Asks <- MCAsks
  Kept <- MCKept
  MaxInMemory = 2
  MaxFaults = 1
SYMMETRY Symmetry
INVARIANTS OrderIsRecency OwnVoice TornByFaultOnly
CHECK_DEADLOCK FALSE
