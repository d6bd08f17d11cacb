\* Three encodings on two processes with one directory; a crash or a failed write.
SPECIFICATION FairSpec
CONSTANTS
  w1 = w1
  w2 = w2
  r1 = r1
  r2 = r2
  r3 = r3
  k1 = k1
  k2 = k2
  Workers = {w1, w2}
  Requests = {r1, r2, r3}
  Keys = {k1}
  Skipping = {r3}
  MaxFaults = 1
INVARIANTS DamageByFaultOnly LoneWriterStores
PROPERTY ExpiredGoes
CHECK_DEADLOCK FALSE
