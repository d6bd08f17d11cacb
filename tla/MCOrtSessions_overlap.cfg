\* A unary and a streaming task, in any order and at the same time; loading may fail.
SPECIFICATION Spec
CONSTANTS
  u1 = u1
  u2 = u2
  t1 = t1
  Synth = {u1}
  Streams = {t1}
  MaxSets = 4
INVARIANTS GenerationProtected NothingStaleAlone PhasesApart NoPanicAlone
CHECK_DEADLOCK FALSE
