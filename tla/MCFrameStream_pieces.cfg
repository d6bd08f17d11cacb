\* Three pieces, streamed or not; an inference may fail, the task may be cancelled.
SPECIFICATION FairSpec
CONSTANTS
  f1 = f1
  f2 = f2
  Codes = {f1, f2}
  Pieces = 3
  MaxNewFrames = 2
  RunThreshold = 2
  ValleyWindow = 1
  ContextFrames = 1
  FirstBudget = 1
  Budgets = {1, 2}
  BatchSize = 1
  Capacity = 1
  MaxFaults = 1
  MayCancel = TRUE
INVARIANTS StateCarriesOn ContextIsLastSpoken
PROPERTIES SynthesisEnds ImplementsSpeech
CHECK_DEADLOCK FALSE
