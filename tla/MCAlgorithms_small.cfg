\* Every pure part on all its small inputs.
SPECIFICATION Spec
CONSTANTS
  Vocab <- MCVocab
  Window = 3
  Halfwidth <- MCHalfwidth
  Ascii = {"a", "b", "A", ".", ",", "quote", " "}
  Latin1 = {"e'"}
  Cjk = {"zi"}
  Wide = {"zi", "jv", "wide."}
  SentenceEnd = {".", "jv"}
  ClauseSplit = {","}
  Closing = {"quote"}
  Upper <- MCUpper
  Alphanumeric = {"a", "b", "A"}
  ScanBack = 3
  RotBits = 2
  B = 16
  MultHi = 4
  MultLo = 5
  Shortest = 3
  WindowSamples = 2
  PaddingWindows = 1
  Texts <- MCTexts
  Passages <- MCPassages
  Limits = {1, 2, 3, 4, 5}
  Doubles <- MCDoubles
  Seeds <- MCSeeds
  Scores <- MCScores
  Nuclei <- MCNuclei
  Logits <- MCLogits
  Histories <- MCHistories
  Lines <- MCLines
  Waves <- MCWaves
INVARIANTS TokensSpellText ChunksKeepText GeneratorIsFull ChoiceFollowsScores SpansComeBack TrimKeepsVoice
CHECK_DEADLOCK FALSE
