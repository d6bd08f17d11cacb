\* Three model files; three failures, silent sources or crashes at any point; any number of restarts.
SPECIFICATION FairSpec
CONSTANTS
  lib = lib
  ff = ff
  manifest = manifest
  model = model
  codec = codec
  Lib = lib
  FFmpeg = ff
  TTSFiles <- MCTTSFiles
  CodecFiles <- MCCodecFiles
  Manifest = manifest
  UseMirror = TRUE
  MaxFaults = 3
INVARIANTS StartMends
PROPERTIES WholeStaysWhole StartEnds
