SPECIFICATION StorageSpec
CONSTANTS
  Calls = {1, 2, 3}
  Scenarios <- Together
  MaxKills = 1
  Group = 4
  NarrowBytes = 2
  WideBytes = 3
  Tenth = 4
  Step = 3
  Single = 2
  ChunkBytes = 6
  MinDeflated = 8
  Bundles <- MCBundles
  CutBundles <- Plain
\* The calls are finite: the system rests once all have ended.
CHECK_DEADLOCK FALSE
INVARIANTS DatasetComplete LoadsHold UpdatesAccumulate FilesRoundTrip
PROPERTY PruneIsExact
