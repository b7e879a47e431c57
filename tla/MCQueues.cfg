SPECIFICATION QueueFairSpec
CONSTANTS
  platform = platform
  raster = raster
  ui = ui
  Queue = {platform, raster, ui}
  UiQueue = {ui}
  kUnmerged = kUnmerged
  MergePair <- Merges
  Delay = {0, 1}
  MaxTasks = 3
  MaxTime = 1
INVARIANTS
  QueueTypeOK
  MergesAreFlat
  NoLostWakeup
  PausedForVsync
PROPERTIES
  QueuesDrain
CHECK_DEADLOCK FALSE
