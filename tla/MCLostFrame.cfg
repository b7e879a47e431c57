SPECIFICATION FrameSpec
CONSTANTS
  platform = platform
  raster = raster
  Drawer = {platform, raster}
  Depth = 2
  MaxFrames = 3
INVARIANTS
  FramesAreConsumed
CHECK_DEADLOCK FALSE
