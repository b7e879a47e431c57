SPECIFICATION FrameFairSpec
CONSTANTS
  platform = platform
  raster = raster
  Drawer = {platform, raster}
  Depth = 2
  MaxFrames = 3
INVARIANTS
  FrameTypeOK
  PlacesConserved
  FramesSignalled
  OneRequest
  VsyncIsAsked
  FramesAreAnnounced
PROPERTIES
  ImplementsFrameLine
  RequestsAreServed
  QueueIsDrawn
CHECK_DEADLOCK FALSE
