SPECIFICATION SurfaceFairSpec
CONSTANTS
  LeaseTerm = 2
  MaxViews = 2
  MaxDraws = 3
INVARIANTS
  SurfaceInv
  DestroyIsFinal
  UnmergedWhenDestroyed
  LeaseMatchesQueues
  LatchOutlivesTasks
PROPERTIES
  CreatedComesBack
CHECK_DEADLOCK FALSE
