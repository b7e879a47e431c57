SPECIFICATION SurfaceSpec
CONSTANTS
  LeaseTerm = 2
  MaxViews = 2
  MaxDraws = 3
INVARIANTS NeverWaitsForItself
CHECK_DEADLOCK FALSE
