SPECIFICATION FairSpec
CONSTANTS
  Booking = {b1}
  Provider = {p1}
  NoProvider = NoProvider
  Slot = {k1, k2}
  Mishaps = {"loss", "close", "signout"}
  Admin = {}
  ASlot = {j1}
  Filters = {"all"}
  Duties = {}
  AMishaps = {}
INVARIANTS
  FlagInv
  ClaimingIsOneFlow
PROPERTIES
  ClaimEnds
  LoadingEnds
