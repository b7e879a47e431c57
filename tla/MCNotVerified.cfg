SPECIFICATION Spec
CONSTANTS
  Booking = {b1}
  Provider = {p1}
  NoProvider = NoProvider
  Slot = {k1}
  Mishaps = {}
  Admin = {a1}
  ASlot = {j1}
  Filters = {"all"}
  Duties = {"verify"}
  AMishaps = {}
PROPERTIES
  NotVerifiedPageClaimsNothing
