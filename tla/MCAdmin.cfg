SPECIFICATION FairSpec
CONSTANTS
  Booking = {b1}
  Provider = {p1}
  NoProvider = NoProvider
  Slot = {}
  Mishaps = {}
  Admin = {a1}
  ASlot = {j1, j2}
  Filters = {"all", "pending"}
  Duties = {"assign", "status"}
  AMishaps = {"loss", "close"}
INVARIANTS
  OwnershipMatchesStatus
  NoStuckSpinner
PROPERTIES
  LoadingEnds
