SPECIFICATION Spec
CONSTANTS
  Booking = {b1}
  Provider = {p1}
  NoProvider = NoProvider
  Slot = {k1}
  Mishaps = {"loss"}
  Admin = {a1}
  ASlot = {j1}
  Filters = {"all"}
  Duties = {"assign", "status", "verify"}
  AMishaps = {"loss"}
SYMMETRY Symmetry
INVARIANTS
  IInv
  OnlyOnceVerifiedClaim
  RefusalIsFinal
PROPERTIES
  CancelledStaysCancelled
