SPECIFICATION Spec
CONSTANTS
  Booking = {b1}
  Provider = {p1, p2}
  NoProvider = NoProvider
  Slot = {k1}
  Mishaps = {"close"}
  Admin = {a1}
  ASlot = {j1}
  Filters = {"all"}
  Duties = {"assign"}
  AMishaps = {}
SYMMETRY Symmetry
INVARIANTS
  FirstClaimWins
  ClaimantKeepsJob
  WriterHoldsRow
PROPERTIES
  ImplementsJobBoard
