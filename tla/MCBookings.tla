----------------------------- MODULE MCBookings -----------------------------
(* Small instances of Bookings for TLC.                                    *)
EXTENDS Bookings, TLC

\* Providers, call slots and administrators are interchangeable; none of
\* the properties checked under it is a liveness property.
Symmetry == Permutations(Provider) \cup Permutations(Slot)
              \cup Permutations(ASlot)
=============================================================================
