---------------------------- MODULE StoreProofs -----------------------------
(***************************************************************************)
(* Lemmas about the two tables: which statements reach them (StoreStep),   *)
(* that StoreInv survives each of them, and that the facts a page relies   *)
(* on after it has read them never go back (Settled).                      *)
(***************************************************************************)
EXTENDS Bookings, TLAPS

\* The statements that reach the tables.
StoreStep ==
    \/ \E b \in Booking : InsertBooking(b)
    \/ \E p \in Provider : InsertProfile(p)
    \/ \E b \in Booking, p \in everVerified : Exists(b) /\ UpdateClaim(b, p)
    \/ \E b \in Booking, p \in Provider, s \in Status \ {"pending"} :
          UpdateOwnStatus(b, p, s)
    \/ \E b \in Booking, p \in Provider : UpdateAssign(b, p)
    \/ \E b \in Booking, s \in Status \ {"pending"} :
          /\ s # "cancelled" => bookings[b].provider # NoProvider
          /\ UpdateAnyStatus(b, s)
    \/ \E p \in Provider, v \in BOOLEAN : UpdateVerified(p, v)
    \/ UNCHANGED store

\* What was true of the tables and stays true.
Settled ==
    /\ \A b \in Booking :
        /\ bookings[b].provider # NoProvider => bookings'[b].provider # NoProvider
        /\ Exists(b) => Exists(b)'
        /\ Exists(b) /\ ~IsOpen(b) => ~IsOpen(b)'
    /\ everVerified \subseteq everVerified'

-----------------------------------------------------------------------------
(* The tables.                                                             *)

\* A step that leaves every row but that of b alone and keeps the promises at
\* b: what the four UPDATEs of bookings have in common.
LEMMA OneRow ==
    ASSUME StoreInv, NEW b \in Booking, Exists(b), StoreTypeOK',
           UNCHANGED <<profile, everVerified>>,
           \A x \in Booking \ {b} : bookings'[x] = bookings[x],
           \A x \in Booking \ {b} : claimed'[x] = claimed[x],
           \A x \in Booking \ {b} : writer'[x] = writer[x],
           assigned \subseteq assigned', assigned' \subseteq assigned \cup {b},
           bookings'[b].status \in Status \ {"pending"},
           bookings[b].provider # NoProvider => bookings'[b].provider # NoProvider,
           bookings'[b].provider = NoProvider => bookings'[b].status = "cancelled",
           writer'[b] \in {NoProvider, bookings'[b].provider},
           \/ /\ claimed'[b] = claimed[b]
              /\ \/ bookings'[b].provider = bookings[b].provider
                 \/ b \in assigned' /\ bookings'[b].provider # NoProvider
           \/ /\ claimed'[b] = {bookings'[b].provider}
              /\ bookings'[b].provider \in everVerified
    PROVE  StoreInv' /\ Settled
<1> USE NoProviderAssumption
<1>1. everVerified \subseteq Provider
  BY DEF StoreInv, StoreTypeOK
<1>2. RowsOK'
  <2> SUFFICES ASSUME NEW x \in Booking
               PROVE  /\ bookings'[x].status = "pending" => bookings'[x].provider = NoProvider
                      /\ bookings'[x].provider = NoProvider =>
                            bookings'[x].status \in {Absent, "pending", "cancelled"}
                      /\ bookings'[x].status = Absent => bookings'[x].provider = NoProvider
                      /\ claimed'[x] # {} => bookings'[x].provider # NoProvider
    BY DEF RowsOK, OwnershipMatchesStatus
  <2>1. CASE x = b
    BY <2>1, <1>1 DEF StoreInv, RowsOK, Status, Absent
  <2>2. CASE x # b
    BY <2>2 DEF StoreInv, RowsOK, OwnershipMatchesStatus
  <2> QED
    BY <2>1, <2>2
<1>3. FirstClaimWins'
  BY DEF StoreInv, FirstClaimWins
<1>4. ClaimantKeepsJob'
  BY DEF StoreInv, ClaimantKeepsJob
<1>5. WriterHoldsRow'
  BY DEF StoreInv, WriterHoldsRow
<1>6. OnlyOnceVerifiedClaim'
  BY DEF StoreInv, OnlyOnceVerifiedClaim
<1>7. \A p \in Provider : profile'[p] = "verified" => p \in everVerified'
  BY DEF StoreInv
<1>8. Settled
  BY DEF Settled, Exists, IsOpen, Status, Absent
<1> QED
  BY <1>2, <1>3, <1>4, <1>5, <1>6, <1>7, <1>8 DEF StoreInv

LEMMA StoreInvStep == StoreInv /\ StoreStep => StoreInv' /\ Settled
<1> SUFFICES ASSUME StoreInv, StoreStep PROVE StoreInv' /\ Settled
  OBVIOUS
<1> USE NoProviderAssumption
<1>0. CASE UNCHANGED store
  BY <1>0 DEF StoreInv, StoreTypeOK, RowsOK, OwnershipMatchesStatus,
              FirstClaimWins, ClaimantKeepsJob, WriterHoldsRow,
              OnlyOnceVerifiedClaim, Settled, Exists, IsOpen, store
<1>1. ASSUME NEW b \in Booking, InsertBooking(b) PROVE StoreInv' /\ Settled
  BY <1>1
  DEF InsertBooking, StoreInv, StoreTypeOK, RowsOK, OwnershipMatchesStatus,
      FirstClaimWins, ClaimantKeepsJob, WriterHoldsRow, OnlyOnceVerifiedClaim,
      Settled, Exists, IsOpen, Row, Status, Absent, history
<1>2. ASSUME NEW p \in Provider, InsertProfile(p) PROVE StoreInv' /\ Settled
  BY <1>2
  DEF InsertProfile, StoreInv, StoreTypeOK, RowsOK, OwnershipMatchesStatus,
      FirstClaimWins, ClaimantKeepsJob, WriterHoldsRow, OnlyOnceVerifiedClaim,
      Settled, Exists, IsOpen, Profile, history
<1>3. ASSUME NEW b \in Booking, NEW p \in everVerified, Exists(b),
             UpdateClaim(b, p)
      PROVE  StoreInv' /\ Settled
  <2>1. CASE ~ClaimMatches(b, p)
    BY <1>0, <1>3, <2>1 DEF UpdateClaim, store
  <2>2. CASE ClaimMatches(b, p)
    <3>1. p \in Provider /\ claimed[b] = {} /\ bookings[b].provider = NoProvider
      BY <2>2 DEF ClaimMatches, IsOpen, StoreInv, StoreTypeOK, RowsOK
    <3>2. StoreTypeOK'
      BY <1>3, <2>2, <3>1
      DEF UpdateClaim, StoreInv, StoreTypeOK, Row, Status
    <3>3. /\ bookings'[b] = [status |-> "assigned", provider |-> p]
          /\ claimed'[b] = {p} /\ writer'[b] = p
          /\ \A x \in Booking \ {b} : /\ bookings'[x] = bookings[x]
                                      /\ claimed'[x] = claimed[x]
                                      /\ writer'[x] = writer[x]
          /\ UNCHANGED <<profile, assigned, everVerified>>
      BY <1>3, <2>2, <3>1 DEF UpdateClaim, StoreInv, StoreTypeOK
    <3>4. "assigned" \in Status \ {"pending"}
      BY DEF Status
    <3> QED
      BY <1>3, <3>1, <3>2, <3>3, <3>4, OneRow
  <2> QED
    BY <2>1, <2>2
<1>4. ASSUME NEW b \in Booking, NEW p \in Provider,
             NEW s \in Status \ {"pending"}, UpdateOwnStatus(b, p, s)
      PROVE  StoreInv' /\ Settled
  <2>1. CASE ~OwnMatches(b, p)
    BY <1>0, <1>4, <2>1 DEF UpdateOwnStatus, store
  <2>2. CASE OwnMatches(b, p)
    <3>1. bookings[b].provider = p /\ p # NoProvider /\ Exists(b)
      BY <2>2 DEF OwnMatches, StoreInv, RowsOK, Exists
    <3>2. StoreTypeOK'
      BY <1>4, <2>2 DEF UpdateOwnStatus, StoreInv, StoreTypeOK, Row
    <3>3. /\ bookings'[b].status = s /\ bookings'[b].provider = p
          /\ writer'[b] = p
          /\ \A x \in Booking \ {b} : /\ bookings'[x] = bookings[x]
                                      /\ writer'[x] = writer[x]
          /\ UNCHANGED <<profile, claimed, assigned, everVerified>>
      BY <1>4, <2>2, <3>1 DEF UpdateOwnStatus, StoreInv, StoreTypeOK, Row
    <3> QED
      BY <1>4, <3>1, <3>2, <3>3, OneRow
  <2> QED
    BY <2>1, <2>2
<1>5. ASSUME NEW b \in Booking, NEW p \in Provider, UpdateAssign(b, p)
      PROVE  StoreInv' /\ Settled
  <2>1. CASE ~Exists(b)
    BY <1>0, <1>5, <2>1 DEF UpdateAssign, Exists, store
  <2>2. CASE Exists(b)
    <3>1. StoreTypeOK'
      BY <1>5, <2>2 DEF UpdateAssign, Exists, StoreInv, StoreTypeOK, Row, Status
    <3>2. /\ bookings'[b] = [status |-> "assigned", provider |-> p]
          /\ writer'[b] = NoProvider
          /\ \A x \in Booking \ {b} : /\ bookings'[x] = bookings[x]
                                      /\ writer'[x] = writer[x]
          /\ assigned' = assigned \cup {b}
          /\ UNCHANGED <<profile, claimed, everVerified>>
      BY <1>5, <2>2 DEF UpdateAssign, Exists, StoreInv, StoreTypeOK
    <3>3. "assigned" \in Status \ {"pending"} /\ p # NoProvider
      BY DEF Status
    <3> QED
      BY <2>2, <3>1, <3>2, <3>3, OneRow
  <2> QED
    BY <2>1, <2>2
<1>6. ASSUME NEW b \in Booking, NEW s \in Status \ {"pending"},
             s # "cancelled" => bookings[b].provider # NoProvider,
             UpdateAnyStatus(b, s)
      PROVE  StoreInv' /\ Settled
  <2>1. CASE ~Exists(b)
    BY <1>0, <1>6, <2>1 DEF UpdateAnyStatus, Exists, store
  <2>2. CASE Exists(b)
    <3>1. StoreTypeOK'
      BY <1>6, <2>2 DEF UpdateAnyStatus, Exists, StoreInv, StoreTypeOK, Row
    <3>2. /\ bookings'[b].status = s
          /\ bookings'[b].provider = bookings[b].provider
          /\ writer'[b] = NoProvider
          /\ \A x \in Booking \ {b} : /\ bookings'[x] = bookings[x]
                                      /\ writer'[x] = writer[x]
          /\ UNCHANGED <<profile, claimed, assigned, everVerified>>
      BY <1>6, <2>2 DEF UpdateAnyStatus, Exists, StoreInv, StoreTypeOK, Row
    <3> QED
      BY <1>6, <2>2, <3>1, <3>2, OneRow
  <2> QED
    BY <2>1, <2>2
<1>7. ASSUME NEW p \in Provider, NEW v \in BOOLEAN, UpdateVerified(p, v)
      PROVE  StoreInv' /\ Settled
  BY <1>7
  DEF UpdateVerified, StoreInv, StoreTypeOK, RowsOK, OwnershipMatchesStatus,
      FirstClaimWins, ClaimantKeepsJob, WriterHoldsRow, OnlyOnceVerifiedClaim,
      Settled, Exists, IsOpen, Profile
<1> QED
  BY <1>0, <1>1, <1>2, <1>3, <1>4, <1>5, <1>6, <1>7 DEF StoreStep
=============================================================================
