--------------------------- MODULE BookingsProofs ---------------------------
(***************************************************************************)
(* Theorems about Bookings, for any sets of bookings, providers,           *)
(* administrators, call slots, filters and mishaps: the inductive          *)
(* invariant IInv and the safety properties that follow from it.           *)
(*                                                                         *)
(* The argument has three layers.  StoreProofs: StoreInv is preserved by   *)
(* every statement that can reach the tables, and what a page may rely on  *)
(* never goes back.  PageProofs: what the pages know and send keeps        *)
(* AdminInv and PortalInv, and makes each of their steps one of those      *)
(* statements.  Here: the three together.                                  *)
(***************************************************************************)
EXTENDS PageProofs

LEMMA InitIInv == Init => IInv
<1> SUFFICES ASSUME Init PROVE IInv
  OBVIOUS
<1>1. StoreInv
  BY NoProviderAssumption
  DEF Init, StoreInit, StoreInv, StoreTypeOK, RowsOK, OwnershipMatchesStatus,
      FirstClaimWins, ClaimantKeepsJob, WriterHoldsRow, OnlyOnceVerifiedClaim,
      NoRow, Row, Status, Absent, Profile
<1>2. AdminInv
  <2>1. AdminPagesOK(admin)
    BY AdminBlank DEF Init, AdminInit, AdminPagesOK, AClosed
  <2>2. AdminCallsOK(acall)
    BY AdminBlank DEF Init, AdminInit, AdminCallsOK
  <2> QED
    BY <2>1, <2>2, AdminParts
<1>3. PortalInv
  <2>1. PagesOK(portal)
    BY BlankOK DEF Init, PortalInit, PagesOK, PageOK
  <2>2. CallsOK(call)
    BY BlankOK DEF Init, PortalInit, CallsOK, CallOK
  <2>3. RefusedOK(refused)
    BY DEF Init, PortalInit, RefusedOK
  <2> QED
    BY <2>1, <2>2, <2>3, PortalParts
<1> QED
  BY <1>1, <1>2, <1>3 DEF IInv

\* Every step reaches the tables by one of the statements of StoreStep.
LEMMA NextIInv == IInv /\ [Next]_vars => IInv' /\ StoreStep
<1> SUFFICES ASSUME IInv, [Next]_vars PROVE IInv' /\ StoreStep
  OBVIOUS
<1>0. /\ StoreInv /\ AdminInv /\ PortalInv
      /\ AdminPagesOK(admin) /\ AdminCallsOK(acall)
      /\ PagesOK(portal) /\ CallsOK(call) /\ RefusedOK(refused)
  BY AdminParts, PortalParts DEF IInv
<1>1. /\ AdminPagesOK(admin') /\ AdminCallsOK(acall')
      /\ PagesOK(portal') /\ CallsOK(call') /\ RefusedOK(refused')
      /\ StoreStep
  <2>1. ASSUME NEW b \in Booking, SubmitBooking(b)
        PROVE  StoreStep /\ UNCHANGED <<portalVars, adminVars>>
    BY <2>1 DEF SubmitBooking, StoreStep
  <2>2. ASSUME NEW p \in Provider, SubmitApplication(p)
        PROVE  StoreStep /\ UNCHANGED <<portalVars, adminVars>>
    BY <2>2 DEF SubmitApplication, StoreStep
  <2>3. CASE UNCHANGED vars
    BY <1>0, <2>3 DEF vars, portalVars, adminVars, StoreStep
  <2>4. CASE PortalNext /\ UNCHANGED adminVars
    BY <1>0, <2>4, PortalStep DEF adminVars
  <2>5. CASE AdminNext /\ UNCHANGED portalVars
    BY <1>0, <2>5, AdminStep DEF portalVars
  <2>6. ASSUME StoreStep, UNCHANGED <<portalVars, adminVars>>
        PROVE  /\ AdminPagesOK(admin') /\ AdminCallsOK(acall')
               /\ PagesOK(portal') /\ CallsOK(call') /\ RefusedOK(refused')
    BY <1>0, <2>6 DEF portalVars, adminVars
  <2> QED
    BY <2>1, <2>2, <2>3, <2>4, <2>5, <2>6 DEF Next
<1>2. StoreInv' /\ Settled
  BY <1>0, <1>1, StoreInvStep
<1> QED
  BY <1>1, <1>2, AdminSettles, PortalSettles DEF IInv

\* The inductive invariant: what is known of the tables, of every list shown,
\* and of every request and answer under way, whatever the interleaving.
THEOREM Invariance == Spec => []IInv
<1>1. Init => IInv
  BY InitIInv
<1>2. IInv /\ [Next]_vars => IInv'
  BY NextIInv
<1> QED
  BY <1>1, <1>2, PTL DEF Spec

\* Every variable of the tables, the pages and the calls keeps its type.
THEOREM Typing == Spec => []TypeOK
<1>1. IInv => TypeOK
  BY DEF IInv, StoreInv, AdminInv, PortalInv, TypeOK
<1> QED
  BY <1>1, Invariance, PTL

\* A claim is returned to one provider at most, over all the portals that
\* show the job as open and send a claim.
THEOREM OneWinner == Spec => []FirstClaimWins
<1>1. IInv => FirstClaimWins
  BY DEF IInv, StoreInv
<1> QED
  BY <1>1, Invariance, PTL

\* Its winner holds the job until an administrator assigns it.
THEOREM WinnerHolds == Spec => []ClaimantKeepsJob
<1>1. IInv => ClaimantKeepsJob
  BY DEF IInv, StoreInv
<1> QED
  BY <1>1, Invariance, PTL

\* The last provider to write a row holds it.
THEOREM OwnersWrite == Spec => []WriterHoldsRow
<1>1. IInv => WriterHoldsRow
  BY DEF IInv, StoreInv
<1> QED
  BY <1>1, Invariance, PTL

\* Pending and unassigned go together, though the administrator's buttons
\* are decided by rows read any number of steps ago.
THEOREM StatusAgrees == Spec => []OwnershipMatchesStatus
<1>1. IInv => OwnershipMatchesStatus
  BY DEF IInv, StoreInv, RowsOK
<1> QED
  BY <1>1, Invariance, PTL

\* No provider claims without having been verified once.
THEOREM VerifiedClaims == Spec => []OnlyOnceVerifiedClaim
<1>1. IInv => OnlyOnceVerifiedClaim
  BY DEF IInv, StoreInv
<1> QED
  BY <1>1, Invariance, PTL

\* A job once refused to a provider never becomes open again.
THEOREM FinalRefusals == Spec => []RefusalIsFinal
<1>1. IInv => RefusalIsFinal
  BY DEF IInv, PortalInv, PortalSees, RefusalIsFinal
<1> QED
  BY <1>1, Invariance, PTL

-----------------------------------------------------------------------------
(* Action properties and the refinement of JobBoard: one step of the        *)
(* tables at a time.                                                        *)

\* Only an assignment changes a row cancelled while nobody held it.
THEOREM Cancelled == Spec => CancelledStaysCancelled
<1> DEFINE Kept == \A b \in Booking :
               bookings[b] = [status |-> "cancelled", provider |-> NoProvider]
               /\ bookings'[b] # bookings[b]  =>  b \in assigned'
<1>1. ASSUME IInv, [Next]_vars PROVE Kept
  <2>1. StoreInv /\ StoreStep
    BY <1>1, NextIInv DEF IInv
  <2> SUFFICES ASSUME NEW x \in Booking,
                      bookings[x] = [status |-> "cancelled", provider |-> NoProvider],
                      bookings'[x] # bookings[x]
               PROVE  x \in assigned'
    OBVIOUS
  <2>2. /\ bookings \in [Booking -> Row] /\ everVerified \subseteq Provider
        /\ bookings[x].status = "cancelled" /\ bookings[x].provider = NoProvider
    BY <2>1 DEF StoreInv, StoreTypeOK
  <2>3. ~\E b \in Booking : InsertBooking(b)
    BY <2>2 DEF InsertBooking, Absent
  <2>4. ~\E p \in Provider : InsertProfile(p)
    BY DEF InsertProfile
  <2>5. ~\E b \in Booking, p \in everVerified : Exists(b) /\ UpdateClaim(b, p)
    BY <2>2 DEF UpdateClaim, ClaimMatches, IsOpen
  <2>6. ~\E b \in Booking, p \in Provider, s \in Status \ {"pending"} :
            UpdateOwnStatus(b, p, s)
    BY <2>2, NoProviderAssumption DEF UpdateOwnStatus, OwnMatches
  <2>7. ASSUME NEW b \in Booking, NEW p \in Provider, UpdateAssign(b, p)
        PROVE  x \in assigned'
    BY <2>2, <2>7 DEF UpdateAssign
  <2>8. ~\E b \in Booking, s \in Status \ {"pending"} :
            /\ s # "cancelled" => bookings[b].provider # NoProvider
            /\ UpdateAnyStatus(b, s)
    BY <2>2 DEF UpdateAnyStatus, Row
  <2>9. ~\E p \in Provider, v \in BOOLEAN : UpdateVerified(p, v)
    BY DEF UpdateVerified
  <2> QED
    BY <2>1, <2>3, <2>4, <2>5, <2>6, <2>7, <2>8, <2>9 DEF StoreStep, store
<1>2. ASSUME IInv, [Next]_vars PROVE [Kept]_vars
  BY <1>1, <1>2
<1> QED
  BY <1>2, Invariance, PTL DEF Spec, CancelledStaysCancelled

\* Seen from the board, every behaviour of the system is one where a job is
\* taken in one indivisible step.
THEOREM Refinement == Spec => ImplementsJobBoard
<1> DEFINE ph == [b \in Booking |-> PhaseOf(b)]
           ho == [b \in Booking |-> bookings[b].provider]
<1>1. Init => Board!BoardInit
  BY DEF Init, StoreInit, Board!BoardInit, PhaseOf, NoRow, Absent
<1>2. ASSUME IInv, [Next]_vars PROVE [Board!BoardNext]_(Board!boardVars)
  <2>1. StoreInv /\ StoreInv' /\ StoreStep
    BY <1>2, NextIInv DEF IInv
  <2> DEFINE Still == ph' = ph /\ ho' = ho /\ claimed' = claimed
             Moved(b, to) == ph' = [ph EXCEPT ![b] = to]
  <2>2. bookings \in [Booking -> Row] /\ bookings' \in [Booking -> Row]
    BY <2>1 DEF StoreInv, StoreTypeOK
  <2>a. ASSUME NEW b \in Booking,
               \A x \in Booking \ {b} : bookings'[x] = bookings[x]
        PROVE  /\ Moved(b, PhaseOf(b)')
               /\ ho' = [ho EXCEPT ![b] = bookings'[b].provider]
    <3>1. ASSUME NEW x \in Booking, x # b PROVE PhaseOf(x)' = PhaseOf(x)
      BY <2>a, <3>1 DEF PhaseOf
    <3> QED
      BY <2>a, <3>1
  <2>3. CASE Still
    BY <2>3 DEF Board!boardVars
  <2>4. CASE UNCHANGED <<bookings, claimed>>
    BY <2>3, <2>4 DEF PhaseOf
  <2>5. ASSUME NEW b \in Booking, InsertBooking(b) PROVE Board!BoardNext
    <3>1. ph[b] = "none" /\ bookings[b].provider = NoProvider
      BY <2>1, <2>5 DEF InsertBooking, StoreInv, RowsOK, PhaseOf, Absent
    <3>2. Moved(b, "open") /\ ho' = ho /\ claimed' = claimed
      BY <2>2, <2>5, <3>1 DEF InsertBooking, PhaseOf, Absent, history
    <3>3. Board!Post(b)
      BY <3>1, <3>2 DEF Board!Post
    <3> QED
      BY <3>3 DEF Board!BoardNext
  <2>6. ASSUME NEW b \in Booking, NEW p \in everVerified, UpdateClaim(b, p),
               ClaimMatches(b, p)
        PROVE  Board!BoardNext
    <3>1. /\ p \in Provider /\ p # NoProvider /\ claimed[b] = {}
          /\ claimed \in [Booking -> SUBSET Provider] /\ ph[b] = "open"
      BY <2>1, <2>6, NoProviderAssumption
      DEF StoreInv, StoreTypeOK, RowsOK, ClaimMatches, IsOpen, PhaseOf, Absent
    <3>2. /\ Moved(b, "held") /\ ho' = [ho EXCEPT ![b] = p]
          /\ claimed' = [claimed EXCEPT ![b] = {p}]
      <4>1. /\ bookings'[b] = [status |-> "assigned", provider |-> p]
            /\ \A x \in Booking \ {b} : bookings'[x] = bookings[x]
            /\ claimed' = [claimed EXCEPT ![b] = {p}]
        BY <2>2, <2>6, <3>1 DEF UpdateClaim
      <4>2. PhaseOf(b)' = "held" /\ bookings'[b].provider = p
        BY <3>1, <4>1 DEF PhaseOf
      <4> QED
        BY <2>a, <4>1, <4>2
    <3>3. Board!Take(b, p)
      BY <3>1, <3>2 DEF Board!Take
    <3> QED
      BY <3>1, <3>3 DEF Board!BoardNext
  <2>7. ASSUME NEW b \in Booking, NEW p \in Provider, NEW s \in Status,
               UpdateOwnStatus(b, p, s)
        PROVE  Still
    BY <2>2, <2>7, NoProviderAssumption
    DEF UpdateOwnStatus, OwnMatches, PhaseOf, Row
  <2>8. ASSUME NEW b \in Booking, NEW p \in Provider, UpdateAssign(b, p),
               Exists(b)
        PROVE  Board!BoardNext
    <3>1. ph[b] # "none" /\ p # NoProvider
      BY <2>8, NoProviderAssumption DEF Exists, PhaseOf
    <3>2. /\ Moved(b, "held") /\ ho' = [ho EXCEPT ![b] = p]
          /\ claimed' = claimed
      <4>1. /\ bookings'[b] = [status |-> "assigned", provider |-> p]
            /\ \A x \in Booking \ {b} : bookings'[x] = bookings[x]
            /\ claimed' = claimed
        BY <2>2, <2>8 DEF UpdateAssign, Exists
      <4>2. PhaseOf(b)' = "held" /\ bookings'[b].provider = p
        BY <3>1, <4>1 DEF PhaseOf
      <4> QED
        BY <2>a, <4>1, <4>2
    <3>3. Board!Dispatch(b, p)
      BY <3>1, <3>2 DEF Board!Dispatch
    <3> QED
      BY <3>3 DEF Board!BoardNext
  <2>9. ASSUME NEW b \in Booking, NEW s \in Status \ {"pending"},
               s # "cancelled" => bookings[b].provider # NoProvider,
               UpdateAnyStatus(b, s), Exists(b)
        PROVE  Board!BoardNext \/ Still
    <3>0. ho' = ho /\ claimed' = claimed
      BY <2>2, <2>9 DEF UpdateAnyStatus, Row
    <3>1. CASE bookings[b].provider # NoProvider
      BY <2>2, <2>9, <3>0, <3>1 DEF UpdateAnyStatus, PhaseOf, Row
    <3>2. CASE bookings[b].provider = NoProvider /\ bookings[b].status = "cancelled"
      BY <2>2, <2>9, <3>0, <3>2 DEF UpdateAnyStatus, PhaseOf, Row
    <3>3. CASE bookings[b].provider = NoProvider /\ bookings[b].status = "pending"
      <4>1. ph[b] = "open" /\ Moved(b, "withdrawn")
        <5>1. /\ bookings'[b].status = "cancelled"
              /\ bookings'[b].provider = NoProvider
              /\ \A x \in Booking \ {b} : bookings'[x] = bookings[x]
          BY <2>2, <2>9, <3>3 DEF UpdateAnyStatus, Exists, Row
        <5>2. PhaseOf(b)' = "withdrawn" /\ ph[b] = "open"
          BY <3>3, <5>1 DEF PhaseOf, Absent
        <5> QED
          BY <2>a, <5>1, <5>2
      <4>2. Board!Withdraw(b)
        BY <3>0, <4>1 DEF Board!Withdraw
      <4> QED
        BY <4>2 DEF Board!BoardNext
    <3> QED
      BY <2>1, <2>9, <3>1, <3>2, <3>3
      DEF StoreInv, RowsOK, OwnershipMatchesStatus, Exists
  <2>10. ASSUME NEW b \in Booking, NEW p \in everVerified, UpdateClaim(b, p),
                ~ClaimMatches(b, p)
         PROVE  UNCHANGED <<bookings, claimed>>
    BY <2>10 DEF UpdateClaim
  <2>11. ASSUME NEW b \in Booking, NEW p \in Provider, UpdateAssign(b, p),
                ~Exists(b)
         PROVE  UNCHANGED <<bookings, claimed>>
    BY <2>11 DEF UpdateAssign, Exists
  <2>12. ASSUME NEW b \in Booking, NEW s \in Status, UpdateAnyStatus(b, s),
                ~Exists(b)
         PROVE  UNCHANGED <<bookings, claimed>>
    BY <2>12 DEF UpdateAnyStatus, Exists
  <2>13. ASSUME NEW p \in Provider, NEW v \in BOOLEAN,
                InsertProfile(p) \/ UpdateVerified(p, v)
         PROVE  UNCHANGED <<bookings, claimed>>
    BY <2>13 DEF InsertProfile, UpdateVerified, history
  <2> HIDE DEF Still, Moved, ph, ho
  <2> QED
    BY <2>1, <2>3, <2>4, <2>5, <2>6, <2>7, <2>8, <2>9, <2>10, <2>11, <2>12,
       <2>13 DEF StoreStep, store
<1> QED
  BY <1>1, <1>2, Invariance, PTL DEF Spec, ImplementsJobBoard, Board!BoardSpec
=============================================================================
