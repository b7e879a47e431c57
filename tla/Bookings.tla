------------------------------ MODULE Bookings ------------------------------
(***************************************************************************)
(* The booking marketplace: clients who ask for a service, providers who   *)
(* claim and work the jobs from their portals, administrators who verify   *)
(* providers and dispatch, all on the same two tables and over a network   *)
(* that delays, reorders and loses what they send.                         *)
(***************************************************************************)
EXTENDS ProviderPortal, AdminPortal

vars == <<store, portalVars, adminVars>>

TypeOK == StoreTypeOK /\ PortalTypeOK /\ AdminTypeOK

Init == StoreInit /\ PortalInit /\ AdminInit

\* A client's request reaches the bookings table.
SubmitBooking(b) == InsertBooking(b) /\ UNCHANGED <<portalVars, adminVars>>

\* A provider's application reaches the providers table.
SubmitApplication(p) == InsertProfile(p) /\ UNCHANGED <<portalVars, adminVars>>

Next ==
    \/ \E b \in Booking : SubmitBooking(b)
    \/ \E p \in Provider : SubmitApplication(p)
    \/ PortalNext /\ UNCHANGED adminVars
    \/ AdminNext /\ UNCHANGED portalVars

Spec == Init /\ [][Next]_vars

(***************************************************************************)
(* Fairness.  Every request is answered or fails, and the event loop       *)
(* resumes every call whose answer is there: the server and the handlers   *)
(* are weakly fair.  The users are not: nobody has to tap anything.        *)
(***************************************************************************)
PortalFairness ==
    \A p \in Provider, k \in Slot :
        /\ WF_vars(PortalServer(p, k) /\ UNCHANGED adminVars)
        /\ WF_vars(PortalHandler(p, k) /\ UNCHANGED adminVars)

AdminFairness ==
    \A a \in Admin, k \in ASlot :
        /\ WF_vars(AdminServer(a, k) /\ UNCHANGED portalVars)
        /\ WF_vars(AdminHandler(a, k) /\ UNCHANGED portalVars)

FairSpec == Spec /\ PortalFairness /\ AdminFairness

-----------------------------------------------------------------------------
(* Safety.                                                                 *)

\* "The first successful claim wins": however many portals show a job as
\* open and claim it, and however late their requests arrive, the claim
\* update of _claimJob returns its row to one provider at most.
FirstClaimWins ==
    \A b \in Booking : \A p, q \in claimed[b] : p = q

\* The provider whose claim won holds the job until an administrator assigns
\* it: no late claim, retry or status update of another provider takes it.
ClaimantKeepsJob ==
    \A b \in Booking : b \notin assigned =>
        \A p \in claimed[b] : bookings[b].provider = p

\* Unassigned and waiting go together: a pending row has no provider, and a
\* row without a provider has never gone past pending except to be cancelled.
\* The portals decide what to send from rows they read long ago, and
\* updateBookingStatus writes any status to any row, so nothing in one
\* statement says this.
OwnershipMatchesStatus ==
    \A b \in Booking :
        /\ bookings[b].status = "pending" => bookings[b].provider = NoProvider
        /\ bookings[b].provider = NoProvider =>
              bookings[b].status \in {Absent, "pending", "cancelled"}

\* The last writer of a row, when it was a provider, is the one that holds
\* it: a status update that was under way while the job went to somebody else
\* does not reach the row (the provider_id filter of _updateStatus).
WriterHoldsRow ==
    \A b \in Booking :
        writer[b] # NoProvider => bookings[b].provider = writer[b]

\* Nobody claims a job without having been verified once: the portal learns
\* _providerId only behind the pvsc_verified check.
OnlyOnceVerifiedClaim ==
    \A b \in Booking : claimed[b] \subseteq everVerified

\* A job a provider was told it cannot have never becomes open again.
RefusalIsFinal ==
    \A p \in Provider : \A b \in refused[p] : ~IsOpen(b)

\* _isClaiming is up exactly while one claim flow of the page, its reload
\* included, is under way, so a page never has two claims at once.
ClaimFlow(p) ==
    {k \in Slot : call[p][k].waiting /\ call[p][k].live}

ClaimingIsOneFlow ==
    \A p \in Provider :
        /\ portal[p].claiming <=> ClaimFlow(p) # {}
        /\ \A j, k \in ClaimFlow(p) : j = k

\* A page with nothing under way is not left behind its spinner, with its
\* refresh button off, whichever of its overlapping loads ended last and on
\* whichever branch.
NoStuckSpinner ==
    /\ \A p \in Provider :
          portal[p].loading => \E k \in Slot : call[p][k].live
    /\ \A a \in Admin :
          admin[a].loading => \E k \in ASlot : acall[a][k].live

-----------------------------------------------------------------------------
(***************************************************************************)
(* The inductive invariant.  The properties above speak of the tables; a   *)
(* step of the server runs a request that was sent from a list read        *)
(* earlier still.  What makes them inductive is what is known of every     *)
(* list shown, every answer on its way and every request under way: each   *)
(* was true of the tables once, and the facts it rests on never go back.   *)
(***************************************************************************)

Exists(b) == bookings[b].status # Absent

RowsOK ==
    /\ OwnershipMatchesStatus
    /\ \A b \in Booking :
        /\ bookings[b].status = Absent => bookings[b].provider = NoProvider
        /\ claimed[b] # {} => bookings[b].provider # NoProvider

\* A row of b some administrator was or will be shown.
WasRow(r, b) ==
    /\ r.status = "pending" => r.provider = NoProvider
    /\ r.provider = NoProvider => r.status \in {Absent, "pending", "cancelled"}
    /\ r.provider # NoProvider => bookings[b].provider # NoProvider

AdminSees(a) ==
    \A b \in Booking :
        /\ WasRow(admin[a].rows[b], b)
        /\ \A k \in ASlot : WasRow(acall[a][k].rows[b], b)

\* An update an administrator has sent.
AdminSends(c) ==
    /\ c.pc \in {"assign_sent", "status_sent"} => c.bk \in Booking
    /\ c.pc \in {"assign_sent", "verify_sent"} => c.prov \in Provider
    /\ c.pc = "status_sent" =>
          /\ c.to \in Status \ {"pending"}
          /\ c.to # "cancelled" => bookings[c.bk].provider # NoProvider

\* What a provider's page shows, and what its calls carry.
PortalSees(p) ==
    /\ portal[p].id => p \in everVerified
    /\ \A b \in portal[p].openJobs : Exists(b)
    /\ \A b \in refused[p] : Exists(b) /\ ~IsOpen(b)

CallCarries(p, c) ==
    /\ c.prof = "verified" => p \in everVerified
    /\ \A b \in c.open : Exists(b)
    /\ c.pc \in {"claim_sent", "claim_done"} =>
          c.bk \in Booking /\ Exists(c.bk) /\ p \in everVerified
    /\ c.pc = "claim_done" /\ ~c.ok => ~IsOpen(c.bk)
    /\ c.pc = "update_sent" => /\ c.bk \in Booking
                               /\ c.to \in Status \ {"pending"}

\* The tables alone.
StoreInv ==
    /\ StoreTypeOK
    /\ RowsOK
    /\ FirstClaimWins /\ ClaimantKeepsJob /\ WriterHoldsRow
    /\ OnlyOnceVerifiedClaim
    /\ \A p \in Provider : profile[p] = "verified" => p \in everVerified

AdminInv ==
    /\ AdminTypeOK
    /\ \A a \in Admin : /\ AdminSees(a)
                        /\ \A k \in ASlot : AdminSends(acall[a][k])

PortalInv ==
    /\ PortalTypeOK
    /\ \A p \in Provider : /\ PortalSees(p)
                           /\ \A k \in Slot : CallCarries(p, call[p][k])

IInv == StoreInv /\ AdminInv /\ PortalInv

\* The flags of the pages and their calls: a part of its own, which needs the
\* types and nothing else of the above.
LoadPcs  == {"provider_sent", "provider_done", "open_sent", "mine_sent",
             "mine_done"}
ALoadPcs == {"rows_sent", "profs_sent", "profs_done"}

CallFlags(c) ==
    /\ c.pc = "idle" => ~c.live /\ ~c.waiting
    /\ c.pc \in {"claim_sent", "claim_done"} => c.waiting
    /\ c.pc \in {"update_sent", "update_done"} => ~c.waiting
    /\ c.pc \in LoadPcs \cup {"claim_done", "update_done"} => c.live

PortalFlags(p) ==
    /\ portal[p].claiming <=> ClaimFlow(p) # {}
    /\ \A j, k \in ClaimFlow(p) : j = k
    /\ \A k \in Slot : CallFlags(call[p][k])
    /\ ~portal[p].mounted => \A k \in Slot : ~call[p][k].live
    /\ portal[p].loading => \E k \in Slot : call[p][k].pc \in LoadPcs

AdminFlags(a) ==
    /\ \A k \in ASlot : /\ acall[a][k].pc = "idle" => ~acall[a][k].live
                        /\ acall[a][k].pc \in ALoadPcs => acall[a][k].live
    /\ admin[a].loading => \E k \in ASlot : acall[a][k].pc \in ALoadPcs

FlagInv ==
    /\ PortalTypeOK /\ AdminTypeOK
    /\ \A p \in Provider : PortalFlags(p)
    /\ \A a \in Admin : AdminFlags(a)

-----------------------------------------------------------------------------
(* What a step may never do.                                               *)

\* A booking cancelled before anybody held it is out of reach of the
\* providers, whatever their lists show: only an assignment revives it.
CancelledStaysCancelled ==
    [][\A b \in Booking :
          bookings[b] = [status |-> "cancelled", provider |-> NoProvider]
          /\ bookings'[b] # bookings[b]  =>  b \in assigned']_vars

\* The abstract job board this system implements: what the rows say of a
\* job, forgetting its status within the work and everything in transit.
PhaseOf(b) ==
    IF bookings[b].provider # NoProvider THEN "held"
    ELSE CASE bookings[b].status = Absent      -> "none"
           [] bookings[b].status = "cancelled" -> "withdrawn"
           [] OTHER                            -> "open"

Board == INSTANCE JobBoard WITH
            phase   <- [b \in Booking |-> PhaseOf(b)],
            holder  <- [b \in Booking |-> bookings[b].provider],
            winners <- claimed

\* Every behaviour of the pages, the network and the tables is, seen from the
\* board, a job board where claiming is one indivisible step.
ImplementsJobBoard == Board!BoardSpec

-----------------------------------------------------------------------------
(* Liveness.                                                               *)

\* A tapped claim comes back: the button does not say "Claiming..." for ever.
ClaimEnds ==
    \A p \in Provider : portal[p].claiming ~> ~portal[p].claiming

\* Every load of a portal or of the administrator's page comes to an end.
LoadingEnds ==
    /\ \A p \in Provider : portal[p].loading ~> ~portal[p].loading
    /\ \A a \in Admin : admin[a].loading ~> ~admin[a].loading

-----------------------------------------------------------------------------
(* What the texts of the pages say, where the code does something else.    *)

\* lib/l10n/app_en.arb:60, "An administrator must approve your provider
\* profile before you can claim jobs": a page that has just found the profile
\* not verified, and says so, lets no claim be made.  (_loadPortal returns on
\* that branch with _providerId and the lists of the previous load in place.)
NotVerifiedPageClaimsNothing ==
    [][\A p \in Provider :
          portal[p].message = "notVerified" /\ ~portal[p].claiming
             => ~portal'[p].claiming]_vars
=============================================================================
