--------------------------- MODULE ProviderPortal ---------------------------
(***************************************************************************)
(* The provider portal page (_ProviderPortalPageState): the fields of the  *)
(* mounted page of each provider, and the asynchronous calls it has begun. *)
(* A Dart handler runs to its next await without interruption, so each     *)
(* action is one such stretch; between two of them anything may happen:    *)
(* another tap, the server running a statement, an answer arriving out of  *)
(* order, a request or an answer being lost, the page being closed.        *)
(***************************************************************************)
EXTENDS BookingStore

CONSTANTS Slot,      \* bound: how many calls one page may have under way
          Mishaps    \* what can go wrong on a page besides interleaving

\* "loss": a request or its answer is lost, or arrives after its sender gave
\* up; "close": the page is closed and opened again; "signout": the session
\* ends behind the page's back.
ASSUME MishapsAssumption == Mishaps \subseteq {"loss", "close", "signout"}

VARIABLES
    portal,     \* portal[p]: the page of p
    call,       \* call[p][k]: the asynchronous call in slot k of p's page
    refused     \* history: the bookings p was told it could not claim

portalVars == <<portal, call, refused>>

\* _message, as far as it is told apart: nothing, a claim's outcome, not
\* verified, or any other error text.
Message == {"none", "claimed", "alreadyClaimed", "statusChanged",
            "notVerified", "error"}

NoJobs == [b \in Booking |-> Absent]

Page == [mounted  : BOOLEAN,
         id       : BOOLEAN,                      \* _providerId is not null
         loading  : BOOLEAN,
         claiming : BOOLEAN,                      \* _isClaiming
         message  : Message,
         openJobs : SUBSET Booking,
         myJobs   : [Booking -> Status \cup {Absent}]]

\* What an await is suspended on: "..._sent", the request is on its way;
\* "..._done", the server has run it and the answer is on its way back.
Pc == {"idle",
       "provider_sent",   \* next: ReadProvider or LoadFails
       "provider_done",   \* next: GotProvider
       "open_sent",       \* next: ReadOpenJobs or LoadFails
       "mine_sent",       \* next: ReadMyJobs or LoadFails
       "mine_done",       \* next: GotJobs
       "claim_sent",      \* next: ServerClaim or ClaimFails
       "claim_done",      \* next: GotClaim or ClaimFails
       "update_sent",     \* next: ServerUpdate or UpdateFails
       "update_done"}     \* next: GotUpdate or UpdateFails

Call == [pc      : Pc,
         waiting : BOOLEAN,   \* the claim flow awaits the end of this call
         live    : BOOLEAN,   \* somebody still listens for the answer
         bk      : Booking \cup {NoProvider},
         to      : Status \cup {Absent},
         ok      : BOOLEAN,                       \* the claim returned a row
         prof    : Profile,
         open    : SUBSET Booking,
         mine    : [Booking -> Status \cup {Absent}]]

Closed == [mounted |-> FALSE, id |-> FALSE, loading |-> FALSE,
           claiming |-> FALSE, message |-> "none", openJobs |-> {},
           myJobs |-> NoJobs]

Idle == [pc |-> "idle", waiting |-> FALSE, live |-> FALSE, bk |-> NoProvider,
         to |-> Absent, ok |-> FALSE, prof |-> "absent", open |-> {},
         mine |-> NoJobs]

PortalTypeOK ==
    /\ portal \in [Provider -> Page]
    /\ call \in [Provider -> [Slot -> Call]]
    /\ refused \in [Provider -> SUBSET Booking]

PortalInit ==
    /\ portal = [p \in Provider |-> Closed]
    /\ call = [p \in Provider |-> [k \in Slot |-> Idle]]
    /\ refused = [p \in Provider |-> {}]

-----------------------------------------------------------------------------
(* The first stretch of _loadPortal, up to its first await.  signedIn says *)
(* whether supabase.auth still has a current user.                         *)

LoadStarted(page, signedIn) ==
    IF signedIn THEN [page EXCEPT !.loading = TRUE, !.message = "none"]
                ELSE [page EXCEPT !.loading = FALSE, !.message = "error"]

\* The call that is under way after that stretch.
LoadCall(signedIn, waiting) ==
    IF signedIn THEN [Idle EXCEPT !.pc = "provider_sent", !.live = TRUE,
                                  !.waiting = waiting]
                ELSE Idle

\* Slip: no finally clause in _claimJob.
ClaimOverForgotten(page, waiting) == page

\* The finally clause of _claimJob, run when the call it awaits is over.
ClaimOver(page, waiting) ==
    IF waiting THEN [page EXCEPT !.claiming = FALSE] ELSE page

\* The end of _loadPortal: its finally clause, then its caller's.
LoadOver(page, waiting) == ClaimOver([page EXCEPT !.loading = FALSE], waiting)

\* Whether there is a current user, each time the page asks.
Session == IF "signout" \in Mishaps THEN BOOLEAN ELSE {TRUE}

Free(p, k) == call[p][k].pc = "idle"
Live(p, k, pc) == call[p][k].pc = pc /\ call[p][k].live
CallTo(p, k, c) == call' = [call EXCEPT ![p][k] = c]
PageTo(p, page) == portal' = [portal EXCEPT ![p] = page]

-----------------------------------------------------------------------------
(* What the provider does.                                                 *)

OpenPortal(p, k, signedIn) ==
    /\ ~portal[p].mounted /\ Free(p, k)
    /\ PageTo(p, LoadStarted([Closed EXCEPT !.mounted = TRUE], signedIn))
    /\ CallTo(p, k, LoadCall(signedIn, FALSE))
    /\ UNCHANGED <<store, refused>>

\* The page is popped: its reads no longer matter and nothing handles its
\* answers, but an update already sent may still reach the server.
ClosePortal(p) ==
    /\ "close" \in Mishaps
    /\ portal[p].mounted
    /\ PageTo(p, Closed)
    /\ call' = [call EXCEPT ![p] = [k \in Slot |->
                    IF call[p][k].pc \in {"claim_sent", "update_sent"}
                    THEN [call[p][k] EXCEPT !.live = FALSE] ELSE Idle]]
    /\ UNCHANGED <<store, refused>>

\* The refresh button is disabled while the page is loading.
Refresh(p, k, signedIn) ==
    /\ portal[p].mounted /\ ~portal[p].loading /\ Free(p, k)
    /\ PageTo(p, LoadStarted(portal[p], signedIn))
    /\ CallTo(p, k, LoadCall(signedIn, FALSE))
    /\ UNCHANGED <<store, refused>>

\* Slip: neither the button nor _claimJob looks at _isClaiming.
CanClaimWhileClaiming(p, b) ==
    /\ portal[p].mounted /\ ~portal[p].loading
    /\ b \in portal[p].openJobs
    /\ portal[p].id

\* While loading the body is a spinner; while claiming the buttons are off.
CanClaim(p, b) ==
    /\ portal[p].mounted /\ ~portal[p].loading
    /\ b \in portal[p].openJobs
    /\ portal[p].id /\ ~portal[p].claiming

ClaimJob(p, k, b) ==
    /\ CanClaim(p, b) /\ Free(p, k)
    /\ PageTo(p, [portal[p] EXCEPT !.claiming = TRUE, !.message = "none"])
    /\ CallTo(p, k, [Idle EXCEPT !.pc = "claim_sent", !.live = TRUE,
                                 !.waiting = TRUE, !.bk = b])
    /\ UNCHANGED <<store, refused>>

\* The buttons a row of "my jobs" has, by the status it is shown with.
Offered(shown) == CASE shown = "assigned"    -> {"in_progress", "completed"}
                    [] shown = "in_progress" -> {"completed"}
                    [] OTHER                 -> {}

UpdateStatus(p, k, b, s) ==
    /\ portal[p].mounted /\ ~portal[p].loading /\ Free(p, k)
    /\ s \in Offered(portal[p].myJobs[b])
    /\ CallTo(p, k, [Idle EXCEPT !.pc = "update_sent", !.live = TRUE,
                                 !.bk = b, !.to = s])
    /\ UNCHANGED <<store, portal, refused>>

-----------------------------------------------------------------------------
(* What the server does with the page's requests.                          *)

ReadProvider(p, k) ==
    /\ call[p][k].pc = "provider_sent"
    /\ CallTo(p, k, [call[p][k] EXCEPT !.pc = "provider_done",
                                       !.prof = profile[p]])
    /\ UNCHANGED <<store, portal, refused>>

\* Nothing happens on the page between the answer to this read and the next
\* request, so the two are one step.
ReadOpenJobs(p, k) ==
    /\ call[p][k].pc = "open_sent"
    /\ CallTo(p, k, [call[p][k] EXCEPT !.pc = "mine_sent", !.open = OpenRows])
    /\ UNCHANGED <<store, portal, refused>>

ReadMyJobs(p, k) ==
    /\ call[p][k].pc = "mine_sent"
    /\ CallTo(p, k, [call[p][k] EXCEPT !.pc = "mine_done", !.mine = RowsOf(p)])
    /\ UNCHANGED <<store, portal, refused>>

ServerClaim(p, k) ==
    LET c == call[p][k] IN
    /\ c.pc = "claim_sent"
    /\ UpdateClaim(c.bk, p)
    /\ CallTo(p, k, IF c.live THEN [c EXCEPT !.pc = "claim_done",
                                             !.ok = ClaimMatches(c.bk, p)]
                              ELSE Idle)
    /\ UNCHANGED <<portal, refused>>

ServerUpdate(p, k) ==
    LET c == call[p][k] IN
    /\ c.pc = "update_sent"
    /\ UpdateOwnStatus(c.bk, p, c.to)
    /\ CallTo(p, k, IF c.live THEN [c EXCEPT !.pc = "update_done"] ELSE Idle)
    /\ UNCHANGED <<portal, refused>>

\* An update nobody listens for any more is lost on its way.
LoseRequest(p, k) ==
    /\ "loss" \in Mishaps
    /\ call[p][k].pc \in {"claim_sent", "update_sent"} /\ ~call[p][k].live
    /\ CallTo(p, k, Idle)
    /\ UNCHANGED <<store, portal, refused>>

-----------------------------------------------------------------------------
(* What the page does with the answers.                                    *)

\* Slip: the pvsc_verified check is left out.
MayWorkUnverified(prof) == prof # "absent"

MayWork(prof) == prof = "verified"

\* The provider row is missing or not verified: a message, and the lists and
\* _providerId of the previous load stay.  Otherwise the id is kept and the
\* jobs are asked for.
GotProvider(p, k) ==
    LET c == call[p][k] IN
    /\ c.pc = "provider_done"
    /\ IF MayWork(c.prof)
       THEN /\ PageTo(p, [portal[p] EXCEPT !.id = TRUE])
            /\ CallTo(p, k, [c EXCEPT !.pc = "open_sent", !.prof = "absent"])
       ELSE /\ PageTo(p, LoadOver([portal[p] EXCEPT !.message =
                    IF c.prof = "absent" THEN "error" ELSE "notVerified"],
                    c.waiting))
            /\ CallTo(p, k, Idle)
    /\ UNCHANGED <<store, refused>>

GotJobs(p, k) ==
    LET c == call[p][k] IN
    /\ c.pc = "mine_done"
    /\ PageTo(p, LoadOver([portal[p] EXCEPT !.openJobs = c.open,
                                            !.myJobs = c.mine], c.waiting))
    /\ CallTo(p, k, Idle)
    /\ UNCHANGED <<store, refused>>

\* Slip: an error leaves _loading up.
LoadFailsStuck(p, k) ==
    /\ "loss" \in Mishaps
    /\ call[p][k].pc \in {"provider_sent", "open_sent", "mine_sent"}
    /\ PageTo(p, ClaimOver([portal[p] EXCEPT !.message = "error"],
                           call[p][k].waiting))
    /\ CallTo(p, k, Idle)
    /\ UNCHANGED <<store, refused>>

\* The catch clause of _loadPortal.
LoadFails(p, k) ==
    /\ "loss" \in Mishaps
    /\ call[p][k].pc \in {"provider_sent", "open_sent", "mine_sent"}
    /\ PageTo(p, LoadOver([portal[p] EXCEPT !.message = "error"],
                          call[p][k].waiting))
    /\ CallTo(p, k, Idle)
    /\ UNCHANGED <<store, refused>>

\* The outcome is put in _message and _loadPortal is called at once.
GotClaim(p, k, signedIn) ==
    LET c == call[p][k]
        told == [portal[p] EXCEPT !.message = IF c.ok THEN "claimed"
                                                      ELSE "alreadyClaimed"]
    IN
    /\ c.pc = "claim_done"
    /\ PageTo(p, ClaimOver(LoadStarted(told, signedIn), ~signedIn))
    /\ CallTo(p, k, LoadCall(signedIn, TRUE))
    /\ refused' = IF c.ok THEN refused
                  ELSE [refused EXCEPT ![p] = @ \cup {c.bk}]
    /\ UNCHANGED store

\* The same for a status change, whether or not a row was updated.
GotUpdate(p, k, signedIn) ==
    /\ call[p][k].pc = "update_done"
    /\ PageTo(p, LoadStarted([portal[p] EXCEPT !.message = "statusChanged"],
                             signedIn))
    /\ CallTo(p, k, LoadCall(signedIn, FALSE))
    /\ UNCHANGED <<store, refused>>

\* The await of an update throws: the answer was lost, the request was lost,
\* or (stillSent) the request is yet to reach the server.
Abandoned(p, k, stillSent) ==
    IF stillSent THEN [call[p][k] EXCEPT !.live = FALSE] ELSE Idle

ClaimFails(p, k, stillSent) ==
    /\ "loss" \in Mishaps
    /\ Live(p, k, "claim_sent") \/ (Live(p, k, "claim_done") /\ ~stillSent)
    /\ PageTo(p, [portal[p] EXCEPT !.message = "error", !.claiming = FALSE])
    /\ CallTo(p, k, Abandoned(p, k, stillSent))
    /\ UNCHANGED <<store, refused>>

UpdateFails(p, k, stillSent) ==
    /\ "loss" \in Mishaps
    /\ Live(p, k, "update_sent") \/ (Live(p, k, "update_done") /\ ~stillSent)
    /\ PageTo(p, [portal[p] EXCEPT !.message = "error"])
    /\ CallTo(p, k, Abandoned(p, k, stillSent))
    /\ UNCHANGED <<store, refused>>

-----------------------------------------------------------------------------
PortalUser(p) ==
    \/ ClosePortal(p)
    \/ \E k \in Slot :
        \/ \E signedIn \in Session :
              OpenPortal(p, k, signedIn) \/ Refresh(p, k, signedIn)
        \/ \E b \in Booking :
              \/ ClaimJob(p, k, b)
              \/ \E s \in Status : UpdateStatus(p, k, b, s)

\* The server and the network, on the request in one slot.
PortalServer(p, k) ==
    \/ ReadProvider(p, k) \/ ReadOpenJobs(p, k) \/ ReadMyJobs(p, k)
    \/ ServerClaim(p, k) \/ ServerUpdate(p, k) \/ LoseRequest(p, k)

\* The event loop of the page, resuming the call in one slot.
PortalHandler(p, k) ==
    \/ GotProvider(p, k) \/ GotJobs(p, k) \/ LoadFails(p, k)
    \/ \E signedIn \in Session :
          GotClaim(p, k, signedIn) \/ GotUpdate(p, k, signedIn)
    \/ \E stillSent \in BOOLEAN :
          ClaimFails(p, k, stillSent) \/ UpdateFails(p, k, stillSent)

PortalNext ==
    \E p \in Provider : \/ PortalUser(p)
                        \/ \E k \in Slot : \/ PortalServer(p, k)
                                           \/ PortalHandler(p, k)
=============================================================================
