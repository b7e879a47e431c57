----------------------------- MODULE FlagProofs -----------------------------
(***************************************************************************)
(* The flags of the pages: that the flag a claim raises is up exactly      *)
(* while that claim's flow runs, and that no page stays behind its spinner *)
(* once everything it awaits is over.  Both follow from FlagInv, which     *)
(* needs the types and nothing of the tables.                              *)
(***************************************************************************)
EXTENDS BookingsProofs

LEMMA OtherPages ==
    ASSUME NEW p \in Provider, PortalFlags(p), portal'[p] = portal[p],
           call'[p] = call[p]
    PROVE  PortalFlags(p)'
BY DEF PortalFlags, ClaimFlow, CallFlags

\* A step that concerns one slot: what has to be checked of the new call and
\* of the new page.
LEMMA OneSlot ==
    ASSUME NEW p \in Provider, NEW k \in Slot, PortalFlags(p),
           \A j \in Slot \ {k} : call'[p][j] = call[p][j],
           CallFlags(call'[p][k]),
           portal'[p].claiming <=>
               \/ call'[p][k].waiting /\ call'[p][k].live
               \/ ClaimFlow(p) \ {k} # {},
           call'[p][k].waiting /\ call'[p][k].live => ClaimFlow(p) \subseteq {k},
           ~portal'[p].mounted => ~portal[p].mounted /\ ~call'[p][k].live,
           portal'[p].loading =>
               \/ call'[p][k].pc \in LoadPcs
               \/ \E j \in Slot \ {k} : call[p][j].pc \in LoadPcs
    PROVE  PortalFlags(p)'
<1>1. ClaimFlow(p)' = (ClaimFlow(p) \ {k}) \cup
          (IF call'[p][k].waiting /\ call'[p][k].live THEN {k} ELSE {})
  BY DEF ClaimFlow
<1>2. \A i, j \in ClaimFlow(p) : i = j
  BY DEF PortalFlags
<1>3. portal'[p].claiming <=> ClaimFlow(p)' # {}
  BY <1>1
<1>4. \A i, j \in ClaimFlow(p)' : i = j
  BY <1>1, <1>2
<1>5. \A j \in Slot : CallFlags(call[p][j])'
  BY DEF PortalFlags, CallFlags
<1>6. ~portal'[p].mounted => \A j \in Slot : ~call'[p][j].live
  BY DEF PortalFlags
<1>7. portal'[p].loading => \E j \in Slot : call'[p][j].pc \in LoadPcs
  OBVIOUS
<1> QED
  BY <1>3, <1>4, <1>5, <1>6, <1>7 DEF PortalFlags

\* What the helpers of the handlers do to the three flags.
LEMMA LoadStartedFlags ==
    ASSUME NEW page \in Page, NEW signedIn \in BOOLEAN
    PROVE  /\ LoadStarted(page, signedIn).mounted = page.mounted
           /\ LoadStarted(page, signedIn).claiming = page.claiming
           /\ LoadStarted(page, signedIn).loading = signedIn
           /\ LoadStarted(page, signedIn) \in Page
BY DEF LoadStarted, Page, Message

LEMMA ClaimOverFlags ==
    ASSUME NEW page \in Page, NEW waiting \in BOOLEAN
    PROVE  /\ ClaimOver(page, waiting).mounted = page.mounted
           /\ ClaimOver(page, waiting).claiming = (page.claiming /\ ~waiting)
           /\ ClaimOver(page, waiting).loading = page.loading
<1>1. page.claiming \in BOOLEAN
  BY DEF Page
<1> QED
  BY <1>1 DEF ClaimOver, Page

LEMMA LoadOverFlags ==
    ASSUME NEW page \in Page, NEW waiting \in BOOLEAN
    PROVE  /\ LoadOver(page, waiting).mounted = page.mounted
           /\ LoadOver(page, waiting).claiming = (page.claiming /\ ~waiting)
           /\ LoadOver(page, waiting).loading = FALSE
<1>1. page.claiming \in BOOLEAN
  BY DEF Page
<1> QED
  BY <1>1 DEF LoadOver, ClaimOver, Page

LEMMA LoadCallFlags ==
    ASSUME NEW signedIn \in BOOLEAN, NEW waiting \in BOOLEAN
    PROVE  LET c == LoadCall(signedIn, waiting) IN
           /\ CallFlags(c)
           /\ c.live = signedIn
           /\ c.waiting = (signedIn /\ waiting)
           /\ signedIn => c.pc \in LoadPcs
BY DEF LoadCall, Idle, CallFlags, LoadPcs

LEMMA IdleFlags == CallFlags(Idle) /\ ~Idle.live /\ ~Idle.waiting
BY DEF Idle, CallFlags, LoadPcs

\* Reading the two variables after an action.
LEMMA AfterCallTo ==
    ASSUME PortalTypeOK, NEW p \in Provider, NEW k \in Slot, NEW c,
           CallTo(p, k, c)
    PROVE  /\ call'[p][k] = c
           /\ \A j \in Slot \ {k} : call'[p][j] = call[p][j]
           /\ \A x \in Provider \ {p} : call'[x] = call[x]
BY DEF PortalTypeOK, CallTo

LEMMA AfterPageTo ==
    ASSUME PortalTypeOK, NEW p \in Provider, NEW page, PageTo(p, page)
    PROVE  portal'[p] = page /\ \A x \in Provider \ {p} : portal'[x] = portal[x]
BY DEF PortalTypeOK, PageTo

-----------------------------------------------------------------------------
LEMMA UserFlags ==
    ASSUME PortalTypeOK, NEW p \in Provider, PortalFlags(p), PortalUser(p)
    PROVE  PortalFlags(p)'
<1>1. portal[p] \in Page /\ portal[p].claiming \in BOOLEAN
  <2>1. portal[p] \in Page
    BY DEF PortalTypeOK
  <2> QED
    BY <2>1 DEF Page
<1>2. ASSUME NEW k \in Slot, Free(p, k)
      PROVE  k \notin ClaimFlow(p) /\ call[p][k].pc \notin LoadPcs
  BY <1>2 DEF PortalFlags, CallFlags, ClaimFlow, Free, LoadPcs
<1>3. CASE ClosePortal(p)
  <2>1. /\ portal'[p] = Closed
        /\ \A k \in Slot : call'[p][k] =
              IF call[p][k].pc \in {"claim_sent", "update_sent"}
              THEN [call[p][k] EXCEPT !.live = FALSE] ELSE Idle
    BY <1>3 DEF ClosePortal, PageTo, PortalTypeOK
  <2>2. ASSUME NEW k \in Slot
        PROVE  CallFlags(call'[p][k]) /\ ~call'[p][k].live
    <3>1. call[p][k] \in Call /\ CallFlags(call[p][k])
      BY DEF PortalTypeOK, PortalFlags
    <3>2. CASE call[p][k].pc \in {"claim_sent", "update_sent"}
      BY <2>1, <3>1, <3>2 DEF CallFlags, Call, LoadPcs
    <3>3. CASE call[p][k].pc \notin {"claim_sent", "update_sent"}
      BY <2>1, <3>3, IdleFlags
    <3> QED
      BY <3>2, <3>3
  <2> QED
    BY <2>1, <2>2 DEF PortalFlags, ClaimFlow, CallFlags, Closed
<1>4. ASSUME NEW k \in Slot, NEW signedIn \in Session, OpenPortal(p, k, signedIn)
      PROVE  PortalFlags(p)'
  <2> DEFINE page == [Closed EXCEPT !.mounted = TRUE]
             c == LoadCall(signedIn, FALSE)
  <2>1. page \in Page /\ page.mounted = TRUE /\ page.claiming = FALSE
    BY BlankOK DEF Closed, Page, PageOK
  <2>2. PageTo(p, LoadStarted(page, signedIn)) /\ CallTo(p, k, c)
        /\ ~portal[p].mounted /\ Free(p, k)
    BY <1>4 DEF OpenPortal
  <2>3. ClaimFlow(p) = {}
    BY <2>2 DEF PortalFlags, ClaimFlow
  <2>4. signedIn \in BOOLEAN
    BY SessionBoolean
  <2> HIDE DEF page
  <2>5. /\ portal'[p].mounted /\ portal'[p].claiming = FALSE
        /\ portal'[p].loading = signedIn
    BY <2>1, <2>2, <2>4, LoadStartedFlags, AfterPageTo
  <2>6. /\ call'[p][k] = c /\ CallFlags(c) /\ ~c.waiting
        /\ signedIn => c.pc \in LoadPcs
        /\ \A j \in Slot \ {k} : call'[p][j] = call[p][j]
    BY <2>2, <2>4, LoadCallFlags, AfterCallTo
  <2> QED
    BY <2>3, <2>5, <2>6, OneSlot
<1>5. ASSUME NEW k \in Slot, NEW signedIn \in Session, Refresh(p, k, signedIn)
      PROVE  PortalFlags(p)'
  <2> DEFINE c == LoadCall(signedIn, FALSE)
  <2>1. PageTo(p, LoadStarted(portal[p], signedIn)) /\ CallTo(p, k, c)
        /\ portal[p].mounted /\ Free(p, k)
    BY <1>5 DEF Refresh
  <2>2. signedIn \in BOOLEAN
    BY SessionBoolean
  <2>3. /\ portal'[p].mounted /\ portal'[p].claiming = portal[p].claiming
        /\ portal'[p].loading = signedIn
    BY <1>1, <2>1, <2>2, LoadStartedFlags, AfterPageTo
  <2>4. /\ call'[p][k] = c /\ CallFlags(c) /\ ~c.waiting
        /\ signedIn => c.pc \in LoadPcs
        /\ \A j \in Slot \ {k} : call'[p][j] = call[p][j]
    BY <2>1, <2>2, LoadCallFlags, AfterCallTo
  <2>5. portal[p].claiming <=> ClaimFlow(p) \ {k} # {}
    BY <1>2, <2>1 DEF PortalFlags
  <2> QED
    BY <2>3, <2>4, <2>5, OneSlot
<1>6. ASSUME NEW k \in Slot, NEW b \in Booking, ClaimJob(p, k, b)
      PROVE  PortalFlags(p)'
  <2> DEFINE c == [Idle EXCEPT !.pc = "claim_sent", !.live = TRUE,
                               !.waiting = TRUE, !.bk = b]
             page == [portal[p] EXCEPT !.claiming = TRUE, !.message = "none"]
  <2>1. PageTo(p, page) /\ CallTo(p, k, c) /\ Free(p, k)
        /\ portal[p].mounted /\ ~portal[p].loading /\ ~portal[p].claiming
    BY <1>6 DEF ClaimJob, CanClaim
  <2>2. page.mounted /\ page.claiming = TRUE /\ page.loading = portal[p].loading
    BY <1>1, <2>1 DEF Page
  <2>3. CallFlags(c) /\ c.waiting = TRUE /\ c.live = TRUE
    BY DEF Idle, CallFlags, LoadPcs
  <2>4. ClaimFlow(p) = {}
    BY <2>1 DEF PortalFlags
  <2> HIDE DEF c, page
  <2>5. /\ portal'[p] = page /\ call'[p][k] = c
        /\ \A j \in Slot \ {k} : call'[p][j] = call[p][j]
    BY <2>1, AfterPageTo, AfterCallTo
  <2> QED
    BY <2>1, <2>2, <2>3, <2>4, <2>5, OneSlot
<1>7. ASSUME NEW k \in Slot, NEW b \in Booking, NEW s \in Status,
             UpdateStatus(p, k, b, s)
      PROVE  PortalFlags(p)'
  <2> DEFINE c == [Idle EXCEPT !.pc = "update_sent", !.live = TRUE, !.bk = b,
                               !.to = s]
  <2>1. CallTo(p, k, c) /\ Free(p, k) /\ portal' = portal
        /\ portal[p].mounted /\ ~portal[p].loading
    BY <1>7 DEF UpdateStatus
  <2>2. CallFlags(c) /\ c.waiting = FALSE
    BY DEF Idle, CallFlags, LoadPcs
  <2> HIDE DEF c
  <2>3. call'[p][k] = c /\ \A j \in Slot \ {k} : call'[p][j] = call[p][j]
    BY <2>1, AfterCallTo
  <2>4. portal[p].claiming <=> ClaimFlow(p) \ {k} # {}
    BY <1>2, <2>1 DEF PortalFlags
  <2> QED
    BY <2>1, <2>2, <2>3, <2>4, OneSlot
<1> QED
  BY <1>3, <1>4, <1>5, <1>6, <1>7 DEF PortalUser

\* A step that leaves the page alone and the call of one slot in the same
\* flow, still (or not) with a load.
LEMMA SameFlow ==
    ASSUME PortalTypeOK, NEW p \in Provider, NEW k \in Slot, NEW c,
           PortalFlags(p), portal'[p].mounted = portal[p].mounted,
           portal'[p].claiming = portal[p].claiming,
           portal'[p].loading = portal[p].loading,
           CallTo(p, k, c), CallFlags(c),
           c.live = call[p][k].live, c.waiting = call[p][k].waiting,
           call[p][k].pc \in LoadPcs => c.pc \in LoadPcs
    PROVE  PortalFlags(p)'
<1>1. call'[p][k] = c /\ \A j \in Slot \ {k} : call'[p][j] = call[p][j]
  BY AfterCallTo
<1>2. k \in ClaimFlow(p) <=> c.waiting /\ c.live
  BY DEF ClaimFlow
<1>3. portal'[p].claiming <=> (c.waiting /\ c.live) \/ ClaimFlow(p) \ {k} # {}
  BY <1>2 DEF PortalFlags
<1>4. c.waiting /\ c.live => ClaimFlow(p) \subseteq {k}
  BY <1>2 DEF PortalFlags
<1>5. ~portal'[p].mounted => ~portal[p].mounted /\ ~c.live
  BY DEF PortalFlags
<1>6. portal'[p].loading =>
          c.pc \in LoadPcs \/ \E j \in Slot \ {k} : call[p][j].pc \in LoadPcs
  BY DEF PortalFlags
<1> QED
  BY <1>1, <1>3, <1>4, <1>5, <1>6, OneSlot

\* A step that ends the flow of one slot, or hands it over to a load that is
\* in no flow: the page's claiming flag falls when the slot had a claim.
LEMMA FlowEnds ==
    ASSUME PortalTypeOK, NEW p \in Provider, NEW k \in Slot, NEW c,
           PortalFlags(p), call[p][k].live, portal'[p].mounted,
           portal'[p].claiming <=> portal[p].claiming /\ ~call[p][k].waiting,
           CallTo(p, k, c), CallFlags(c), ~(c.waiting /\ c.live),
           portal'[p].loading => \/ c.pc \in LoadPcs
                                 \/ portal[p].loading /\ call[p][k].pc \notin LoadPcs
    PROVE  PortalFlags(p)'
<1>1. call'[p][k] = c /\ \A j \in Slot \ {k} : call'[p][j] = call[p][j]
  BY AfterCallTo
<1>2. k \in ClaimFlow(p) <=> call[p][k].waiting
  BY DEF ClaimFlow
<1>3. portal[p].claiming <=> ClaimFlow(p) # {}
  BY DEF PortalFlags
<1>4. \A i, j \in ClaimFlow(p) : i = j
  BY DEF PortalFlags
<1>5. portal'[p].claiming <=> ClaimFlow(p) \ {k} # {}
  BY <1>2, <1>3, <1>4
<1>6. portal'[p].loading =>
          c.pc \in LoadPcs \/ \E j \in Slot \ {k} : call[p][j].pc \in LoadPcs
  BY DEF PortalFlags
<1> QED
  BY <1>1, <1>5, <1>6, OneSlot

\* The page of a live call is mounted.
LEMMA LiveMounted ==
    ASSUME NEW p \in Provider, NEW k \in Slot, PortalFlags(p), call[p][k].live
    PROVE  portal[p].mounted
BY DEF PortalFlags

LEMMA ServerFlags ==
    ASSUME PortalTypeOK, StoreTypeOK, NEW p \in Provider, NEW k \in Slot,
           PortalFlags(p), PortalServer(p, k)
    PROVE  PortalFlags(p)'
<1> DEFINE old == call[p][k]
<1>1. old \in Call /\ CallFlags(old) /\ portal' = portal
  BY DEF PortalTypeOK, PortalFlags, PortalServer, ReadProvider, ReadOpenJobs,
         ReadMyJobs, ServerClaim, ServerUpdate, LoseRequest
<1>2. ASSUME NEW c, CallTo(p, k, c), CallFlags(c), c.live = old.live,
             c.waiting = old.waiting, old.pc \in LoadPcs => c.pc \in LoadPcs
      PROVE  PortalFlags(p)'
  BY <1>1, <1>2, SameFlow
<1>3. ASSUME CallTo(p, k, Idle), ~old.live, old.pc \notin LoadPcs
      PROVE  PortalFlags(p)'
  <2>1. /\ call'[p][k] = Idle /\ \A j \in Slot \ {k} : call'[p][j] = call[p][j]
        /\ CallFlags(Idle) /\ ~Idle.live /\ ~Idle.waiting
    BY <1>3, AfterCallTo, IdleFlags
  <2>2. k \notin ClaimFlow(p)
    BY <1>3 DEF ClaimFlow
  <2> QED
    BY <1>1, <1>3, <2>1, <2>2, OneSlot DEF PortalFlags
<1>4. CASE ReadProvider(p, k)
  <2> DEFINE c == [old EXCEPT !.pc = "provider_done", !.prof = profile[p]]
  <2>1. CallTo(p, k, c) /\ old.pc = "provider_sent"
    BY <1>4 DEF ReadProvider
  <2>2. /\ c.pc = "provider_done" /\ c.live = old.live
        /\ c.waiting = old.waiting
    BY <1>1 DEF Call
  <2> HIDE DEF c
  <2> QED
    BY <1>1, <1>2, <2>1, <2>2 DEF CallFlags, LoadPcs
<1>5. CASE ReadOpenJobs(p, k)
  <2> DEFINE c == [old EXCEPT !.pc = "mine_sent", !.open = OpenRows]
  <2>1. CallTo(p, k, c) /\ old.pc = "open_sent"
    BY <1>5 DEF ReadOpenJobs
  <2>2. c.pc = "mine_sent" /\ c.live = old.live /\ c.waiting = old.waiting
    BY <1>1 DEF Call
  <2> HIDE DEF c
  <2> QED
    BY <1>1, <1>2, <2>1, <2>2 DEF CallFlags, LoadPcs
<1>6. CASE ReadMyJobs(p, k)
  <2> DEFINE c == [old EXCEPT !.pc = "mine_done", !.mine = RowsOf(p)]
  <2>1. CallTo(p, k, c) /\ old.pc = "mine_sent"
    BY <1>6 DEF ReadMyJobs
  <2>2. c.pc = "mine_done" /\ c.live = old.live /\ c.waiting = old.waiting
    BY <1>1 DEF Call
  <2> HIDE DEF c
  <2> QED
    BY <1>1, <1>2, <2>1, <2>2 DEF CallFlags, LoadPcs
<1>7. CASE ServerClaim(p, k)
  <2> DEFINE c == [old EXCEPT !.pc = "claim_done",
                              !.ok = ClaimMatches(old.bk, p)]
  <2>1. old.pc = "claim_sent" /\ CallTo(p, k, IF old.live THEN c ELSE Idle)
    BY <1>7 DEF ServerClaim
  <2>2. c.pc = "claim_done" /\ c.live = old.live /\ c.waiting = old.waiting
    BY <1>1 DEF Call
  <2> HIDE DEF c
  <2> QED
    BY <1>1, <1>2, <1>3, <2>1, <2>2 DEF CallFlags, LoadPcs
<1>8. CASE ServerUpdate(p, k)
  <2> DEFINE c == [old EXCEPT !.pc = "update_done"]
  <2>1. old.pc = "update_sent" /\ CallTo(p, k, IF old.live THEN c ELSE Idle)
    BY <1>8 DEF ServerUpdate
  <2>2. c.pc = "update_done" /\ c.live = old.live /\ c.waiting = old.waiting
    BY <1>1 DEF Call
  <2> HIDE DEF c
  <2> QED
    BY <1>1, <1>2, <1>3, <2>1, <2>2 DEF CallFlags, LoadPcs
<1>9. CASE LoseRequest(p, k)
  BY <1>3, <1>9 DEF LoseRequest, LoadPcs
<1> QED
  BY <1>4, <1>5, <1>6, <1>7, <1>8, <1>9 DEF PortalServer

LEMMA HandlerFlags ==
    ASSUME PortalTypeOK, NEW p \in Provider, NEW k \in Slot,
           PortalFlags(p), PortalHandler(p, k)
    PROVE  PortalFlags(p)'
<1> DEFINE old == call[p][k]
<1>1. /\ old \in Call /\ CallFlags(old) /\ old.waiting \in BOOLEAN
      /\ portal[p] \in Page
  <2>1. old \in Call /\ CallFlags(old) /\ portal[p] \in Page
    BY DEF PortalTypeOK, PortalFlags
  <2> QED
    BY <2>1 DEF Call
<1>2. ASSUME NEW m \in Message
      PROVE  /\ [portal[p] EXCEPT !.message = m] \in Page
             /\ [portal[p] EXCEPT !.message = m].mounted = portal[p].mounted
             /\ [portal[p] EXCEPT !.message = m].claiming = portal[p].claiming
             /\ [portal[p] EXCEPT !.message = m].loading = portal[p].loading
  BY <1>1 DEF Page
<1>3. ASSUME NEW page \in Page, page.mounted = portal[p].mounted,
             page.claiming = portal[p].claiming, old.pc \in LoadPcs,
             PageTo(p, LoadOver(page, old.waiting)), CallTo(p, k, Idle)
      PROVE  PortalFlags(p)'
  <2>1. old.live /\ portal[p].mounted
    BY <1>1, <1>3, LiveMounted DEF CallFlags
  <2>2. /\ portal'[p].mounted
        /\ portal'[p].claiming = (portal[p].claiming /\ ~old.waiting)
        /\ portal'[p].loading = FALSE
    <3> DEFINE over == LoadOver(page, old.waiting)
    <3>1. /\ over.mounted = page.mounted /\ over.loading = FALSE
          /\ over.claiming = (page.claiming /\ ~old.waiting)
      BY <1>1, <1>3, LoadOverFlags
    <3>2. portal'[p] = over
      BY <1>3, AfterPageTo
    <3> HIDE DEF over
    <3> QED
      BY <1>3, <2>1, <3>1, <3>2
  <2> QED
    BY <1>3, <2>1, <2>2, IdleFlags, FlowEnds
<1>4. CASE GotProvider(p, k)
  <2>0. old.pc = "provider_done" /\ old.pc \in LoadPcs
    BY <1>4 DEF GotProvider, LoadPcs
  <2>1. CASE MayWork(old.prof)
    <3> DEFINE c == [old EXCEPT !.pc = "open_sent", !.prof = "absent"]
               page == [portal[p] EXCEPT !.id = TRUE]
    <3>1. PageTo(p, page) /\ CallTo(p, k, c)
      BY <1>4, <2>1 DEF GotProvider
    <3>2. c.pc = "open_sent" /\ c.live = old.live /\ c.waiting = old.waiting
      BY <1>1 DEF Call
    <3>3. /\ page.mounted = portal[p].mounted
          /\ page.claiming = portal[p].claiming
          /\ page.loading = portal[p].loading
      BY <1>1 DEF Page
    <3> HIDE DEF c, page
    <3>4. CallFlags(c) /\ c.pc \in LoadPcs
      BY <1>1, <2>0, <3>2 DEF CallFlags, LoadPcs
    <3>5. portal'[p] = page
      BY <3>1, AfterPageTo
    <3> QED
      BY <3>1, <3>2, <3>3, <3>4, <3>5, SameFlow
  <2>2. CASE ~MayWork(old.prof)
    <3> DEFINE m == IF old.prof = "absent" THEN "error" ELSE "notVerified"
               page == [portal[p] EXCEPT !.message = m]
    <3>1. m \in Message
      BY DEF Message
    <3>2. PageTo(p, LoadOver(page, old.waiting)) /\ CallTo(p, k, Idle)
      BY <1>4, <2>2 DEF GotProvider
    <3> HIDE DEF m
    <3>3. /\ page \in Page /\ page.mounted = portal[p].mounted
          /\ page.claiming = portal[p].claiming
      BY <1>2, <3>1
    <3> HIDE DEF page
    <3> QED
      BY <1>3, <2>0, <3>2, <3>3
  <2> QED
    BY <2>1, <2>2
<1>5. CASE GotJobs(p, k)
  <2> DEFINE page == [portal[p] EXCEPT !.openJobs = old.open,
                                       !.myJobs = old.mine]
  <2>1. /\ page \in Page /\ page.mounted = portal[p].mounted
        /\ page.claiming = portal[p].claiming
    BY <1>1 DEF Page, Call
  <2>2. PageTo(p, LoadOver(page, old.waiting)) /\ CallTo(p, k, Idle)
        /\ old.pc \in LoadPcs
    BY <1>5 DEF GotJobs, LoadPcs
  <2> HIDE DEF page
  <2> QED
    BY <1>3, <2>1, <2>2
<1>6. CASE LoadFails(p, k)
  <2> DEFINE page == [portal[p] EXCEPT !.message = "error"]
  <2>1. /\ page \in Page /\ page.mounted = portal[p].mounted
        /\ page.claiming = portal[p].claiming
    BY <1>2 DEF Message
  <2>2. PageTo(p, LoadOver(page, old.waiting)) /\ CallTo(p, k, Idle)
        /\ old.pc \in LoadPcs
    BY <1>6 DEF LoadFails, LoadPcs
  <2> HIDE DEF page
  <2> QED
    BY <1>3, <2>1, <2>2
<1>7. ASSUME NEW signedIn \in Session, GotClaim(p, k, signedIn)
      PROVE  PortalFlags(p)'
  <2> DEFINE m == IF old.ok THEN "claimed" ELSE "alreadyClaimed"
             told == [portal[p] EXCEPT !.message = m]
             page == LoadStarted(told, signedIn)
             c == LoadCall(signedIn, TRUE)
  <2>1. m \in Message /\ signedIn \in BOOLEAN /\ (~signedIn) \in BOOLEAN
    BY SessionBoolean DEF Message
  <2>2. /\ PageTo(p, ClaimOver(page, ~signedIn)) /\ CallTo(p, k, c)
        /\ old.pc = "claim_done"
    BY <1>7 DEF GotClaim
  <2> HIDE DEF m
  <2>3. /\ told \in Page /\ told.mounted = portal[p].mounted
        /\ told.claiming = portal[p].claiming
    BY <1>2, <2>1
  <2> HIDE DEF told
  <2>4. /\ page \in Page /\ page.mounted = portal[p].mounted
        /\ page.claiming = portal[p].claiming /\ page.loading = signedIn
    BY <2>1, <2>3, LoadStartedFlags
  <2> HIDE DEF page
  <2>5. /\ portal'[p].mounted = portal[p].mounted
        /\ portal'[p].claiming = (portal[p].claiming /\ signedIn)
        /\ portal'[p].loading = signedIn
    <3>1. ClaimOver(page, ~signedIn).claiming = (page.claiming /\ ~~signedIn)
          /\ ClaimOver(page, ~signedIn).mounted = page.mounted
          /\ ClaimOver(page, ~signedIn).loading = page.loading
      BY <2>1, <2>4, ClaimOverFlags
    <3> QED
      BY <2>2, <2>4, <3>1, AfterPageTo
  <2>6. /\ CallFlags(c) /\ c.live = signedIn /\ c.waiting = (signedIn /\ TRUE)
        /\ signedIn => c.pc \in LoadPcs
    BY <2>1, LoadCallFlags
  <2>7. old.live /\ old.waiting /\ portal[p].mounted
    BY <1>1, <2>2, LiveMounted DEF CallFlags
  <2> HIDE DEF c
  <2>8. CASE ~signedIn
    BY <2>2, <2>5, <2>6, <2>7, <2>8, FlowEnds
  <2>9. CASE signedIn
    <3>1. call'[p][k] = c /\ \A j \in Slot \ {k} : call'[p][j] = call[p][j]
      BY <2>2, AfterCallTo
    <3>2. k \in ClaimFlow(p)
      BY <2>7 DEF ClaimFlow
    <3>3. portal[p].claiming /\ ClaimFlow(p) \subseteq {k}
      BY <3>2 DEF PortalFlags
    <3> QED
      BY <2>5, <2>6, <2>7, <2>9, <3>1, <3>3, OneSlot
  <2> QED
    BY <2>8, <2>9
<1>8. ASSUME NEW signedIn \in Session, GotUpdate(p, k, signedIn)
      PROVE  PortalFlags(p)'
  <2> DEFINE told == [portal[p] EXCEPT !.message = "statusChanged"]
             c == LoadCall(signedIn, FALSE)
  <2>1. signedIn \in BOOLEAN
    BY SessionBoolean
  <2>2. /\ PageTo(p, LoadStarted(told, signedIn)) /\ CallTo(p, k, c)
        /\ old.pc = "update_done"
    BY <1>8 DEF GotUpdate
  <2>3. /\ told \in Page /\ told.mounted = portal[p].mounted
        /\ told.claiming = portal[p].claiming
    BY <1>2 DEF Message
  <2> HIDE DEF told
  <2>4. /\ portal'[p].mounted = portal[p].mounted
        /\ portal'[p].claiming = portal[p].claiming
        /\ portal'[p].loading = signedIn
    BY <2>1, <2>2, <2>3, LoadStartedFlags, AfterPageTo
  <2>5. /\ CallFlags(c) /\ c.waiting = (signedIn /\ FALSE)
        /\ signedIn => c.pc \in LoadPcs
    BY <2>1, LoadCallFlags
  <2>6. old.live /\ ~old.waiting /\ portal[p].mounted
    BY <1>1, <2>2, LiveMounted DEF CallFlags
  <2> HIDE DEF c
  <2> QED
    BY <2>2, <2>4, <2>5, <2>6, FlowEnds
<1>9. ASSUME NEW stillSent \in BOOLEAN, CallFlags(old), old.pc \notin LoadPcs,
             ~stillSent \/ old.pc \in {"claim_sent", "update_sent"}
      PROVE  /\ CallFlags(Abandoned(p, k, stillSent))
             /\ ~Abandoned(p, k, stillSent).live
  <2> DEFINE c == [old EXCEPT !.live = FALSE]
  <2>1. c.live = FALSE /\ c.pc = old.pc /\ c.waiting = old.waiting
    BY <1>1 DEF Call
  <2>2. stillSent => CallFlags(c)
    BY <1>9, <2>1 DEF CallFlags, LoadPcs
  <2>3. Abandoned(p, k, stillSent) = IF stillSent THEN c ELSE Idle
    BY DEF Abandoned
  <2> HIDE DEF c
  <2> QED
    BY <2>1, <2>2, <2>3, IdleFlags
<1>10. ASSUME NEW stillSent \in BOOLEAN, ClaimFails(p, k, stillSent)
       PROVE  PortalFlags(p)'
  <2> DEFINE page == [portal[p] EXCEPT !.message = "error", !.claiming = FALSE]
             c == Abandoned(p, k, stillSent)
  <2>1. /\ PageTo(p, page) /\ CallTo(p, k, c) /\ old.live
        /\ old.pc \in {"claim_sent", "claim_done"}
        /\ ~stillSent \/ old.pc = "claim_sent"
    BY <1>10 DEF ClaimFails, Live
  <2>2. /\ page.mounted = portal[p].mounted /\ page.claiming = FALSE
        /\ page.loading = portal[p].loading
    BY <1>1 DEF Page
  <2> HIDE DEF page
  <2>3. old.waiting /\ old.pc \notin LoadPcs /\ portal[p].mounted
    BY <1>1, <2>1, LiveMounted DEF CallFlags, LoadPcs
  <2>4. CallFlags(c) /\ ~c.live
    BY <1>1, <1>9, <2>1, <2>3
  <2> HIDE DEF c
  <2>5. portal'[p] = page
    BY <2>1, AfterPageTo
  <2> QED
    BY <2>1, <2>2, <2>3, <2>4, <2>5, FlowEnds
<1>11. ASSUME NEW stillSent \in BOOLEAN, UpdateFails(p, k, stillSent)
       PROVE  PortalFlags(p)'
  <2> DEFINE page == [portal[p] EXCEPT !.message = "error"]
             c == Abandoned(p, k, stillSent)
  <2>1. /\ PageTo(p, page) /\ CallTo(p, k, c) /\ old.live
        /\ old.pc \in {"update_sent", "update_done"}
        /\ ~stillSent \/ old.pc = "update_sent"
    BY <1>11 DEF UpdateFails, Live
  <2>2. /\ page.mounted = portal[p].mounted
        /\ page.claiming = portal[p].claiming
        /\ page.loading = portal[p].loading
    BY <1>2 DEF Message
  <2> HIDE DEF page
  <2>3. ~old.waiting /\ old.pc \notin LoadPcs /\ portal[p].mounted
    BY <1>1, <2>1, LiveMounted DEF CallFlags, LoadPcs
  <2>4. CallFlags(c) /\ ~c.live
    BY <1>1, <1>9, <2>1, <2>3
  <2> HIDE DEF c
  <2>5. portal'[p] = page
    BY <2>1, AfterPageTo
  <2> QED
    BY <2>1, <2>2, <2>3, <2>4, <2>5, FlowEnds
<1> QED
  BY <1>4, <1>5, <1>6, <1>7, <1>8, <1>10, <1>11 DEF PortalHandler

LEMMA PortalNextFlags ==
    ASSUME TypeOK, \A p \in Provider : PortalFlags(p), PortalNext
    PROVE  \A p \in Provider : PortalFlags(p)'
<1>1. PICK p \in Provider :
         \/ PortalUser(p)
         \/ \E k \in Slot : PortalServer(p, k) \/ PortalHandler(p, k)
  BY DEF PortalNext
<1>2. PortalFlags(p)'
  BY <1>1, UserFlags, ServerFlags, HandlerFlags DEF TypeOK
<1>3. ASSUME NEW x \in Provider, x # p
      PROVE  portal'[x] = portal[x] /\ call'[x] = call[x]
  BY <1>1, <1>3
  DEF TypeOK, PortalTypeOK, PortalUser, PortalServer, PortalHandler, CallTo,
      PageTo, OpenPortal, ClosePortal, Refresh, ClaimJob, UpdateStatus,
      ReadProvider, ReadOpenJobs, ReadMyJobs, ServerClaim, ServerUpdate,
      LoseRequest, GotProvider, GotJobs, LoadFails, GotClaim, GotUpdate,
      ClaimFails, UpdateFails
<1>4. ASSUME NEW x \in Provider, x # p PROVE PortalFlags(x)'
  BY <1>3, <1>4, OtherPages
<1> QED
  BY <1>2, <1>4

-----------------------------------------------------------------------------
(* The administrators' pages.                                              *)

LEMMA AdminSlot ==
    ASSUME AdminTypeOK, NEW a \in Admin, NEW k \in ASlot, NEW c,
           \A x \in Admin : AdminFlags(x), ACallTo(a, k, c),
           c.pc = "idle" => ~c.live, c.pc \in ALoadPcs => c.live,
           \A x \in Admin \ {a} : admin'[x] = admin[x],
           admin'[a].loading => \/ c.pc \in ALoadPcs
                                \/ admin[a].loading /\ acall[a][k].pc \notin ALoadPcs
    PROVE  \A x \in Admin : AdminFlags(x)'
<1>1. /\ acall'[a][k] = c
      /\ \A j \in ASlot \ {k} : acall'[a][j] = acall[a][j]
      /\ \A x \in Admin \ {a} : acall'[x] = acall[x]
  BY DEF AdminTypeOK, ACallTo
<1>2. AdminFlags(a)'
  BY <1>1 DEF AdminFlags
<1>3. ASSUME NEW x \in Admin, x # a PROVE AdminFlags(x)'
  BY <1>1, <1>3 DEF AdminFlags
<1> QED
  BY <1>2, <1>3

LEMMA AdminNextFlags ==
    ASSUME AdminTypeOK, \A a \in Admin : AdminFlags(a), AdminNext
    PROVE  \A a \in Admin : AdminFlags(a)'
<1>1. ALoadPcs = {"rows_sent", "profs_sent", "profs_done"}
      /\ AIdle.pc = "idle" /\ AIdle.live = FALSE
  BY DEF ALoadPcs, AIdle
<1>2. ASSUME NEW a \in Admin, NEW page, APageTo(a, page)
      PROVE  admin'[a] = page /\ \A x \in Admin \ {a} : admin'[x] = admin[x]
  BY <1>2 DEF AdminTypeOK, APageTo
<1>3. ASSUME NEW a \in Admin, NEW k \in ASlot
      PROVE  /\ acall[a][k] \in ACall /\ admin[a] \in AdminPage
             /\ acall[a][k].pc = "idle" => ~acall[a][k].live
             /\ acall[a][k].pc \in ALoadPcs => acall[a][k].live
             /\ admin[a].loading => \E j \in ASlot : acall[a][j].pc \in ALoadPcs
  BY DEF AdminTypeOK, AdminFlags
<1>4. ASSUME NEW a \in Admin, NEW filter
      PROVE  ALoadCall(filter).pc \in ALoadPcs /\ ALoadCall(filter).live
  BY <1>1 DEF ALoadCall, AIdle
<1>5. ASSUME NEW a \in Admin, CloseAdmin(a)
      PROVE  \A x \in Admin : AdminFlags(x)'
  <2>1. /\ admin'[a] = AClosed
        /\ \A x \in Admin \ {a} : admin'[x] = admin[x] /\ acall'[x] = acall[x]
        /\ \A k \in ASlot : acall'[a][k] =
              IF acall[a][k].pc \in Writes
              THEN [acall[a][k] EXCEPT !.live = FALSE] ELSE AIdle
    BY <1>5 DEF CloseAdmin, APageTo, AdminTypeOK
  <2>2. ASSUME NEW k \in ASlot
        PROVE  ~acall'[a][k].live /\ acall'[a][k].pc \notin ALoadPcs
    <3>1. acall[a][k] \in ACall
      BY <1>3
    <3>2. CASE acall[a][k].pc \in Writes
      BY <1>1, <2>1, <3>1, <3>2 DEF ACall, Writes
    <3>3. CASE acall[a][k].pc \notin Writes
      BY <1>1, <2>1, <3>3
    <3> QED
      BY <3>2, <3>3
  <2>3. AdminFlags(a)'
    BY <2>1, <2>2 DEF AdminFlags, AClosed
  <2>4. ASSUME NEW x \in Admin, x # a PROVE AdminFlags(x)'
    BY <2>1, <2>4 DEF AdminFlags
  <2> QED
    BY <2>3, <2>4
<1>6. ASSUME NEW a \in Admin, NEW k \in ASlot, NEW filter, NEW page,
             APageTo(a, page), ACallTo(a, k, ALoadCall(filter))
      PROVE  \A x \in Admin : AdminFlags(x)'
  BY <1>2, <1>4, <1>6, <1>1, AdminSlot
<1>7. ASSUME NEW a \in Admin, NEW k \in ASlot, NEW c, admin' = admin,
             ACallTo(a, k, c), c.pc \notin ALoadPcs, c.pc = "idle" => ~c.live,
             acall[a][k].pc \notin ALoadPcs
      PROVE  \A x \in Admin : AdminFlags(x)'
  BY <1>7, AdminSlot
<1>8. ASSUME NEW a \in Admin, AdminUser(a) PROVE \A x \in Admin : AdminFlags(x)'
  <2>1. ASSUME NEW k \in ASlot,
               \/ OpenAdmin(a, k) \/ RefreshAdmin(a, k)
               \/ \E filter \in Filters : SetFilter(a, k, filter)
        PROVE  \A x \in Admin : AdminFlags(x)'
    BY <1>6, <2>1 DEF OpenAdmin, RefreshAdmin, SetFilter
  <2>2. ASSUME NEW k \in ASlot, NEW p \in Provider,
               SetProviderVerification(a, k, p)
        PROVE  \A x \in Admin : AdminFlags(x)'
    <3> DEFINE c == [AIdle EXCEPT !.pc = "verify_sent", !.live = TRUE,
                        !.prov = p, !.verify = (admin[a].profs[p] # "verified")]
    <3>1. ACallTo(a, k, c) /\ admin' = admin /\ acall[a][k].pc = "idle"
      BY <2>2 DEF SetProviderVerification, AFree
    <3>2. c.pc = "verify_sent"
      BY DEF AIdle
    <3> HIDE DEF c
    <3> QED
      BY <1>1, <1>7, <3>1, <3>2
  <2>3. ASSUME NEW k \in ASlot, NEW b \in Booking, NEW p \in Provider,
               AssignProvider(a, k, b, p)
        PROVE  \A x \in Admin : AdminFlags(x)'
    <3> DEFINE c == [AIdle EXCEPT !.pc = "assign_sent", !.live = TRUE,
                                  !.bk = b, !.prov = p]
    <3>1. ACallTo(a, k, c) /\ admin' = admin /\ acall[a][k].pc = "idle"
      BY <2>3 DEF AssignProvider, AFree
    <3>2. c.pc = "assign_sent"
      BY DEF AIdle
    <3> HIDE DEF c
    <3> QED
      BY <1>1, <1>7, <3>1, <3>2
  <2>4. ASSUME NEW k \in ASlot, NEW b \in Booking, NEW s \in Status,
               UpdateBookingStatus(a, k, b, s)
        PROVE  \A x \in Admin : AdminFlags(x)'
    <3> DEFINE c == [AIdle EXCEPT !.pc = "status_sent", !.live = TRUE,
                                  !.bk = b, !.to = s]
    <3>1. ACallTo(a, k, c) /\ admin' = admin /\ acall[a][k].pc = "idle"
      BY <2>4 DEF UpdateBookingStatus, AFree
    <3>2. c.pc = "status_sent"
      BY DEF AIdle
    <3> HIDE DEF c
    <3> QED
      BY <1>1, <1>7, <3>1, <3>2
  <2> QED
    BY <1>5, <1>8, <2>1, <2>2, <2>3, <2>4 DEF AdminUser
<1>9. ASSUME NEW a \in Admin, NEW k \in ASlot, AdminServer(a, k)
      PROVE  \A x \in Admin : AdminFlags(x)'
  <2> DEFINE old == acall[a][k]
  <2>0. old \in ACall
    BY <1>3
  <2>1. CASE ReadBookings(a, k)
    <3> DEFINE c == [old EXCEPT !.pc = "profs_sent",
                                !.rows = FilteredRows(old.filter)]
    <3>1. ACallTo(a, k, c) /\ admin' = admin /\ old.pc = "rows_sent"
      BY <2>1 DEF ReadBookings
    <3>2. c.pc = "profs_sent" /\ c.live = old.live
      BY <2>0 DEF ACall
    <3> HIDE DEF c
    <3> QED
      BY <1>1, <1>3, <3>1, <3>2, AdminSlot
  <2>2. CASE ReadProfiles(a, k)
    <3> DEFINE c == [old EXCEPT !.pc = "profs_done", !.profs = profile]
    <3>1. ACallTo(a, k, c) /\ admin' = admin /\ old.pc = "profs_sent"
      BY <2>2 DEF ReadProfiles
    <3>2. c.pc = "profs_done" /\ c.live = old.live
      BY <2>0 DEF ACall
    <3> HIDE DEF c
    <3> QED
      BY <1>1, <1>3, <3>1, <3>2, AdminSlot
  <2>3. CASE old.pc \in Writes /\ Answered(a, k) /\ admin' = admin
    <3> DEFINE c == [AIdle EXCEPT !.pc = "write_done", !.live = TRUE]
    <3>1. ACallTo(a, k, c) \/ ACallTo(a, k, AIdle)
      BY <2>3 DEF Answered
    <3>2. c.pc = "write_done"
      BY DEF AIdle
    <3>3. old.pc \notin ALoadPcs
      BY <1>1, <2>3 DEF Writes
    <3> HIDE DEF c
    <3> QED
      BY <1>1, <1>7, <2>3, <3>1, <3>2, <3>3
  <2>4. CASE LoseWrite(a, k)
    BY <1>1, <1>7, <2>4 DEF LoseWrite, Writes
  <2> QED
    BY <1>9, <2>1, <2>2, <2>3, <2>4
    DEF AdminServer, ServerAssign, ServerStatus, ServerVerify, Writes
<1>10. ASSUME NEW a \in Admin, NEW k \in ASlot, AdminHandler(a, k)
       PROVE  \A x \in Admin : AdminFlags(x)'
  <2> DEFINE old == acall[a][k]
  <2>0. old \in ACall /\ admin[a] \in AdminPage
    BY <1>3
  <2>1. CASE GotAdminData(a, k) \/ AdminLoadFails(a, k)
    <3>1. ACallTo(a, k, AIdle)
      BY <2>1 DEF GotAdminData, AdminLoadFails
    <3>2. admin'[a].loading = FALSE
          /\ \A x \in Admin \ {a} : admin'[x] = admin[x]
      BY <2>0, <2>1
      DEF GotAdminData, AdminLoadFails, APageTo, AdminPage, AdminTypeOK
    <3> QED
      BY <1>1, <3>1, <3>2, AdminSlot
  <2>2. CASE GotWrite(a, k)
    BY <1>6, <2>2 DEF GotWrite
  <2>3. ASSUME NEW stillSent \in BOOLEAN, WriteFails(a, k, stillSent)
        PROVE  \A x \in Admin : AdminFlags(x)'
    <3> DEFINE c == [old EXCEPT !.live = FALSE]
    <3>1. /\ ACallTo(a, k, c) \/ ACallTo(a, k, AIdle)
          /\ admin' = admin /\ old.pc \in Writes \cup {"write_done"}
      BY <2>3 DEF WriteFails
    <3>2. c.pc = old.pc /\ c.live = FALSE
      BY <2>0 DEF ACall
    <3>3. old.pc \notin ALoadPcs
      BY <1>1, <3>1 DEF Writes
    <3> HIDE DEF c
    <3> QED
      BY <1>1, <1>7, <3>1, <3>2, <3>3
  <2> QED
    BY <1>10, <2>1, <2>2, <2>3 DEF AdminHandler
<1> QED
  BY <1>8, <1>9, <1>10 DEF AdminNext

-----------------------------------------------------------------------------
\* The flags of every page agree with its calls, in every reachable state.
THEOREM FlagInvariance == Spec => []FlagInv
<1>1. Init => FlagInv
  <2> SUFFICES ASSUME Init PROVE FlagInv
    OBVIOUS
  <2>1. PortalTypeOK /\ AdminTypeOK
    BY InitIInv DEF IInv, PortalInv, AdminInv
  <2>2. \A p \in Provider : PortalFlags(p)
    BY IdleFlags
    DEF Init, PortalInit, PortalFlags, ClaimFlow, Closed
  <2>3. \A a \in Admin : AdminFlags(a)
    BY DEF Init, AdminInit, AdminFlags, AClosed, AIdle, ALoadPcs
  <2> QED
    BY <2>1, <2>2, <2>3 DEF FlagInv
<1>2. ASSUME TypeOK, TypeOK', FlagInv, [Next]_vars PROVE FlagInv'
  <2>0. /\ \A p \in Provider : PortalFlags(p)
        /\ \A a \in Admin : AdminFlags(a)
    BY <1>2 DEF FlagInv
  <2>1. ASSUME UNCHANGED portalVars PROVE \A p \in Provider : PortalFlags(p)'
    BY <2>0, <2>1, OtherPages DEF portalVars
  <2>2. ASSUME UNCHANGED adminVars PROVE \A a \in Admin : AdminFlags(a)'
    BY <2>0, <2>2 DEF adminVars, AdminFlags
  <2>3. \A p \in Provider : PortalFlags(p)'
    BY <1>2, <2>0, <2>1, PortalNextFlags
    DEF Next, SubmitBooking, SubmitApplication, vars
  <2>4. \A a \in Admin : AdminFlags(a)'
    BY <1>2, <2>0, <2>2, AdminNextFlags
    DEF Next, SubmitBooking, SubmitApplication, vars, TypeOK
  <2> QED
    BY <1>2, <2>3, <2>4 DEF FlagInv, TypeOK
<1> QED
  BY <1>1, <1>2, Typing, PTL DEF Spec

\* A page never has two claim flows, and _isClaiming is up exactly while it
\* has one: through the reload, the error branches, and a page closed and
\* opened again.
THEOREM OneClaimFlow == Spec => []ClaimingIsOneFlow
<1>1. FlagInv => ClaimingIsOneFlow
  BY DEF FlagInv, PortalFlags, ClaimingIsOneFlow
<1> QED
  BY <1>1, FlagInvariance, PTL

\* Nobody is left behind a spinner that no running load will take down.
THEOREM SpinnerHasLoad == Spec => []NoStuckSpinner
<1>1. FlagInv => NoStuckSpinner
  BY DEF FlagInv, PortalFlags, AdminFlags, CallFlags, NoStuckSpinner
<1> QED
  BY <1>1, FlagInvariance, PTL
=============================================================================
