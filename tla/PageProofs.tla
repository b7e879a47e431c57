----------------------------- MODULE PageProofs -----------------------------
(***************************************************************************)
(* Lemmas about the pages of the administrators, then of the providers.    *)
(* AdminPagesOK and AdminCallsOK state AdminInv of any contents of the two *)
(* variables, so that what a step leaves in them is judged by the tables   *)
(* it found; Settled carries it over to the tables it leaves               *)
(* (AdminSettles).  PagesOK, CallsOK and RefusedOK do the same for         *)
(* PortalInv (PortalSettles).                                              *)
(***************************************************************************)
EXTENDS StoreProofs

-----------------------------------------------------------------------------
(* Administrators                                                            *)

AdminPagesOK(pages) ==
    /\ pages \in [Admin -> AdminPage]
    /\ \A a \in Admin, b \in Booking : WasRow(pages[a].rows[b], b)

AdminCallOK(c) ==
    /\ AdminSends(c)
    /\ \A b \in Booking : WasRow(c.rows[b], b)

AdminCallsOK(calls) ==
    /\ calls \in [Admin -> [ASlot -> ACall]]
    /\ \A a \in Admin, k \in ASlot : AdminCallOK(calls[a][k])

LEMMA AdminParts == AdminInv <=> AdminPagesOK(admin) /\ AdminCallsOK(acall)
BY DEF AdminInv, AdminTypeOK, AdminSees, AdminPagesOK, AdminCallOK, AdminCallsOK

LEMMA AdminSettles ==
    ASSUME Settled, AdminPagesOK(admin'), AdminCallsOK(acall')
    PROVE  AdminInv'
<1>1. AdminTypeOK'
  BY DEF AdminTypeOK, AdminPagesOK, AdminCallsOK
<1>2. ASSUME NEW a \in Admin PROVE AdminSees(a)'
  BY DEF AdminSees, WasRow, Settled, AdminPagesOK, AdminCallsOK, AdminCallOK
<1>3. ASSUME NEW a \in Admin, NEW k \in ASlot PROVE AdminSends(acall[a][k])'
  BY DEF AdminSends, Settled, AdminCallsOK, AdminCallOK
<1> QED
  BY <1>1, <1>2, <1>3 DEF AdminInv

\* What is written to one slot, and to one page.
LEMMA AdminCallTo ==
    ASSUME AdminCallsOK(acall), NEW a \in Admin, NEW k \in ASlot,
           NEW c \in ACall, AdminCallOK(c), ACallTo(a, k, c)
    PROVE  AdminCallsOK(acall')
<1>1. acall' \in [Admin -> [ASlot -> ACall]]
  BY DEF AdminCallsOK, ACallTo
<1>2. ASSUME NEW x \in Admin, NEW j \in ASlot
      PROVE  acall'[x][j] = IF x = a /\ j = k THEN c ELSE acall[x][j]
  BY DEF AdminCallsOK, ACallTo
<1> QED
  BY <1>1, <1>2 DEF AdminCallsOK

LEMMA AdminPageTo ==
    ASSUME AdminPagesOK(admin), NEW a \in Admin, NEW page \in AdminPage,
           \A b \in Booking : WasRow(page.rows[b], b), APageTo(a, page)
    PROVE  AdminPagesOK(admin')
BY DEF AdminPagesOK, APageTo

\* The calls and the rows the handlers write.
LEMMA AdminBlank ==
    /\ AIdle \in ACall /\ AdminCallOK(AIdle)
    /\ AClosed \in AdminPage
    /\ \A b \in Booking : NoRows[b] = NoRow /\ WasRow(NoRow, b)
    /\ NoRows \in [Booking -> Row] /\ NoProfiles \in [Provider -> Profile]
<1> USE FiltersAssumption
<1>1. NoRows \in [Booking -> Row] /\ NoProfiles \in [Provider -> Profile]
  BY DEF NoRows, NoProfiles, NoRow, Row, Profile
<1>2. AIdle \in ACall /\ AClosed \in AdminPage
  BY <1>1 DEF AIdle, ACall, APc, AClosed, AdminPage
<1>3. \A b \in Booking : NoRows[b] = NoRow /\ WasRow(NoRow, b)
  BY DEF NoRows, NoRow, WasRow, Absent
<1>4. AdminCallOK(AIdle)
  BY <1>3 DEF AdminCallOK, AdminSends, AIdle
<1> QED
  BY <1>1, <1>2, <1>3, <1>4

LEMMA AdminLoadOK ==
    ASSUME NEW filter \in Filters
    PROVE  ALoadCall(filter) \in ACall /\ AdminCallOK(ALoadCall(filter))
<1>1. ALoadCall(filter) \in ACall
  BY AdminBlank DEF ALoadCall, ACall, APc
<1>2. ALoadCall(filter).rows = NoRows
  BY DEF ALoadCall, AIdle
<1>3. ALoadCall(filter).pc = "rows_sent"
  BY DEF ALoadCall, AIdle
<1> QED
  BY <1>1, <1>2, <1>3, AdminBlank DEF AdminCallOK, AdminSends

\* Every step of an administrator's page keeps AdminInv, judged by the tables
\* it found, and is one of the statements of StoreStep.
LEMMA AdminUserStep ==
    ASSUME StoreInv, AdminInv, NEW a \in Admin, AdminUser(a)
    PROVE  AdminPagesOK(admin') /\ AdminCallsOK(acall') /\ UNCHANGED store
<1>0. AdminPagesOK(admin) /\ AdminCallsOK(acall)
  BY AdminParts
<1>1. /\ admin[a] \in AdminPage /\ admin[a].filter \in Filters
      /\ admin[a].rows \in [Booking -> Row]
      /\ \A b \in Booking : WasRow(admin[a].rows[b], b)
  BY <1>0 DEF AdminPagesOK, AdminPage
<1>2. CASE CloseAdmin(a)
  <2>1. AdminPagesOK(admin')
    BY <1>0, <1>2, AdminBlank, AdminPageTo DEF CloseAdmin, AClosed
  <2>2. acall' \in [Admin -> [ASlot -> ACall]]
    <3> DEFINE shut(k) == IF acall[a][k].pc \in Writes
                          THEN [acall[a][k] EXCEPT !.live = FALSE] ELSE AIdle
    <3>1. ASSUME NEW k \in ASlot PROVE shut(k) \in ACall
      <4>0. acall[a][k] \in ACall
        BY <1>0 DEF AdminCallsOK
      <4>1. [acall[a][k] EXCEPT !.live = FALSE] \in ACall
        BY <4>0 DEF ACall
      <4> QED
        BY <4>1, AdminBlank
    <3>2. acall' = [acall EXCEPT ![a] = [k \in ASlot |-> shut(k)]]
      BY <1>2 DEF CloseAdmin
    <3> HIDE DEF shut
    <3>3. [k \in ASlot |-> shut(k)] \in [ASlot -> ACall]
      BY <3>1
    <3> QED
      BY <1>0, <3>2, <3>3 DEF AdminCallsOK
  <2>3. ASSUME NEW x \in Admin, NEW k \in ASlot PROVE AdminCallOK(acall'[x][k])
    <3>1. \/ acall'[x][k] = acall[x][k] \/ acall'[x][k] = AIdle
          \/ acall'[x][k] = [acall[x][k] EXCEPT !.live = FALSE]
      BY <1>0, <1>2 DEF CloseAdmin, AdminCallsOK
    <3>2. AdminCallOK(acall[x][k]) /\ acall[x][k] \in ACall
      BY <1>0 DEF AdminCallsOK
    <3> QED
      BY <3>1, <3>2, AdminBlank DEF AdminCallOK, AdminSends, ACall
  <2> QED
    BY <1>2, <2>1, <2>2, <2>3 DEF CloseAdmin, AdminCallsOK
<1>3. ASSUME NEW k \in ASlot, OpenAdmin(a, k)
      PROVE  AdminPagesOK(admin') /\ AdminCallsOK(acall') /\ UNCHANGED store
  <2>1. "all" \in Filters
    BY FiltersAssumption
  <2> DEFINE page == [AClosed EXCEPT !.mounted = TRUE, !.loading = TRUE]
  <2>2. page \in AdminPage /\ page.rows = NoRows
    BY AdminBlank DEF AClosed, AdminPage
  <2> QED
    BY <1>0, <1>3, <2>1, <2>2, AdminBlank, AdminLoadOK, AdminPageTo, AdminCallTo
    DEF OpenAdmin
<1>4. ASSUME NEW k \in ASlot, RefreshAdmin(a, k)
      PROVE  AdminPagesOK(admin') /\ AdminCallsOK(acall') /\ UNCHANGED store
  <2> DEFINE page == [admin[a] EXCEPT !.loading = TRUE]
  <2>1. page \in AdminPage /\ page.rows = admin[a].rows
    BY <1>1 DEF AdminPage
  <2> QED
    BY <1>0, <1>1, <1>4, <2>1, AdminLoadOK, AdminPageTo, AdminCallTo
    DEF RefreshAdmin
<1>5. ASSUME NEW k \in ASlot, NEW filter \in Filters, SetFilter(a, k, filter)
      PROVE  AdminPagesOK(admin') /\ AdminCallsOK(acall') /\ UNCHANGED store
  <2> DEFINE page == [admin[a] EXCEPT !.loading = TRUE, !.filter = filter]
  <2>1. page \in AdminPage /\ page.rows = admin[a].rows
    BY <1>1 DEF AdminPage
  <2> QED
    BY <1>0, <1>1, <1>5, <2>1, AdminLoadOK, AdminPageTo, AdminCallTo
    DEF SetFilter
<1>6. ASSUME NEW k \in ASlot, NEW p \in Provider, SetProviderVerification(a, k, p)
      PROVE  AdminPagesOK(admin') /\ AdminCallsOK(acall') /\ UNCHANGED store
  <2> DEFINE c == [AIdle EXCEPT !.pc = "verify_sent", !.live = TRUE, !.prov = p,
                                !.verify = (admin[a].profs[p] # "verified")]
  <2>1. c \in ACall /\ c.rows = NoRows /\ c.pc = "verify_sent" /\ c.prov = p
    BY AdminBlank DEF AIdle, ACall, APc
  <2>2. AdminCallOK(c)
    BY <2>1, AdminBlank DEF AdminCallOK, AdminSends
  <2>3. ACallTo(a, k, c) /\ UNCHANGED <<store, admin>>
    BY <1>6 DEF SetProviderVerification
  <2> HIDE DEF c
  <2> QED
    BY <1>0, <2>1, <2>2, <2>3, AdminCallTo
<1>7. ASSUME NEW k \in ASlot, NEW b \in Booking, NEW p \in Provider,
             AssignProvider(a, k, b, p)
      PROVE  AdminPagesOK(admin') /\ AdminCallsOK(acall') /\ UNCHANGED store
  <2> DEFINE c == [AIdle EXCEPT !.pc = "assign_sent", !.live = TRUE, !.bk = b,
                                !.prov = p]
  <2>1. /\ c \in ACall /\ c.rows = NoRows
        /\ c.pc = "assign_sent" /\ c.bk = b /\ c.prov = p
    BY AdminBlank DEF AIdle, ACall, APc
  <2>2. AdminCallOK(c)
    BY <2>1, AdminBlank DEF AdminCallOK, AdminSends
  <2>3. ACallTo(a, k, c) /\ UNCHANGED <<store, admin>>
    BY <1>7 DEF AssignProvider
  <2> HIDE DEF c
  <2> QED
    BY <1>0, <2>1, <2>2, <2>3, AdminCallTo
<1>8. ASSUME NEW k \in ASlot, NEW b \in Booking, NEW s \in Status,
             UpdateBookingStatus(a, k, b, s)
      PROVE  AdminPagesOK(admin') /\ AdminCallsOK(acall') /\ UNCHANGED store
  <2> DEFINE c == [AIdle EXCEPT !.pc = "status_sent", !.live = TRUE, !.bk = b,
                                !.to = s]
  <2>1. /\ c \in ACall /\ c.rows = NoRows
        /\ c.pc = "status_sent" /\ c.bk = b /\ c.to = s
    BY AdminBlank DEF AIdle, ACall, APc
  <2>2. /\ s # "pending"
        /\ s # "cancelled" => admin[a].rows[b].status \in
                                 {"assigned", "accepted", "in_progress"}
    BY <1>8 DEF UpdateBookingStatus, AdminOffered
  <2>3. s # "cancelled" => bookings[b].provider # NoProvider
    BY <1>1, <2>2 DEF WasRow, Absent
  <2>4. AdminCallOK(c)
    BY <2>1, <2>2, <2>3, AdminBlank DEF AdminCallOK, AdminSends
  <2>5. ACallTo(a, k, c) /\ UNCHANGED <<store, admin>>
    BY <1>8 DEF UpdateBookingStatus
  <2> HIDE DEF c
  <2> QED
    BY <1>0, <2>1, <2>4, <2>5, AdminCallTo
<1> QED
  BY <1>2, <1>3, <1>4, <1>5, <1>6, <1>7, <1>8 DEF AdminUser

LEMMA AdminServerStep ==
    ASSUME StoreInv, AdminInv, NEW a \in Admin, NEW k \in ASlot,
           AdminServer(a, k)
    PROVE  AdminPagesOK(admin') /\ AdminCallsOK(acall') /\ StoreStep
<1>0. AdminPagesOK(admin) /\ AdminCallsOK(acall)
  BY AdminParts
<1> DEFINE old == acall[a][k]
<1>1. old \in ACall /\ AdminCallOK(old)
  BY <1>0 DEF AdminCallsOK
<1>2. CASE ReadBookings(a, k)
  <2> DEFINE c == [old EXCEPT !.pc = "profs_sent",
                              !.rows = FilteredRows(old.filter)]
  <2>1. FilteredRows(old.filter) \in [Booking -> Row]
    BY AdminBlank DEF FilteredRows, StoreInv, StoreTypeOK, NoRow, Row
  <2>2. c \in ACall /\ c.pc = "profs_sent" /\ c.rows = FilteredRows(old.filter)
    BY <1>1, <2>1 DEF ACall, APc
  <2>3. ASSUME NEW b \in Booking PROVE WasRow(c.rows[b], b)
    BY <2>2, AdminBlank
    DEF FilteredRows, WasRow, StoreInv, RowsOK, OwnershipMatchesStatus
  <2>4. AdminCallOK(c)
    BY <2>2, <2>3 DEF AdminCallOK, AdminSends
  <2>5. ACallTo(a, k, c) /\ UNCHANGED <<store, admin>>
    BY <1>2 DEF ReadBookings
  <2> HIDE DEF c
  <2> QED
    BY <1>0, <2>2, <2>4, <2>5, AdminCallTo DEF StoreStep
<1>3. CASE ReadProfiles(a, k)
  <2> DEFINE c == [old EXCEPT !.pc = "profs_done", !.profs = profile]
  <2>1. c \in ACall /\ c.pc = "profs_done" /\ c.rows = old.rows
    BY <1>1 DEF ACall, APc, StoreInv, StoreTypeOK
  <2>2. AdminCallOK(c)
    BY <1>1, <2>1 DEF AdminCallOK, AdminSends
  <2>3. ACallTo(a, k, c) /\ UNCHANGED <<store, admin>>
    BY <1>3 DEF ReadProfiles
  <2> HIDE DEF c
  <2> QED
    BY <1>0, <2>1, <2>2, <2>3, AdminCallTo DEF StoreStep
<1>4. ASSUME Answered(a, k) PROVE AdminCallsOK(acall')
  <2> DEFINE c == [AIdle EXCEPT !.pc = "write_done", !.live = TRUE]
  <2>1. c \in ACall /\ c.pc = "write_done" /\ c.rows = NoRows
    BY AdminBlank DEF AIdle, ACall, APc
  <2>2. AdminCallOK(c)
    BY <2>1, AdminBlank DEF AdminCallOK, AdminSends
  <2>3. ACallTo(a, k, c) \/ ACallTo(a, k, AIdle)
    BY <1>4 DEF Answered
  <2> HIDE DEF c
  <2> QED
    BY <1>0, <2>1, <2>2, <2>3, AdminBlank, AdminCallTo
<1>5. CASE ServerAssign(a, k)
  BY <1>0, <1>1, <1>4, <1>5 DEF ServerAssign, AdminCallOK, AdminSends, StoreStep
<1>6. CASE ServerStatus(a, k)
  BY <1>0, <1>1, <1>4, <1>6 DEF ServerStatus, AdminCallOK, AdminSends, StoreStep
<1>7. CASE ServerVerify(a, k)
  <2>1. old.verify \in BOOLEAN
    BY <1>1 DEF ACall
  <2> QED
    BY <1>0, <1>1, <1>4, <1>7, <2>1
    DEF ServerVerify, AdminCallOK, AdminSends, StoreStep
<1>8. CASE LoseWrite(a, k)
  BY <1>0, <1>8, AdminBlank, AdminCallTo DEF LoseWrite, StoreStep
<1> QED
  BY <1>2, <1>3, <1>5, <1>6, <1>7, <1>8 DEF AdminServer

LEMMA AdminHandlerStep ==
    ASSUME AdminInv, NEW a \in Admin, NEW k \in ASlot, AdminHandler(a, k)
    PROVE  AdminPagesOK(admin') /\ AdminCallsOK(acall') /\ UNCHANGED store
<1>0. AdminPagesOK(admin) /\ AdminCallsOK(acall)
  BY AdminParts
<1> DEFINE old == acall[a][k]
<1>1. old \in ACall /\ AdminCallOK(old)
  BY <1>0 DEF AdminCallsOK
<1>2. /\ admin[a] \in AdminPage /\ admin[a].filter \in Filters
      /\ \A b \in Booking : WasRow(admin[a].rows[b], b)
  BY <1>0 DEF AdminPagesOK, AdminPage
<1>3. CASE GotAdminData(a, k)
  <2> DEFINE page == [admin[a] EXCEPT !.loading = FALSE, !.rows = old.rows,
                                      !.profs = old.profs]
  <2>1. page \in AdminPage /\ page.rows = old.rows
    BY <1>1, <1>2 DEF ACall, AdminPage
  <2>2. \A b \in Booking : WasRow(page.rows[b], b)
    BY <1>1, <2>1 DEF AdminCallOK
  <2>3. APageTo(a, page) /\ ACallTo(a, k, AIdle) /\ UNCHANGED store
    BY <1>3 DEF GotAdminData
  <2> HIDE DEF page
  <2> QED
    BY <1>0, <2>1, <2>2, <2>3, AdminBlank, AdminPageTo, AdminCallTo
<1>4. CASE AdminLoadFails(a, k)
  <2> DEFINE page == [admin[a] EXCEPT !.loading = FALSE]
  <2>1. page \in AdminPage /\ page.rows = admin[a].rows
    BY <1>2 DEF AdminPage
  <2> QED
    BY <1>0, <1>2, <1>4, <2>1, AdminBlank, AdminPageTo, AdminCallTo
    DEF AdminLoadFails
<1>5. CASE GotWrite(a, k)
  <2> DEFINE page == [admin[a] EXCEPT !.loading = TRUE]
  <2>1. page \in AdminPage /\ page.rows = admin[a].rows
    BY <1>2 DEF AdminPage
  <2> QED
    BY <1>0, <1>2, <1>5, <2>1, AdminLoadOK, AdminPageTo, AdminCallTo
    DEF GotWrite
<1>6. ASSUME NEW stillSent \in BOOLEAN, WriteFails(a, k, stillSent)
      PROVE  AdminPagesOK(admin') /\ AdminCallsOK(acall') /\ UNCHANGED store
  <2> DEFINE c == [old EXCEPT !.live = FALSE]
  <2>1. /\ c \in ACall /\ c.rows = old.rows
        /\ c.pc = old.pc /\ c.bk = old.bk /\ c.prov = old.prov /\ c.to = old.to
    BY <1>1 DEF ACall
  <2>2. AdminCallOK(c)
    BY <1>1, <2>1 DEF AdminCallOK, AdminSends
  <2>3. /\ ACallTo(a, k, c) \/ ACallTo(a, k, AIdle)
        /\ UNCHANGED <<store, admin>>
    BY <1>6 DEF WriteFails
  <2> HIDE DEF c
  <2> QED
    BY <1>0, <2>1, <2>2, <2>3, AdminBlank, AdminCallTo
<1> QED
  BY <1>3, <1>4, <1>5, <1>6 DEF AdminHandler

LEMMA AdminStep ==
    ASSUME StoreInv, AdminInv, AdminNext
    PROVE  AdminPagesOK(admin') /\ AdminCallsOK(acall') /\ StoreStep
BY AdminUserStep, AdminServerStep, AdminHandlerStep DEF AdminNext, StoreStep

-----------------------------------------------------------------------------
(* Providers                                                                 *)

PageOK(p, page) ==
    /\ page \in Page
    /\ page.id => p \in everVerified
    /\ \A b \in page.openJobs : Exists(b)

PagesOK(pages) ==
    /\ pages \in [Provider -> Page]
    /\ \A p \in Provider : PageOK(p, pages[p])

CallOK(p, c) == c \in Call /\ CallCarries(p, c)

CallsOK(calls) ==
    /\ calls \in [Provider -> [Slot -> Call]]
    /\ \A p \in Provider, k \in Slot : CallOK(p, calls[p][k])

RefusedOK(told) ==
    /\ told \in [Provider -> SUBSET Booking]
    /\ \A p \in Provider : \A b \in told[p] : Exists(b) /\ ~IsOpen(b)

LEMMA PortalParts ==
    PortalInv <=> PagesOK(portal) /\ CallsOK(call) /\ RefusedOK(refused)
BY DEF PortalInv, PortalTypeOK, PortalSees, PagesOK, PageOK, CallsOK, CallOK,
       RefusedOK

LEMMA PortalSettles ==
    ASSUME Settled, PagesOK(portal'), CallsOK(call'), RefusedOK(refused')
    PROVE  PortalInv'
<1>1. PortalTypeOK'
  BY DEF PortalTypeOK, PagesOK, CallsOK, RefusedOK
<1>2. ASSUME NEW p \in Provider PROVE PortalSees(p)'
  <2>1. portal'[p] \in Page /\ refused'[p] \in SUBSET Booking
    BY DEF PagesOK, RefusedOK
  <2>2. portal'[p].openJobs \in SUBSET Booking
    BY <2>1 DEF Page
  <2> QED
    BY <2>1, <2>2 DEF PortalSees, Settled, PagesOK, PageOK, RefusedOK
<1>3. ASSUME NEW p \in Provider, NEW k \in Slot
      PROVE  CallCarries(p, call[p][k])'
  <2>1. call'[p][k] \in Call /\ CallCarries(p, call'[p][k])
    BY DEF CallsOK, CallOK
  <2>2. call'[p][k].open \in SUBSET Booking
    BY <2>1 DEF Call
  <2> QED
    BY <2>1, <2>2 DEF CallCarries, Settled
<1> QED
  BY <1>1, <1>2, <1>3 DEF PortalInv

\* What is written to one slot, and to one page.
LEMMA CallToOK ==
    ASSUME CallsOK(call), NEW p \in Provider, NEW k \in Slot,
           NEW c, CallOK(p, c), CallTo(p, k, c)
    PROVE  CallsOK(call')
<1>1. c \in Call
  BY DEF CallOK
<1>2. call' \in [Provider -> [Slot -> Call]]
  BY <1>1 DEF CallsOK, CallTo
<1>3. ASSUME NEW x \in Provider, NEW j \in Slot
      PROVE  call'[x][j] = IF x = p /\ j = k THEN c ELSE call[x][j]
  BY <1>1 DEF CallsOK, CallTo
<1> QED
  BY <1>2, <1>3 DEF CallsOK

LEMMA PageToOK ==
    ASSUME PagesOK(portal), NEW p \in Provider, NEW page, PageOK(p, page),
           PageTo(p, page)
    PROVE  PagesOK(portal')
BY DEF PagesOK, PageOK, PageTo

\* The pages and the calls the handlers start from.
LEMMA BlankOK ==
    ASSUME NEW p \in Provider
    PROVE  CallOK(p, Idle) /\ PageOK(p, Closed)
<1>1. NoJobs \in [Booking -> Status \cup {Absent}]
  BY DEF NoJobs
<1>2. Idle \in Call
  BY <1>1 DEF Idle, Call, Pc, Profile
<1>3. Closed \in Page
  BY <1>1 DEF Closed, Page, Message
<1>4. CallCarries(p, Idle)
  BY DEF CallCarries, Idle
<1> QED
  BY <1>2, <1>3, <1>4 DEF CallOK, PageOK, Closed

\* Handlers change the flags and the message of a page; what PageOK is about
\* stays.
LEMMA SamePage ==
    ASSUME NEW p \in Provider, NEW page, PageOK(p, page), NEW new \in Page,
           new.id = page.id, new.openJobs = page.openJobs
    PROVE  PageOK(p, new)
BY DEF PageOK

LEMMA LoadStartedOK ==
    ASSUME NEW p \in Provider, NEW page, PageOK(p, page),
           NEW signedIn \in BOOLEAN
    PROVE  PageOK(p, LoadStarted(page, signedIn))
<1>1. page \in Page
  BY DEF PageOK
<1>2. LoadStarted(page, signedIn) \in Page
  BY <1>1 DEF LoadStarted, Page, Message
<1>3. /\ LoadStarted(page, signedIn).id = page.id
      /\ LoadStarted(page, signedIn).openJobs = page.openJobs
  BY <1>1 DEF LoadStarted, Page
<1> QED
  BY <1>2, <1>3, SamePage

LEMMA ClaimOverOK ==
    ASSUME NEW p \in Provider, NEW page, PageOK(p, page),
           NEW waiting \in BOOLEAN
    PROVE  PageOK(p, ClaimOver(page, waiting))
<1>1. page \in Page
  BY DEF PageOK
<1>2. ClaimOver(page, waiting) \in Page
  BY <1>1 DEF ClaimOver, Page
<1>3. /\ ClaimOver(page, waiting).id = page.id
      /\ ClaimOver(page, waiting).openJobs = page.openJobs
  BY <1>1 DEF ClaimOver, Page
<1> QED
  BY <1>2, <1>3, SamePage

LEMMA LoadOverOK ==
    ASSUME NEW p \in Provider, NEW page, PageOK(p, page),
           NEW waiting \in BOOLEAN
    PROVE  PageOK(p, LoadOver(page, waiting))
<1> DEFINE done == [page EXCEPT !.loading = FALSE]
<1>1. page \in Page
  BY DEF PageOK
<1>2. done \in Page /\ done.id = page.id /\ done.openJobs = page.openJobs
  BY <1>1 DEF Page
<1>3. LoadOver(page, waiting) = ClaimOver(done, waiting)
  BY DEF LoadOver
<1> HIDE DEF done
<1> QED
  BY <1>2, <1>3, SamePage, ClaimOverOK

LEMMA LoadCallOK ==
    ASSUME NEW p \in Provider, NEW signedIn \in BOOLEAN,
           NEW waiting \in BOOLEAN
    PROVE  CallOK(p, LoadCall(signedIn, waiting))
<1> DEFINE c == [Idle EXCEPT !.pc = "provider_sent", !.live = TRUE,
                             !.waiting = waiting]
<1>1. Idle \in Call
  BY BlankOK DEF CallOK
<1>2. c \in Call
  BY <1>1 DEF Call, Pc
<1>3. CallCarries(p, c)
  BY DEF CallCarries, Idle
<1> QED
  BY <1>2, <1>3, BlankOK DEF LoadCall, CallOK

-----------------------------------------------------------------------------
(* The steps.                                                              *)

LEMMA SessionBoolean == \A signedIn \in Session : signedIn \in BOOLEAN
BY DEF Session

LEMMA PortalUserStep ==
    ASSUME StoreInv, PortalInv, NEW p \in Provider, PortalUser(p)
    PROVE  PagesOK(portal') /\ CallsOK(call') /\ RefusedOK(refused')
           /\ UNCHANGED store
<1> DEFINE Goal == PagesOK(portal') /\ CallsOK(call') /\ RefusedOK(refused')
                   /\ UNCHANGED store
<1>0. PagesOK(portal) /\ CallsOK(call) /\ RefusedOK(refused)
  BY PortalParts
<1>1. PageOK(p, portal[p]) /\ portal[p] \in Page
  BY <1>0 DEF PagesOK, PageOK
<1>2. CASE ClosePortal(p)
  <2> DEFINE shut(k) == IF call[p][k].pc \in {"claim_sent", "update_sent"}
                        THEN [call[p][k] EXCEPT !.live = FALSE] ELSE Idle
  <2>1. ASSUME NEW k \in Slot PROVE CallOK(p, shut(k))
    <3> DEFINE c == [call[p][k] EXCEPT !.live = FALSE]
    <3>1. call[p][k] \in Call /\ CallCarries(p, call[p][k])
      BY <1>0 DEF CallsOK, CallOK
    <3>2. /\ c \in Call /\ c.pc = call[p][k].pc /\ c.prof = call[p][k].prof
          /\ c.open = call[p][k].open /\ c.bk = call[p][k].bk
          /\ c.to = call[p][k].to /\ c.ok = call[p][k].ok
      BY <3>1 DEF Call
    <3>3. CallOK(p, c)
      BY <3>1, <3>2 DEF CallOK, CallCarries
    <3> HIDE DEF c
    <3> QED
      BY <3>3, BlankOK DEF c
  <2>2. call' = [call EXCEPT ![p] = [k \in Slot |-> shut(k)]]
    BY <1>2 DEF ClosePortal
  <2> HIDE DEF shut
  <2>3. [k \in Slot |-> shut(k)] \in [Slot -> Call]
    BY <2>1 DEF CallOK
  <2>4. call' \in [Provider -> [Slot -> Call]]
    BY <1>0, <2>2, <2>3 DEF CallsOK
  <2>5. ASSUME NEW x \in Provider, NEW j \in Slot
        PROVE  call'[x][j] = IF x = p THEN shut(j) ELSE call[x][j]
    BY <1>0, <2>2 DEF CallsOK
  <2>6. CallsOK(call')
    BY <1>0, <2>1, <2>4, <2>5 DEF CallsOK
  <2>7. PagesOK(portal')
    BY <1>0, <1>2, BlankOK, PageToOK DEF ClosePortal
  <2> QED
    BY <1>0, <1>2, <2>6, <2>7 DEF ClosePortal
<1>3. ASSUME NEW k \in Slot, NEW signedIn \in Session,
             OpenPortal(p, k, signedIn)
      PROVE  Goal
  <2> DEFINE page == [Closed EXCEPT !.mounted = TRUE]
  <2>1. Closed \in Page /\ PageOK(p, Closed)
    BY BlankOK DEF PageOK
  <2>2. page \in Page /\ page.id = Closed.id /\ page.openJobs = Closed.openJobs
    BY <2>1 DEF Page
  <2>3. PageOK(p, page)
    BY <2>1, <2>2, SamePage
  <2>4. /\ PageTo(p, LoadStarted(page, signedIn))
        /\ CallTo(p, k, LoadCall(signedIn, FALSE))
        /\ UNCHANGED <<store, refused>>
    BY <1>3 DEF OpenPortal
  <2> HIDE DEF page
  <2> QED
    BY <1>0, <2>3, <2>4, SessionBoolean, LoadStartedOK, LoadCallOK, PageToOK,
       CallToOK
<1>4. ASSUME NEW k \in Slot, NEW signedIn \in Session, Refresh(p, k, signedIn)
      PROVE  Goal
  BY <1>0, <1>1, <1>4, SessionBoolean, LoadStartedOK, LoadCallOK, PageToOK,
     CallToOK DEF Refresh
<1>5. ASSUME NEW k \in Slot, NEW b \in Booking, ClaimJob(p, k, b)
      PROVE  Goal
  <2> DEFINE c == [Idle EXCEPT !.pc = "claim_sent", !.live = TRUE,
                               !.waiting = TRUE, !.bk = b]
             page == [portal[p] EXCEPT !.claiming = TRUE, !.message = "none"]
  <2>1. /\ page \in Page /\ page.id = portal[p].id
        /\ page.openJobs = portal[p].openJobs
    BY <1>1 DEF Page, Message
  <2>2. PageOK(p, page)
    BY <1>1, <2>1, SamePage
  <2>3. Exists(b) /\ p \in everVerified
    BY <1>1, <1>5 DEF ClaimJob, CanClaim, PageOK
  <2>4. Idle \in Call
    BY BlankOK DEF CallOK
  <2>5. /\ c \in Call /\ c.pc = "claim_sent" /\ c.bk = b
        /\ c.prof = "absent" /\ c.open = {}
    BY <2>4 DEF Call, Pc, Idle
  <2>6. CallOK(p, c)
    BY <2>3, <2>5 DEF CallOK, CallCarries
  <2>7. PageTo(p, page) /\ CallTo(p, k, c) /\ UNCHANGED <<store, refused>>
    BY <1>5 DEF ClaimJob
  <2> HIDE DEF c, page
  <2> QED
    BY <1>0, <2>2, <2>6, <2>7, PageToOK, CallToOK
<1>6. ASSUME NEW k \in Slot, NEW b \in Booking, NEW s \in Status,
             UpdateStatus(p, k, b, s)
      PROVE  Goal
  <2> DEFINE c == [Idle EXCEPT !.pc = "update_sent", !.live = TRUE, !.bk = b,
                               !.to = s]
  <2>1. s # "pending"
    BY <1>6 DEF UpdateStatus, Offered
  <2>2. Idle \in Call
    BY BlankOK DEF CallOK
  <2>3. /\ c \in Call /\ c.pc = "update_sent" /\ c.bk = b /\ c.to = s
        /\ c.prof = "absent" /\ c.open = {}
    BY <2>2 DEF Call, Pc, Idle
  <2>4. CallOK(p, c)
    BY <2>1, <2>3 DEF CallOK, CallCarries
  <2>5. CallTo(p, k, c) /\ UNCHANGED <<store, portal, refused>>
    BY <1>6 DEF UpdateStatus
  <2> HIDE DEF c
  <2> QED
    BY <1>0, <2>4, <2>5, CallToOK
<1> QED
  BY <1>2, <1>3, <1>4, <1>5, <1>6 DEF PortalUser

LEMMA PortalServerStep ==
    ASSUME StoreInv, PortalInv, NEW p \in Provider, NEW k \in Slot,
           PortalServer(p, k)
    PROVE  PagesOK(portal') /\ CallsOK(call') /\ RefusedOK(refused')
           /\ StoreStep
<1> DEFINE old == call[p][k]
<1>0. PagesOK(portal) /\ CallsOK(call) /\ RefusedOK(refused)
  BY PortalParts
<1>1. old \in Call /\ CallCarries(p, old)
  BY <1>0 DEF CallsOK, CallOK
<1>2. CASE ReadProvider(p, k)
  <2> DEFINE c == [old EXCEPT !.pc = "provider_done", !.prof = profile[p]]
  <2>1. profile[p] \in Profile /\ (profile[p] = "verified" => p \in everVerified)
    BY DEF StoreInv, StoreTypeOK
  <2>2. /\ c \in Call /\ c.pc = "provider_done" /\ c.prof = profile[p]
        /\ c.open = old.open
    BY <1>1, <2>1 DEF Call, Pc
  <2>3. CallOK(p, c)
    BY <1>1, <2>1, <2>2 DEF CallOK, CallCarries
  <2>4. CallTo(p, k, c) /\ UNCHANGED <<store, portal, refused>>
    BY <1>2 DEF ReadProvider
  <2> HIDE DEF c
  <2> QED
    BY <1>0, <2>3, <2>4, CallToOK DEF StoreStep
<1>3. CASE ReadOpenJobs(p, k)
  <2> DEFINE c == [old EXCEPT !.pc = "mine_sent", !.open = OpenRows]
  <2>1. OpenRows \in SUBSET Booking /\ \A b \in OpenRows : Exists(b)
    BY DEF OpenRows, IsOpen, Exists, Absent
  <2>2. /\ c \in Call /\ c.pc = "mine_sent" /\ c.prof = old.prof
        /\ c.open = OpenRows
    BY <1>1, <2>1 DEF Call, Pc
  <2>3. CallOK(p, c)
    BY <1>1, <2>1, <2>2 DEF CallOK, CallCarries
  <2>4. CallTo(p, k, c) /\ UNCHANGED <<store, portal, refused>>
    BY <1>3 DEF ReadOpenJobs
  <2> HIDE DEF c
  <2> QED
    BY <1>0, <2>3, <2>4, CallToOK DEF StoreStep
<1>4. CASE ReadMyJobs(p, k)
  <2> DEFINE c == [old EXCEPT !.pc = "mine_done", !.mine = RowsOf(p)]
  <2>1. RowsOf(p) \in [Booking -> Status \cup {Absent}]
    BY DEF RowsOf, StoreInv, StoreTypeOK, Row
  <2>2. /\ c \in Call /\ c.pc = "mine_done" /\ c.prof = old.prof
        /\ c.open = old.open
    BY <1>1, <2>1 DEF Call, Pc
  <2>3. CallOK(p, c)
    BY <1>1, <2>2 DEF CallOK, CallCarries
  <2>4. CallTo(p, k, c) /\ UNCHANGED <<store, portal, refused>>
    BY <1>4 DEF ReadMyJobs
  <2> HIDE DEF c
  <2> QED
    BY <1>0, <2>3, <2>4, CallToOK DEF StoreStep
<1>5. CASE ServerClaim(p, k)
  <2> DEFINE c == [old EXCEPT !.pc = "claim_done",
                              !.ok = ClaimMatches(old.bk, p)]
  <2>1. old.bk \in Booking /\ Exists(old.bk) /\ p \in everVerified
    BY <1>1, <1>5 DEF ServerClaim, CallCarries
  <2>2. ClaimMatches(old.bk, p) \in BOOLEAN
        /\ (~ClaimMatches(old.bk, p) => ~IsOpen(old.bk))
    BY DEF ClaimMatches, IsOpen
  <2>3. /\ c \in Call /\ c.pc = "claim_done" /\ c.prof = old.prof
        /\ c.open = old.open /\ c.bk = old.bk /\ c.ok = ClaimMatches(old.bk, p)
    BY <1>1, <2>2 DEF Call, Pc
  <2>4. CallOK(p, c)
    BY <1>1, <2>1, <2>2, <2>3 DEF CallOK, CallCarries
  <2>5. /\ CallTo(p, k, c) \/ CallTo(p, k, Idle)
        /\ UpdateClaim(old.bk, p) /\ UNCHANGED <<portal, refused>>
    BY <1>5 DEF ServerClaim
  <2> HIDE DEF c
  <2> QED
    BY <1>0, <2>1, <2>4, <2>5, BlankOK, CallToOK DEF StoreStep
<1>6. CASE ServerUpdate(p, k)
  <2> DEFINE c == [old EXCEPT !.pc = "update_done"]
  <2>1. old.bk \in Booking /\ old.to \in Status \ {"pending"}
    BY <1>1, <1>6 DEF ServerUpdate, CallCarries
  <2>2. /\ c \in Call /\ c.pc = "update_done" /\ c.prof = old.prof
        /\ c.open = old.open
    BY <1>1 DEF Call, Pc
  <2>3. CallOK(p, c)
    BY <1>1, <2>2 DEF CallOK, CallCarries
  <2>4. /\ CallTo(p, k, c) \/ CallTo(p, k, Idle)
        /\ UpdateOwnStatus(old.bk, p, old.to) /\ UNCHANGED <<portal, refused>>
    BY <1>6 DEF ServerUpdate
  <2> HIDE DEF c
  <2> QED
    BY <1>0, <2>1, <2>3, <2>4, BlankOK, CallToOK DEF StoreStep
<1>7. CASE LoseRequest(p, k)
  BY <1>0, <1>7, BlankOK, CallToOK DEF LoseRequest, StoreStep
<1> QED
  BY <1>2, <1>3, <1>4, <1>5, <1>6, <1>7 DEF PortalServer

LEMMA PortalHandlerStep ==
    ASSUME PortalInv, NEW p \in Provider, NEW k \in Slot,
           PortalHandler(p, k)
    PROVE  PagesOK(portal') /\ CallsOK(call') /\ RefusedOK(refused')
           /\ UNCHANGED store
<1> DEFINE old == call[p][k]
           Goal == PagesOK(portal') /\ CallsOK(call') /\ RefusedOK(refused')
                   /\ UNCHANGED store
<1>0. PagesOK(portal) /\ CallsOK(call) /\ RefusedOK(refused)
  BY PortalParts
<1>1. old \in Call /\ CallCarries(p, old) /\ old.waiting \in BOOLEAN
  <2>1. old \in Call /\ CallCarries(p, old)
    BY <1>0 DEF CallsOK, CallOK
  <2> QED
    BY <2>1 DEF Call
<1>2. PageOK(p, portal[p]) /\ portal[p] \in Page
  BY <1>0 DEF PagesOK, PageOK
<1>3. ASSUME NEW m \in Message
      PROVE  PageOK(p, [portal[p] EXCEPT !.message = m])
  <2> DEFINE page == [portal[p] EXCEPT !.message = m]
  <2>1. /\ page \in Page /\ page.id = portal[p].id
        /\ page.openJobs = portal[p].openJobs
    BY <1>2 DEF Page
  <2> HIDE DEF page
  <2>2. PageOK(p, page)
    BY <1>2, <2>1, SamePage
  <2> QED
    BY <2>2 DEF page
<1>4. CASE GotProvider(p, k)
  <2>1. CASE MayWork(old.prof)
    <3> DEFINE c == [old EXCEPT !.pc = "open_sent", !.prof = "absent"]
               page == [portal[p] EXCEPT !.id = TRUE]
    <3>1. p \in everVerified
      BY <1>1, <2>1 DEF MayWork, CallCarries
    <3>2. c \in Call /\ c.pc = "open_sent" /\ c.prof = "absent" /\ c.open = old.open
      BY <1>1 DEF Call, Pc, Profile
    <3>3. CallOK(p, c)
      BY <1>1, <3>2 DEF CallOK, CallCarries
    <3>4. page \in Page /\ page.openJobs = portal[p].openJobs
      BY <1>2 DEF Page
    <3>5. PageOK(p, page)
      BY <1>2, <3>1, <3>4 DEF PageOK
    <3>6. PageTo(p, page) /\ CallTo(p, k, c) /\ UNCHANGED <<store, refused>>
      BY <1>4, <2>1 DEF GotProvider
    <3> HIDE DEF c, page
    <3> QED
      BY <1>0, <3>3, <3>5, <3>6, PageToOK, CallToOK
  <2>2. CASE ~MayWork(old.prof)
    <3> DEFINE m == IF old.prof = "absent" THEN "error" ELSE "notVerified"
               page == [portal[p] EXCEPT !.message = m]
    <3>1. m \in Message
      BY DEF Message
    <3>2. /\ PageTo(p, LoadOver(page, old.waiting)) /\ CallTo(p, k, Idle)
          /\ UNCHANGED <<store, refused>>
      BY <1>4, <2>2 DEF GotProvider
    <3> HIDE DEF m
    <3>3. PageOK(p, page)
      BY <1>3, <3>1
    <3> HIDE DEF page
    <3> QED
      BY <1>0, <1>1, <3>2, <3>3, BlankOK, LoadOverOK, PageToOK, CallToOK
  <2> QED
    BY <2>1, <2>2
<1>5. CASE GotJobs(p, k)
  <2> DEFINE page == [portal[p] EXCEPT !.openJobs = old.open,
                                       !.myJobs = old.mine]
  <2>1. page \in Page /\ page.id = portal[p].id /\ page.openJobs = old.open
    BY <1>1, <1>2 DEF Page, Call
  <2>2. PageOK(p, page)
    BY <1>1, <1>2, <2>1 DEF PageOK, CallCarries
  <2>3. /\ PageTo(p, LoadOver(page, old.waiting)) /\ CallTo(p, k, Idle)
        /\ UNCHANGED <<store, refused>>
    BY <1>5 DEF GotJobs
  <2> HIDE DEF page
  <2> QED
    BY <1>0, <1>1, <2>2, <2>3, BlankOK, LoadOverOK, PageToOK, CallToOK
<1>6. CASE LoadFails(p, k)
  <2> DEFINE page == [portal[p] EXCEPT !.message = "error"]
  <2>1. PageOK(p, page)
    BY <1>3 DEF Message
  <2>2. /\ PageTo(p, LoadOver(page, old.waiting)) /\ CallTo(p, k, Idle)
        /\ UNCHANGED <<store, refused>>
    BY <1>6 DEF LoadFails
  <2> HIDE DEF page
  <2> QED
    BY <1>0, <1>1, <2>1, <2>2, BlankOK, LoadOverOK, PageToOK, CallToOK
<1>7. ASSUME NEW signedIn \in Session, GotClaim(p, k, signedIn) PROVE Goal
  <2> DEFINE m == IF old.ok THEN "claimed" ELSE "alreadyClaimed"
             told == [portal[p] EXCEPT !.message = m]
             page == ClaimOver(LoadStarted(told, signedIn), ~signedIn)
  <2>1. m \in Message /\ signedIn \in BOOLEAN /\ (~signedIn) \in BOOLEAN
    BY SessionBoolean DEF Message
  <2>2. /\ PageTo(p, page) /\ CallTo(p, k, LoadCall(signedIn, TRUE))
        /\ UNCHANGED store
    BY <1>7 DEF GotClaim
  <2>3. RefusedOK(refused')
    <3>1. ~old.ok => old.bk \in Booking /\ Exists(old.bk) /\ ~IsOpen(old.bk)
      BY <1>1, <1>7 DEF GotClaim, CallCarries
    <3>2. refused' = IF old.ok THEN refused
                     ELSE [refused EXCEPT ![p] = @ \cup {old.bk}]
      BY <1>7 DEF GotClaim
    <3> QED
      BY <1>0, <3>1, <3>2 DEF RefusedOK
  <2> HIDE DEF m
  <2>4. PageOK(p, told)
    BY <1>3, <2>1
  <2> HIDE DEF told
  <2>5. PageOK(p, page)
    <3>1. PageOK(p, LoadStarted(told, signedIn))
      BY <2>1, <2>4, LoadStartedOK
    <3> QED
      BY <2>1, <3>1, ClaimOverOK
  <2> HIDE DEF page
  <2> QED
    BY <1>0, <2>1, <2>2, <2>3, <2>5, LoadCallOK, PageToOK, CallToOK
<1>8. ASSUME NEW signedIn \in Session, GotUpdate(p, k, signedIn) PROVE Goal
  <2> DEFINE told == [portal[p] EXCEPT !.message = "statusChanged"]
  <2>1. PageOK(p, told)
    BY <1>3 DEF Message
  <2>2. /\ PageTo(p, LoadStarted(told, signedIn))
        /\ CallTo(p, k, LoadCall(signedIn, FALSE))
        /\ UNCHANGED <<store, refused>>
    BY <1>8 DEF GotUpdate
  <2> HIDE DEF told
  <2> QED
    BY <1>0, <2>1, <2>2, SessionBoolean, LoadStartedOK, LoadCallOK, PageToOK,
       CallToOK
<1>9. ASSUME NEW stillSent \in BOOLEAN PROVE CallOK(p, Abandoned(p, k, stillSent))
  <2> DEFINE c == [old EXCEPT !.live = FALSE]
  <2>1. /\ c \in Call /\ c.pc = old.pc /\ c.prof = old.prof
        /\ c.open = old.open /\ c.bk = old.bk /\ c.to = old.to /\ c.ok = old.ok
    BY <1>1 DEF Call
  <2>2. CallOK(p, c)
    BY <1>1, <2>1 DEF CallOK, CallCarries
  <2>3. Abandoned(p, k, stillSent) \in {c, Idle}
    BY DEF Abandoned
  <2> HIDE DEF c
  <2> QED
    BY <2>2, <2>3, BlankOK
<1>10. ASSUME NEW stillSent \in BOOLEAN, ClaimFails(p, k, stillSent) PROVE Goal
  <2> DEFINE page == [portal[p] EXCEPT !.message = "error", !.claiming = FALSE]
  <2>1. /\ page \in Page /\ page.id = portal[p].id
        /\ page.openJobs = portal[p].openJobs
    BY <1>2 DEF Page, Message
  <2>2. PageOK(p, page)
    BY <1>2, <2>1, SamePage
  <2>3. /\ PageTo(p, page) /\ CallTo(p, k, Abandoned(p, k, stillSent))
        /\ UNCHANGED <<store, refused>>
    BY <1>10 DEF ClaimFails
  <2> HIDE DEF page
  <2> QED
    BY <1>0, <1>9, <2>2, <2>3, PageToOK, CallToOK
<1>11. ASSUME NEW stillSent \in BOOLEAN, UpdateFails(p, k, stillSent) PROVE Goal
  <2> DEFINE page == [portal[p] EXCEPT !.message = "error"]
  <2>1. PageOK(p, page)
    BY <1>3 DEF Message
  <2>2. /\ PageTo(p, page) /\ CallTo(p, k, Abandoned(p, k, stillSent))
        /\ UNCHANGED <<store, refused>>
    BY <1>11 DEF UpdateFails
  <2> HIDE DEF page
  <2> QED
    BY <1>0, <1>9, <2>1, <2>2, PageToOK, CallToOK
<1> QED
  BY <1>4, <1>5, <1>6, <1>7, <1>8, <1>10, <1>11 DEF PortalHandler

LEMMA PortalStep ==
    ASSUME StoreInv, PortalInv, PortalNext
    PROVE  PagesOK(portal') /\ CallsOK(call') /\ RefusedOK(refused')
           /\ StoreStep
BY PortalUserStep, PortalServerStep, PortalHandlerStep
DEF PortalNext, StoreStep
=============================================================================
