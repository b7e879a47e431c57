---------------------------- MODULE AdminPortal -----------------------------
(***************************************************************************)
(* The administrator portal page (_AdminPortalPageState), one per          *)
(* administrator, and its asynchronous calls.  The page shows the rows and *)
(* the provider list of its last load; what its buttons send is decided by *)
(* what it shows, and the UPDATEs match on the id alone.                   *)
(***************************************************************************)
EXTENDS BookingStore

CONSTANTS Admin,      \* the administrators
          ASlot,      \* bound: how many calls one page may have under way
          Filters,    \* the statusFilter values an administrator picks
          Duties,     \* what administrators do: assign, set status, verify
          AMishaps    \* what can go wrong on a page besides interleaving

ASSUME FiltersAssumption == /\ Filters \subseteq Status \cup {"all"}
                            /\ "all" \in Filters
ASSUME DutiesAssumption == Duties \subseteq {"assign", "status", "verify"}
ASSUME AMishapsAssumption == AMishaps \subseteq {"loss", "close"}

VARIABLES
    admin,      \* admin[a]: the page of a
    acall       \* acall[a][k]: the asynchronous call in slot k of a's page

adminVars == <<admin, acall>>

NoRows     == [b \in Booking |-> NoRow]
NoProfiles == [p \in Provider |-> "absent"]

AdminPage == [mounted : BOOLEAN,
              loading : BOOLEAN,
              filter  : Filters,
              rows    : [Booking -> Row],           \* allBookings
              profs   : [Provider -> Profile]]      \* providers

APc == {"idle",
        "rows_sent",    \* next: ReadBookings or AdminLoadFails
        "profs_sent",   \* next: ReadProfiles or AdminLoadFails
        "profs_done",   \* next: GotAdminData
        "assign_sent",  \* next: ServerAssign or WriteFails
        "status_sent",  \* next: ServerStatus or WriteFails
        "verify_sent",  \* next: ServerVerify or WriteFails
        "write_done"}   \* next: GotWrite or WriteFails

Writes == {"assign_sent", "status_sent", "verify_sent"}

ACall == [pc     : APc,
          live   : BOOLEAN,
          bk     : Booking \cup {NoProvider},
          prov   : Provider \cup {NoProvider},
          to     : Status \cup {Absent},
          verify : BOOLEAN,
          filter : Filters,
          rows   : [Booking -> Row],
          profs  : [Provider -> Profile]]

AIdle == [pc |-> "idle", live |-> FALSE, bk |-> NoProvider,
          prov |-> NoProvider, to |-> Absent, verify |-> FALSE,
          filter |-> "all", rows |-> NoRows, profs |-> NoProfiles]

AClosed == [mounted |-> FALSE, loading |-> FALSE, filter |-> "all",
            rows |-> NoRows, profs |-> NoProfiles]

AdminTypeOK ==
    /\ admin \in [Admin -> AdminPage]
    /\ acall \in [Admin -> [ASlot -> ACall]]

AdminInit ==
    /\ admin = [a \in Admin |-> AClosed]
    /\ acall = [a \in Admin |-> [k \in ASlot |-> AIdle]]

-----------------------------------------------------------------------------
AFree(a, k) == acall[a][k].pc = "idle"
ACallTo(a, k, c) == acall' = [acall EXCEPT ![a][k] = c]
APageTo(a, page) == admin' = [admin EXCEPT ![a] = page]

\* The first stretch of loadAdminData: the query takes the filter as it is.
ALoadCall(filter) ==
    [AIdle EXCEPT !.pc = "rows_sent", !.live = TRUE, !.filter = filter]

-----------------------------------------------------------------------------
(* What the administrator does.                                            *)

OpenAdmin(a, k) ==
    /\ ~admin[a].mounted /\ AFree(a, k)
    /\ APageTo(a, [AClosed EXCEPT !.mounted = TRUE, !.loading = TRUE])
    /\ ACallTo(a, k, ALoadCall("all"))
    /\ UNCHANGED store

\* Answers to a closed page change nothing; updates under way still run.
CloseAdmin(a) ==
    /\ "close" \in AMishaps
    /\ admin[a].mounted
    /\ APageTo(a, AClosed)
    /\ acall' = [acall EXCEPT ![a] = [k \in ASlot |->
                     IF acall[a][k].pc \in Writes
                     THEN [acall[a][k] EXCEPT !.live = FALSE] ELSE AIdle]]
    /\ UNCHANGED store

\* The refresh button and the filter stay enabled while loading.
RefreshAdmin(a, k) ==
    /\ admin[a].mounted /\ AFree(a, k)
    /\ APageTo(a, [admin[a] EXCEPT !.loading = TRUE])
    /\ ACallTo(a, k, ALoadCall(admin[a].filter))
    /\ UNCHANGED store

SetFilter(a, k, filter) ==
    /\ admin[a].mounted /\ AFree(a, k)
    /\ APageTo(a, [admin[a] EXCEPT !.loading = TRUE, !.filter = filter])
    /\ ACallTo(a, k, ALoadCall(filter))
    /\ UNCHANGED store

\* The body, with its rows and buttons, is shown when the page is not loading.
Shown(a) == admin[a].mounted /\ ~admin[a].loading

\* The dropdown of a row lists every provider of the last load.  The Assign
\* button of a pending row passes the row's own provider_id instead.
CanAssign(a, b, p) ==
    LET row == admin[a].rows[b] IN
    /\ row.status # Absent
    /\ \/ admin[a].profs[p] # "absent"
       \/ row.status = "pending" /\ row.provider = p

AssignProvider(a, k, b, p) ==
    /\ "assign" \in Duties
    /\ Shown(a) /\ AFree(a, k)
    /\ CanAssign(a, b, p)
    /\ ACallTo(a, k, [AIdle EXCEPT !.pc = "assign_sent", !.live = TRUE,
                                   !.bk = b, !.prov = p])
    /\ UNCHANGED <<store, admin>>

\* Slips: a Reopen button; Accept and Decline offered for pending rows too.
AdminOfferedReopen(shown) ==
    CASE shown = "assigned"    -> {"accepted", "declined", "cancelled"}
      [] shown = "accepted"    -> {"in_progress", "cancelled"}
      [] shown = "in_progress" -> {"completed", "cancelled"}
      [] shown \in {"pending", "declined"} -> {"cancelled"}
      [] shown = "cancelled"   -> {"pending"}
      [] OTHER -> {}

AdminOfferedEarly(shown) ==
    CASE shown \in {"pending", "assigned"} -> {"accepted", "declined", "cancelled"}
      [] shown = "accepted"    -> {"in_progress", "cancelled"}
      [] shown = "in_progress" -> {"completed", "cancelled"}
      [] shown = "declined"    -> {"cancelled"}
      [] OTHER -> {}

\* The status buttons of a row, by the status it is shown with.
AdminOffered(shown) ==
    CASE shown = "assigned"    -> {"accepted", "declined", "cancelled"}
      [] shown = "accepted"    -> {"in_progress", "cancelled"}
      [] shown = "in_progress" -> {"completed", "cancelled"}
      [] shown \in {"pending", "declined"} -> {"cancelled"}
      [] OTHER -> {}

UpdateBookingStatus(a, k, b, s) ==
    /\ "status" \in Duties
    /\ Shown(a) /\ AFree(a, k)
    /\ s \in AdminOffered(admin[a].rows[b].status)
    /\ ACallTo(a, k, [AIdle EXCEPT !.pc = "status_sent", !.live = TRUE,
                                   !.bk = b, !.to = s])
    /\ UNCHANGED <<store, admin>>

\* Approve or Suspend: the opposite of what the list shows.
SetProviderVerification(a, k, p) ==
    /\ "verify" \in Duties
    /\ Shown(a) /\ AFree(a, k)
    /\ admin[a].profs[p] # "absent"
    /\ ACallTo(a, k, [AIdle EXCEPT !.pc = "verify_sent", !.live = TRUE,
                         !.prov = p,
                         !.verify = (admin[a].profs[p] # "verified")])
    /\ UNCHANGED <<store, admin>>

-----------------------------------------------------------------------------
(* What the server does with the page's requests.                          *)

ReadBookings(a, k) ==
    LET c == acall[a][k] IN
    /\ c.pc = "rows_sent"
    /\ ACallTo(a, k, [c EXCEPT !.pc = "profs_sent",
                               !.rows = FilteredRows(c.filter)])
    /\ UNCHANGED <<store, admin>>

ReadProfiles(a, k) ==
    LET c == acall[a][k] IN
    /\ c.pc = "profs_sent"
    /\ ACallTo(a, k, [c EXCEPT !.pc = "profs_done", !.profs = profile])
    /\ UNCHANGED <<store, admin>>

\* The server has run an update: its answer travels back if it is awaited.
Answered(a, k) ==
    ACallTo(a, k, IF acall[a][k].live
                  THEN [AIdle EXCEPT !.pc = "write_done", !.live = TRUE]
                  ELSE AIdle)

ServerAssign(a, k) ==
    /\ acall[a][k].pc = "assign_sent"
    /\ UpdateAssign(acall[a][k].bk, acall[a][k].prov)
    /\ Answered(a, k)
    /\ UNCHANGED admin

ServerStatus(a, k) ==
    /\ acall[a][k].pc = "status_sent"
    /\ UpdateAnyStatus(acall[a][k].bk, acall[a][k].to)
    /\ Answered(a, k)
    /\ UNCHANGED admin

ServerVerify(a, k) ==
    /\ acall[a][k].pc = "verify_sent"
    /\ UpdateVerified(acall[a][k].prov, acall[a][k].verify)
    /\ Answered(a, k)
    /\ UNCHANGED admin

\* An update nobody listens for any more is lost on its way.
LoseWrite(a, k) ==
    /\ "loss" \in AMishaps
    /\ acall[a][k].pc \in Writes /\ ~acall[a][k].live
    /\ ACallTo(a, k, AIdle)
    /\ UNCHANGED <<store, admin>>

-----------------------------------------------------------------------------
(* What the page does with the answers.                                    *)

\* Whichever load ends last decides what is shown, under any filter.
GotAdminData(a, k) ==
    LET c == acall[a][k] IN
    /\ c.pc = "profs_done"
    /\ APageTo(a, [admin[a] EXCEPT !.loading = FALSE, !.rows = c.rows,
                                   !.profs = c.profs])
    /\ ACallTo(a, k, AIdle)
    /\ UNCHANGED store

\* Slip: the catch clause of loadAdminData leaves loading up.
AdminLoadFailsStuck(a, k) ==
    /\ "loss" \in AMishaps
    /\ acall[a][k].pc \in {"rows_sent", "profs_sent"}
    /\ ACallTo(a, k, AIdle)
    /\ UNCHANGED <<store, admin>>

AdminLoadFails(a, k) ==
    /\ "loss" \in AMishaps
    /\ acall[a][k].pc \in {"rows_sent", "profs_sent"}
    /\ APageTo(a, [admin[a] EXCEPT !.loading = FALSE])
    /\ ACallTo(a, k, AIdle)
    /\ UNCHANGED store

\* Every update is followed by a load.
GotWrite(a, k) ==
    /\ acall[a][k].pc = "write_done"
    /\ APageTo(a, [admin[a] EXCEPT !.loading = TRUE])
    /\ ACallTo(a, k, ALoadCall(admin[a].filter))
    /\ UNCHANGED store

\* The await of an update throws, and the update may be yet to run.
WriteFails(a, k, stillSent) ==
    LET c == acall[a][k] IN
    /\ "loss" \in AMishaps
    /\ c.live
    /\ c.pc \in Writes \/ (c.pc = "write_done" /\ ~stillSent)
    /\ ACallTo(a, k, IF stillSent THEN [c EXCEPT !.live = FALSE] ELSE AIdle)
    /\ UNCHANGED <<store, admin>>

-----------------------------------------------------------------------------
AdminUser(a) ==
    \/ CloseAdmin(a)
    \/ \E k \in ASlot :
        \/ OpenAdmin(a, k) \/ RefreshAdmin(a, k)
        \/ \E filter \in Filters : SetFilter(a, k, filter)
        \/ \E p \in Provider : SetProviderVerification(a, k, p)
        \/ \E b \in Booking :
              \/ \E p \in Provider : AssignProvider(a, k, b, p)
              \/ \E s \in Status : UpdateBookingStatus(a, k, b, s)

AdminServer(a, k) ==
    \/ ReadBookings(a, k) \/ ReadProfiles(a, k)
    \/ ServerAssign(a, k) \/ ServerStatus(a, k) \/ ServerVerify(a, k)
    \/ LoseWrite(a, k)

AdminHandler(a, k) ==
    \/ GotAdminData(a, k) \/ AdminLoadFails(a, k) \/ GotWrite(a, k)
    \/ \E stillSent \in BOOLEAN : WriteFails(a, k, stillSent)

AdminNext ==
    \E a \in Admin : \/ AdminUser(a)
                     \/ \E k \in ASlot : \/ AdminServer(a, k)
                                         \/ AdminHandler(a, k)
=============================================================================
