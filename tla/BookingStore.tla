---------------------------- MODULE BookingStore ----------------------------
(***************************************************************************)
(* The two Postgres tables the portals share, and the statements the Dart  *)
(* code sends to them.  The server runs one statement at a time, so every  *)
(* statement is one step on the tables; what the pages do between their    *)
(* statements is in ProviderPortal and AdminPortal.  The tables are        *)
(* external, the WHERE clauses and the written columns are the program's.  *)
(***************************************************************************)

CONSTANTS Booking,      \* the booking ids
          Provider,     \* the providers.id values
          NoProvider    \* SQL null in bookings.provider_id

ASSUME NoProviderAssumption == NoProvider \notin Provider

VARIABLES
    bookings,       \* bookings[b]: status and provider_id of the row of b
    profile,        \* profile[p]: the providers row of p and its pvsc_verified
    claimed,        \* history: the providers whose claim update returned row b
    assigned,       \* history: the bookings an administrator has assigned
    writer,         \* history: the provider that wrote row b last, if one did
    everVerified    \* history: the providers that have ever been verified

tables  == <<bookings, profile>>
history == <<claimed, assigned, writer, everVerified>>
store   == <<bookings, profile, claimed, assigned, writer, everVerified>>

Status  == {"pending", "assigned", "accepted", "declined", "in_progress",
            "completed", "cancelled"}
Absent  == "absent"                          \* no such row, or row not listed
Profile == {"absent", "unverified", "verified"}

Row   == [status : Status \cup {Absent}, provider : Provider \cup {NoProvider}]
NoRow == [status |-> Absent, provider |-> NoProvider]

StoreTypeOK ==
    /\ bookings \in [Booking -> Row]
    /\ profile \in [Provider -> Profile]
    /\ claimed \in [Booking -> SUBSET Provider]
    /\ assigned \in SUBSET Booking
    /\ writer \in [Booking -> Provider \cup {NoProvider}]
    /\ everVerified \in SUBSET Provider

\* No booking yet; any population of provider profiles.
StoreInit ==
    /\ bookings = [b \in Booking |-> NoRow]
    /\ profile \in [Provider -> Profile]
    /\ claimed = [b \in Booking |-> {}]
    /\ assigned = {}
    /\ writer = [b \in Booking |-> NoProvider]
    /\ everVerified = {p \in Provider : profile[p] = "verified"}

-----------------------------------------------------------------------------
(* SELECTs: what a read returns when the server evaluates it.              *)

\* status = 'pending' and provider_id is null
IsOpen(b) == bookings[b] = [status |-> "pending", provider |-> NoProvider]

OpenRows == {b \in Booking : IsOpen(b)}

RowsOf(p) == [b \in Booking |-> IF bookings[b].provider = p
                                THEN bookings[b].status ELSE Absent]

\* Every booking, or those whose status is the administrator's filter.
FilteredRows(filter) ==
    [b \in Booking |-> IF filter \in {"all", bookings[b].status}
                       THEN bookings[b] ELSE NoRow]

-----------------------------------------------------------------------------
(* INSERTs and UPDATEs.                                                    *)

\* Slip: the insert leaves the status to the table.
InsertBookingNoStatus(b) ==
    /\ bookings[b].status = Absent
    /\ bookings' = [bookings EXCEPT ![b] =
                        [status |-> "", provider |-> NoProvider]]
    /\ UNCHANGED <<profile, history>>

\* A client's booking request, unassigned and pending.
InsertBooking(b) ==
    /\ bookings[b].status = Absent
    /\ bookings' = [bookings EXCEPT ![b] =
                        [status |-> "pending", provider |-> NoProvider]]
    /\ UNCHANGED <<profile, history>>

\* A provider application: the row of p in providers, not verified.
InsertProfile(p) ==
    /\ profile[p] = "absent"
    /\ profile' = [profile EXCEPT ![p] = "unverified"]
    /\ UNCHANGED <<bookings, history>>

\* Slips of the two guards below that the properties must notice: claiming by
\* id alone, claiming whatever is unassigned, updating by id alone.
ClaimMatchesById(b, p)       == bookings[b].status # Absent
ClaimMatchesUnassigned(b, p) == /\ bookings[b].status # Absent
                                /\ bookings[b].provider = NoProvider
OwnMatchesById(b, p)         == bookings[b].status # Absent

\* The rows the claim's UPDATE matches: the id, provider_id is null, pending.
ClaimMatches(b, p) == IsOpen(b)

UpdateClaim(b, p) ==
    /\ IF ClaimMatches(b, p)
       THEN /\ bookings' = [bookings EXCEPT ![b] =
                                [status |-> "assigned", provider |-> p]]
            /\ claimed' = [claimed EXCEPT ![b] = @ \cup {p}]
            /\ writer' = [writer EXCEPT ![b] = p]
       ELSE UNCHANGED <<bookings, claimed, writer>>
    /\ UNCHANGED <<profile, assigned, everVerified>>

\* The rows a provider's status UPDATE matches: the id and provider_id = p.
OwnMatches(b, p) == bookings[b].provider = p

UpdateOwnStatus(b, p, s) ==
    /\ IF OwnMatches(b, p)
       THEN /\ bookings' = [bookings EXCEPT ![b].status = s]
            /\ writer' = [writer EXCEPT ![b] = p]
       ELSE UNCHANGED <<bookings, writer>>
    /\ UNCHANGED <<profile, claimed, assigned, everVerified>>

\* The administrator's assignment matches on the id alone.
UpdateAssign(b, p) ==
    /\ IF bookings[b].status # Absent
       THEN /\ bookings' = [bookings EXCEPT ![b] =
                                [status |-> "assigned", provider |-> p]]
            /\ assigned' = assigned \cup {b}
            /\ writer' = [writer EXCEPT ![b] = NoProvider]
       ELSE UNCHANGED <<bookings, assigned, writer>>
    /\ UNCHANGED <<profile, claimed, everVerified>>

\* The administrator's status change matches on the id alone.
UpdateAnyStatus(b, s) ==
    /\ IF bookings[b].status # Absent
       THEN /\ bookings' = [bookings EXCEPT ![b].status = s]
            /\ writer' = [writer EXCEPT ![b] = NoProvider]
       ELSE UNCHANGED <<bookings, writer>>
    /\ UNCHANGED <<profile, claimed, assigned, everVerified>>

\* The administrator's approval (v) or suspension (not v) of a provider.
UpdateVerified(p, v) ==
    /\ IF profile[p] # "absent"
       THEN /\ profile' = [profile EXCEPT ![p] = IF v THEN "verified"
                                                      ELSE "unverified"]
            /\ everVerified' = IF v THEN everVerified \cup {p}
                                    ELSE everVerified
       ELSE UNCHANGED <<profile, everVerified>>
    /\ UNCHANGED <<bookings, claimed, assigned, writer>>
=============================================================================
