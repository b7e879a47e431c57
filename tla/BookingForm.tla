---------------------------- MODULE BookingForm -----------------------------
(***************************************************************************)
(* A client's booking page (_ServicesBookingPageState), the upload widget  *)
(* in it, and the submissions it begins.  A submission uploads the files   *)
(* one by one, walking the very list the widget lets the client change,    *)
(* then inserts the booking, whose fields it reads from the form only      *)
(* then.  Whatever is closed or lost, the requests already sent may still  *)
(* run.  The row that is inserted here is the one SubmitBooking of module  *)
(* Bookings stands for.                                                    *)
(***************************************************************************)
EXTENDS Naturals, Sequences, SequencesExt

CONSTANTS File,         \* the files a client picks
          Readable,     \* those that come with their bytes
          Flow,         \* bound: the submissions, each of one booking
          Extra,        \* bound: the loads of the list besides the reloads
          FormMishaps   \* what can go wrong besides interleaving

ASSUME ReadableAssumption == Readable \subseteq File
ASSUME ExtraAssumption == Extra \cap Flow = {}
ASSUME FormMishapsAssumption ==
    FormMishaps \subseteq {"loss", "close", "signout"}

VARIABLES
    form,       \* the page and the upload widget in it
    flow,       \* flow[n]: the submission n
    load,       \* load[l]: whether load l of the client's bookings is under
                \* way; that of a Flow is the reload the submission ends with
    requests,   \* requests[n]: the row of bookings submission n has inserted,
                \* and the history of the walk before it
    stored      \* stored[n]: the files submission n has put into storage

formVars == <<form, flow, load, requests, stored>>

Form == [mounted    : BOOLEAN,
         shown      : Seq(File),    \* _selectedFiles of the widget
         shared     : BOOLEAN,      \* _selectedFiles of the page is that list
         valid      : BOOLEAN,      \* the fields pass their validators
         submitting : BOOLEAN,
         message    : {"none", "submitted", "failed"},
         loading    : BOOLEAN]      \* _loadingBookings

\* A submission between two of its awaits.
FlowPc == {"unused",
           "upload_sent",   \* next: ServerUpload or UploadFails
           "upload_done",   \* next: GotUpload
           "insert_sent",   \* next: ServerInsert or InsertFails
           "insert_done",   \* next: GotInsert or InsertFails
           "reloading",     \* next: ListOver of its load
           "late",          \* given up, the insert yet to reach the server
           "over"}

FlowState == [pc      : FlowPc,
              live    : BOOLEAN,       \* its page is still there
              files   : Seq(File),     \* the list, once the page is gone
              length  : Nat,           \* of the list when the walk began
              index   : Nat,           \* how far the walk has come
              sent    : Seq(File),     \* attachmentUrls, and the file in upload
              valid   : BOOLEAN,       \* the fields as the insert takes them
              chosen  : Seq(File),     \* history: the page's list at the tap
              touched : BOOLEAN]       \* history: changed during the walk

NoRequest == [there |-> FALSE, files |-> <<>>, valid |-> FALSE,
              chosen |-> <<>>, touched |-> FALSE]

FormClosed == [mounted |-> FALSE, shown |-> <<>>, shared |-> FALSE,
               valid |-> FALSE, submitting |-> FALSE, message |-> "none",
               loading |-> FALSE]

FlowUnused == [pc |-> "unused", live |-> FALSE, files |-> <<>>, length |-> 0,
               index |-> 0, sent |-> <<>>, valid |-> FALSE, chosen |-> <<>>,
               touched |-> FALSE]

FormTypeOK ==
    /\ form \in Form
    /\ flow \in [Flow -> FlowState]
    /\ load \in [Flow \cup Extra -> BOOLEAN]
    /\ requests \in [Flow -> [there : BOOLEAN, files : Seq(File),
                              valid : BOOLEAN, chosen : Seq(File),
                              touched : BOOLEAN]]
    /\ stored \in [Flow -> SUBSET File]

FormInit ==
    /\ form = FormClosed
    /\ flow = [n \in Flow |-> FlowUnused]
    /\ load = [l \in Flow \cup Extra |-> FALSE]
    /\ requests = [n \in Flow |-> NoRequest]
    /\ stored = [n \in Flow |-> {}]

-----------------------------------------------------------------------------
Uploading == {"upload_sent", "upload_done"}
Submitting == Uploading \cup {"insert_sent", "insert_done", "reloading"}

FormSession == IF "signout" \in FormMishaps THEN BOOLEAN ELSE {TRUE}

Over == [FlowUnused EXCEPT !.pc = "over"]
FlowTo(n, c) == flow' = [flow EXCEPT ![n] = c]
LoadTo(l, underWay) == load' = [load EXCEPT ![l] = underWay]

\* Slip: the walk reads the list of whatever page is open by then.
WalkedOnPage(n) == form.shown

\* The list a submission walks, and the fields it would insert now.
Walked(n) == IF flow[n].live THEN form.shown ELSE flow[n].files
Fields(n) == IF flow[n].live /\ flow[n].pc \in Uploading
             THEN form.valid ELSE flow[n].valid

\* Slip: the walk skips a file after each one it takes.
NextToUploadSkipping(files, i) ==
    {j \in i+2..Len(files) : files[j] \in Readable}

\* The positions still to come of files with bytes; the others are skipped.
NextToUpload(files, i) == {j \in i+1..Len(files) : files[j] \in Readable}

\* One moveNext of the walk and what follows it, up to the next await: the
\* next upload, or at the end of the list the insert.
Walk(c, files, valid) ==
    LET ahead == NextToUpload(files, c.index)
        next  == CHOOSE j \in ahead : \A i \in ahead : j <= i
    IN  IF ahead # {}
        THEN [c EXCEPT !.pc = "upload_sent", !.index = next,
                       !.sent = Append(@, files[next])]
        ELSE [c EXCEPT !.pc = "insert_sent", !.valid = valid,
                       !.files = <<>>, !.length = 0, !.index = 0]

\* The first stretch of _loadMyBookings; what the list shows is left out.
ListLoadStarted(page, signedIn) ==
    IF signedIn THEN [page EXCEPT !.loading = TRUE] ELSE page

-----------------------------------------------------------------------------
(* What the client does.                                                   *)

OpenForm(l, signedIn) ==
    /\ ~form.mounted /\ ~load[l]
    /\ form' = ListLoadStarted([FormClosed EXCEPT !.mounted = TRUE], signedIn)
    /\ LoadTo(l, signedIn)
    /\ UNCHANGED <<flow, requests, stored>>

\* The submissions under way go on without their page; its list and fields
\* no longer change.  One that only awaits its reload is done.
CloseForm ==
    /\ "close" \in FormMishaps
    /\ form.mounted
    /\ form' = FormClosed
    /\ load' = [l \in Flow \cup Extra |-> FALSE]
    /\ flow' = [n \in Flow |->
                   IF flow[n].pc = "reloading" THEN Over
                   ELSE IF flow[n].live
                   THEN [flow[n] EXCEPT !.live = FALSE, !.valid = Fields(n),
                             !.files = IF flow[n].pc \in Uploading
                                       THEN form.shown ELSE @]
                   ELSE flow[n]]
    /\ UNCHANGED <<requests, stored>>

\* The fields and the widget stay enabled while a submission is under way.
EditFields ==
    /\ form.mounted
    /\ form' = [form EXCEPT !.valid = ~@]
    /\ UNCHANGED <<flow, load, requests, stored>>

\* Picking or removing a file shares the widget's list with the page.
FilesSelected(files) ==
    /\ form' = [form EXCEPT !.shown = files, !.shared = TRUE]
    /\ flow' = [n \in Flow |->
                   IF flow[n].live /\ flow[n].pc \in Uploading
                   THEN [flow[n] EXCEPT !.touched = TRUE] ELSE flow[n]]
    /\ UNCHANGED <<load, requests, stored>>

PickFile(f) ==
    /\ form.mounted /\ f \notin ToSet(form.shown)
    /\ FilesSelected(Append(form.shown, f))

RemoveFile(i) ==
    /\ form.mounted
    /\ FilesSelected(RemoveAt(form.shown, i))

\* Slip: the submit button stays enabled.
MaySubmitAgain == form.mounted /\ form.valid

MaySubmit == form.mounted /\ ~form.submitting /\ form.valid

Submit(n) ==
    LET files == IF form.shared THEN form.shown ELSE <<>> IN
    /\ MaySubmit /\ flow[n].pc = "unused"
    /\ form' = [form EXCEPT !.submitting = TRUE, !.message = "none"]
    /\ FlowTo(n, Walk([FlowUnused EXCEPT !.live = TRUE, !.chosen = files,
                                         !.length = Len(files)],
                      files, form.valid))
    /\ UNCHANGED <<load, requests, stored>>

\* The button tapped after the session has ended.
SubmitSignedOut ==
    /\ "signout" \in FormMishaps
    /\ form.mounted /\ ~form.submitting
    /\ form' = [form EXCEPT !.message = "failed"]
    /\ UNCHANGED <<flow, load, requests, stored>>

RefreshList(l, signedIn) ==
    /\ form.mounted /\ ~form.loading /\ ~load[l]
    /\ form' = ListLoadStarted(form, signedIn)
    /\ LoadTo(l, signedIn)
    /\ UNCHANGED <<flow, requests, stored>>

-----------------------------------------------------------------------------
(* What the server and the storage do.                                     *)

Put(n) == stored' = [stored EXCEPT ![n] = @ \cup {Last(flow[n].sent)}]

ServerUpload(n) ==
    /\ flow[n].pc = "upload_sent"
    /\ Put(n)
    /\ FlowTo(n, [flow[n] EXCEPT !.pc = "upload_done"])
    /\ UNCHANGED <<form, load, requests>>

\* The insert, from a submission that awaits it or one that has given up.
ServerInsert(n) ==
    /\ flow[n].pc \in {"insert_sent", "late"}
    /\ requests' = [requests EXCEPT ![n] =
           [there |-> TRUE, files |-> flow[n].sent, valid |-> flow[n].valid,
            chosen |-> flow[n].chosen, touched |-> flow[n].touched]]
    /\ FlowTo(n, IF flow[n].pc = "late" THEN Over
                 ELSE [FlowUnused EXCEPT !.pc = "insert_done",
                                         !.live = flow[n].live])
    /\ UNCHANGED <<form, load, stored>>

LoseInsert(n) ==
    /\ flow[n].pc = "late"
    /\ FlowTo(n, Over)
    /\ UNCHANGED <<form, load, requests, stored>>

-----------------------------------------------------------------------------
(* What the page does with the answers.                                    *)

\* Slip: the selected files are reset by the finally clause.
FailedFormReset(page) ==
    [page EXCEPT !.submitting = FALSE, !.message = "failed", !.shared = FALSE]

\* Slip: the message is the one of the list.
FailedFormOfList(page) ==
    [page EXCEPT !.submitting = FALSE, !.message = "list"]

\* The catch and finally clauses of _submitBooking.
FailedForm(page) ==
    [page EXCEPT !.submitting = FALSE, !.message = "failed"]

SubmitFails(n, late) ==
    /\ form' = IF flow[n].live THEN FailedForm(form) ELSE form
    /\ FlowTo(n, IF late THEN [flow[n] EXCEPT !.pc = "late", !.live = FALSE]
                         ELSE Over)

\* An upload is done: if the list has another length than when the walk
\* began, moveNext throws; otherwise the walk goes on by position.
GotUpload(n) ==
    /\ flow[n].pc = "upload_done"
    /\ IF Len(Walked(n)) # flow[n].length
       THEN SubmitFails(n, FALSE)
       ELSE /\ FlowTo(n, Walk(flow[n], Walked(n), Fields(n)))
            /\ UNCHANGED form
    /\ UNCHANGED <<load, requests, stored>>

\* Slip: an upload that fails counts as done.
UploadFailsIgnored(n, put) ==
    /\ "loss" \in FormMishaps
    /\ flow[n].pc = "upload_sent"
    /\ FlowTo(n, [flow[n] EXCEPT !.pc = "upload_done"])
    /\ IF put THEN Put(n) ELSE UNCHANGED stored
    /\ UNCHANGED <<form, load, requests>>

\* The upload, or only its answer (put), is lost.
UploadFails(n, put) ==
    /\ "loss" \in FormMishaps
    /\ flow[n].pc = "upload_sent"
    /\ SubmitFails(n, FALSE)
    /\ IF put THEN Put(n) ELSE UNCHANGED stored
    /\ UNCHANGED <<load, requests>>

InsertFails(n, stillSent) ==
    /\ "loss" \in FormMishaps
    /\ \/ flow[n].pc = "insert_sent"
       \/ flow[n].pc = "insert_done" /\ ~stillSent
    /\ SubmitFails(n, stillSent)
    /\ UNCHANGED <<load, requests, stored>>

\* The fields are cleared, the page takes a new empty list, which the widget
\* knows nothing of, and the client's bookings are loaded again.
GotInsert(n, signedIn) ==
    LET cleared == [form EXCEPT !.valid = FALSE, !.shared = FALSE,
                                !.message = "submitted",
                                !.submitting = signedIn]
    IN
    /\ flow[n].pc = "insert_done"
    /\ IF flow[n].live
       THEN /\ form' = ListLoadStarted(cleared, signedIn)
            /\ LoadTo(n, signedIn)
            /\ FlowTo(n, IF signedIn
                         THEN [flow[n] EXCEPT !.pc = "reloading"]
                         ELSE Over)
       ELSE FlowTo(n, Over) /\ UNCHANGED <<form, load>>
    /\ UNCHANGED <<requests, stored>>

\* The bookings are read, or cannot be, and the load ends; a submission that
\* awaits it ends with it.
ListOver(l) ==
    /\ load[l]
    /\ form' = [form EXCEPT !.loading = FALSE,
                            !.submitting = @ /\ l \notin Flow]
    /\ LoadTo(l, FALSE)
    /\ flow' = [n \in Flow |-> IF n = l THEN Over ELSE flow[n]]
    /\ UNCHANGED <<requests, stored>>

-----------------------------------------------------------------------------
ClientUser ==
    \/ CloseForm \/ EditFields \/ SubmitSignedOut
    \/ \E f \in File : PickFile(f)
    \/ \E i \in 1..Len(form.shown) : RemoveFile(i)
    \/ \E n \in Flow : Submit(n)
    \/ \E l \in Extra, signedIn \in FormSession :
          OpenForm(l, signedIn) \/ RefreshList(l, signedIn)

FormServer(n) == ServerUpload(n) \/ ServerInsert(n) \/ LoseInsert(n)

FormHandler(n) ==
    \/ GotUpload(n)
    \/ \E signedIn \in FormSession : GotInsert(n, signedIn)
    \/ \E put \in BOOLEAN : UploadFails(n, put)
    \/ \E stillSent \in BOOLEAN : InsertFails(n, stillSent)

FormNext ==
    \/ ClientUser
    \/ \E n \in Flow : FormServer(n) \/ FormHandler(n)
    \/ \E l \in Flow \cup Extra : ListOver(l)

FormSpec == FormInit /\ [][FormNext]_formVars

-----------------------------------------------------------------------------
\* A booking never names a file that is not in storage, although uploads are
\* lost and a walk may be upset by the client: _submitBooking inserts behind
\* the last upload, and any failure of one is the end of the submission.
AttachmentsStored ==
    \A n \in Flow : ToSet(requests[n].files) \subseteq stored[n]

\* sent has the files with bytes among the first upto of a list, each once and
\* in the order of the list: pos says where in the list each of them is.
SentUpTo(sent, list, upto) ==
    \E pos \in [1..Len(sent) -> 1..upto] :
        /\ \A j, k \in 1..Len(sent) : j < k => pos[j] < pos[k]
        /\ {pos[k] : k \in 1..Len(sent)} = {i \in 1..upto : list[i] \in Readable}
        /\ \A k \in 1..Len(sent) : sent[k] = list[pos[k]]

\* While the client leaves the widget alone, _uploadAttachments sends every
\* selected file that has bytes, once and in order, closed page or not.
UntouchedFilesAreSent ==
    \A n \in Flow :
        requests[n].there /\ ~requests[n].touched
        => SentUpTo(requests[n].files, requests[n].chosen,
                    Len(requests[n].chosen))

\* _submitting is up exactly while one submission of the page, its reload
\* included, is under way: one page never inserts two bookings at a time.
SubmittingIsOneFlow ==
    LET here == {n \in Flow : flow[n].live} IN
    /\ form.submitting <=> here # {}
    /\ \A m, n \in here : m = n

\* A submission that fails leaves the files selected for the next attempt:
\* the page lets go of the widget's list only when a booking is stored.
FailedSubmitKeepsFiles ==
    form.shown # <<>> /\ ~form.shared
    => \E n \in Flow : requests[n].there /\ flow[n].pc \in {"reloading", "over"}

\* The invariant behind these: what is known of a submission at each await.
FlowOK(n) ==
    /\ ToSet(requests[n].files) \subseteq stored[n]
    /\ flow[n].pc = "upload_sent" =>
          /\ flow[n].sent # <<>>
          /\ \A i \in 1..Len(flow[n].sent)-1 : flow[n].sent[i] \in stored[n]
    /\ flow[n].pc \in {"upload_done", "insert_sent", "late"} =>
          ToSet(flow[n].sent) \subseteq stored[n]
    /\ flow[n].pc \in {"insert_done", "reloading"} => requests[n].there
    /\ flow[n].pc \in {"unused", "late", "over"} => ~flow[n].live
    /\ flow[n].pc = "reloading" => flow[n].live
    /\ load[n] <=> flow[n].pc = "reloading"

FormInv ==
    /\ FormTypeOK
    /\ \A n \in Flow : FlowOK(n)
    /\ SubmittingIsOneFlow /\ FailedSubmitKeepsFiles
    /\ form.submitting => form.mounted

\* How far the walk of an untouched list has come: the list it walks is still
\* the one of the tap, whichever of the page and the submission holds it.
WalkOK(n) ==
    ~flow[n].touched =>
        /\ flow[n].pc \in Uploading =>
              /\ Walked(n) = flow[n].chosen
              /\ flow[n].length = Len(flow[n].chosen)
              /\ flow[n].index \in 1..Len(flow[n].chosen)
              /\ SentUpTo(flow[n].sent, flow[n].chosen, flow[n].index)
        /\ flow[n].pc \in {"insert_sent", "late"} =>
              SentUpTo(flow[n].sent, flow[n].chosen, Len(flow[n].chosen))

SubmissionInv ==
    /\ FormInv
    /\ UntouchedFilesAreSent
    /\ \A n \in Flow : WalkOK(n)

-----------------------------------------------------------------------------
(* What the texts and comments say, where the code does something else.    *)

\* The validators of the form, with texts such as "Describe the issue"
\* (lib/l10n/app_en.arb:526): a booking is stored with fields that passed them.
\* (They are read again from the controllers after the uploads, while the form
\* stays enabled.)
StoredFieldsAreValid ==
    \A n \in Flow : requests[n].there => requests[n].valid
=============================================================================
