----------------------------- MODULE FormProofs -----------------------------
(***************************************************************************)
(* Proofs about the booking form.  FormInv says at each await of a         *)
(* submission which of its files are in storage; every action moves one    *)
(* submission and may change the page, so a step is judged in two parts:   *)
(* the submission it moves (Moved), and the page.  WalkOK, on top of it,   *)
(* says how far the walk of a list the client leaves alone has come.       *)
(***************************************************************************)
EXTENDS BookingForm, SequenceTheorems, WellFoundedInduction, TLAPS

\* A non-empty set of numbers has a least element, so Walk's choice is one.
LEMMA Least ==
    ASSUME NEW T \in SUBSET Nat, T # {}
    PROVE  \E j \in T : \A i \in T : j <= i
<1>1. PICK j \in T : \A i \in T : ~(<<i, j>> \in OpToRel(<, Nat))
  BY WFMin, NatLessThanWellFounded
<1>2. ASSUME NEW i \in T PROVE j <= i
  <2>1. ~(i < j)
    BY <1>1 DEF OpToRel
  <2> QED BY <2>1
<1> QED BY <1>2

\* Walk takes a file of the list, or none is left and the insert is sent.
LEMMA WalkResult ==
    ASSUME NEW c \in FlowState, NEW files \in Seq(File), NEW valid \in BOOLEAN
    PROVE  LET w == Walk(c, files, valid) IN
           /\ w \in FlowState
           /\ w.live = c.live
           /\ \/ /\ w.pc = "upload_sent"
                 /\ \E f \in File : w.sent = Append(c.sent, f)
              \/ /\ w.pc = "insert_sent"
                 /\ w.sent = c.sent
<1> DEFINE ahead == NextToUpload(files, c.index)
           next  == CHOOSE j \in ahead : \A i \in ahead : j <= i
<1>1. CASE ahead # {}
  <2>1. ahead \in SUBSET Nat
    BY DEF NextToUpload, FlowState
  <2>2. next \in ahead
    BY <1>1, <2>1, Least
  <2>3. next \in Nat /\ next \in 1..Len(files)
    BY <2>1, <2>2 DEF NextToUpload, FlowState
  <2>4. files[next] \in File
    BY <2>3
  <2>5. Walk(c, files, valid) = [c EXCEPT !.pc = "upload_sent", !.index = next,
                                          !.sent = Append(@, files[next])]
    BY <1>1 DEF Walk
  <2>6. Append(c.sent, files[next]) \in Seq(File)
    BY <2>4 DEF FlowState
  <2> HIDE DEF next, ahead
  <2> QED
    BY <2>3, <2>4, <2>5, <2>6 DEF FlowState, FlowPc
<1>2. CASE ahead = {}
  <2>1. Walk(c, files, valid) = [c EXCEPT !.pc = "insert_sent", !.valid = valid,
                                   !.files = <<>>, !.length = 0, !.index = 0]
    BY <1>2 DEF Walk
  <2>2. <<>> \in Seq(File)
    OBVIOUS
  <2>3. ASSUME NEW none \in Seq(File)
        PROVE  [c EXCEPT !.pc = "insert_sent", !.valid = valid, !.files = none,
                         !.length = 0, !.index = 0] \in FlowState
    BY DEF FlowState, FlowPc
  <2>4. /\ Walk(c, files, valid).pc = "insert_sent"
        /\ Walk(c, files, valid).sent = c.sent
        /\ Walk(c, files, valid).live = c.live
    BY <2>1 DEF FlowState
  <2> QED
    BY <2>1, <2>2, <2>3, <2>4
<1> QED BY <1>1, <1>2

-----------------------------------------------------------------------------
\* The page's part of the invariant, with the set of SubmittingIsOneFlow read
\* as quantifiers.
PageOK ==
    /\ form.submitting <=> \E n \in Flow : flow[n].live
    /\ \A m, n \in Flow : flow[m].live /\ flow[n].live => m = n
    /\ FailedSubmitKeepsFiles
    /\ form.submitting => form.mounted

LEMMA FormParts ==
    FormInv <=> FormTypeOK /\ PageOK /\ \A n \in Flow : FlowOK(n)
BY DEF FormInv, PageOK, SubmittingIsOneFlow

\* A step that moves submission n and nothing of the others.
OnlyMoves(n) ==
    \A m \in Flow \ {n} : /\ flow'[m] = flow[m] /\ load'[m] = load[m]
                          /\ requests'[m] = requests[m]
                          /\ stored'[m] = stored[m]

LEMMA Moved ==
    ASSUME FormInv, NEW n \in Flow, OnlyMoves(n),
           FormTypeOK', FlowOK(n)', PageOK'
    PROVE  FormInv'
<1>1. ASSUME NEW m \in Flow, m # n PROVE FlowOK(m)'
  BY <1>1 DEF FlowOK, OnlyMoves, FormInv
<1>2. \A m \in Flow : FlowOK(m)'
  BY <1>1
<1>3. (\A m \in Flow : FlowOK(m))'
  BY <1>2
<1>4. FormInv' <=> (FormTypeOK /\ PageOK /\ \A m \in Flow : FlowOK(m))'
  BY DEF FormInv, PageOK, SubmittingIsOneFlow
<1> QED BY <1>3, <1>4

\* The page after a step that lets n go on, and after one that ends it: what
\* was stored for good stays so, and the files are where they were.
LEMMA PageGoesOn ==
    ASSUME FormInv, NEW n \in Flow, OnlyMoves(n),
           flow'[n].live = flow[n].live,
           requests[n].there /\ flow[n].pc \in {"reloading", "over"} =>
               requests'[n].there /\ flow'[n].pc \in {"reloading", "over"},
           form'.submitting = form.submitting, form'.mounted = form.mounted,
           form'.shown = form.shown, form'.shared = form.shared
    PROVE  PageOK'
<1>1. PageOK
  BY FormParts
<1>2. \A m \in Flow : flow'[m].live = flow[m].live
  BY DEF OnlyMoves
<1>3. FailedSubmitKeepsFiles'
  BY <1>1 DEF PageOK, FailedSubmitKeepsFiles, OnlyMoves
<1> QED
  BY <1>1, <1>2, <1>3 DEF PageOK

LEMMA PageEnds ==
    ASSUME FormInv, NEW n \in Flow, OnlyMoves(n), ~flow'[n].live,
           requests[n].there /\ flow[n].pc \in {"reloading", "over"} =>
               requests'[n].there /\ flow'[n].pc \in {"reloading", "over"},
           form'.submitting = (form.submitting /\ ~flow[n].live),
           form'.submitting \in BOOLEAN, form'.mounted = form.mounted,
           form'.shown = form.shown, form'.shared = form.shared
    PROVE  PageOK'
<1>1. PageOK
  BY FormParts
<1>2. \A m \in Flow : flow'[m].live <=> flow[m].live /\ m # n
  BY DEF OnlyMoves
<1>3. FailedSubmitKeepsFiles'
  BY <1>1 DEF PageOK, FailedSubmitKeepsFiles, OnlyMoves
<1> QED
  BY <1>1, <1>2, <1>3 DEF PageOK

-----------------------------------------------------------------------------
LEMMA InitFormInv == FormInit => FormInv
<1> SUFFICES ASSUME FormInit PROVE FormInv
  OBVIOUS
<1> USE DEF FormInit
<1>1. <<>> \in Seq(File)
  OBVIOUS
<1>2. FormTypeOK
  <2>1. FlowUnused \in FlowState
    BY <1>1 DEF FlowUnused, FlowState, FlowPc
  <2>2. FormClosed \in Form
    BY <1>1 DEF FormClosed, Form
  <2>3. NoRequest \in [there : BOOLEAN, files : Seq(File), valid : BOOLEAN,
                       chosen : Seq(File), touched : BOOLEAN]
    BY <1>1 DEF NoRequest
  <2> QED BY <2>1, <2>2, <2>3 DEF FormTypeOK
<1>3. ASSUME NEW n \in Flow PROVE FlowOK(n)
  <2>1. ToSet(NoRequest.files) = {}
    BY DEF NoRequest, ToSet
  <2> QED BY <2>1 DEF FlowOK, FlowUnused
<1>4. PageOK
  BY DEF PageOK, FormClosed, FlowUnused, FailedSubmitKeepsFiles
<1> QED BY <1>2, <1>3, <1>4, FormParts

\* A step of the page alone, which lets every submission go on.
LEMMA PageAlone ==
    ASSUME FormInv, FormTypeOK', UNCHANGED <<requests, stored>>,
           \A n \in Flow : /\ flow'[n].pc = flow[n].pc
                           /\ flow'[n].live = flow[n].live
                           /\ flow'[n].sent = flow[n].sent
                           /\ load'[n] = load[n],
           form'.submitting = form.submitting, form'.mounted = form.mounted,
           \/ form'.shared
           \/ form'.shown = form.shown /\ form'.shared = form.shared
    PROVE  FormInv'
<1>1. PageOK
  BY FormParts
<1>2. \A n \in Flow : FlowOK(n)'
  BY DEF FlowOK, FormInv
<1>3. FailedSubmitKeepsFiles'
  BY <1>1 DEF PageOK, FailedSubmitKeepsFiles
<1>4. PageOK'
  BY <1>1, <1>3 DEF PageOK
<1>5. FormInv' <=> (FormTypeOK /\ PageOK /\ \A n \in Flow : FlowOK(n))'
  BY DEF FormInv, PageOK, SubmittingIsOneFlow
<1> QED BY <1>2, <1>4, <1>5

LEMMA UserKeepsFormInv == FormInv /\ ClientUser => FormInv'
<1> SUFFICES ASSUME FormInv, ClientUser PROVE FormInv'
  OBVIOUS
<1>0. FormTypeOK /\ PageOK /\ \A n \in Flow : FlowOK(n)
  BY FormParts
<1>t. /\ form \in Form /\ flow \in [Flow -> FlowState]
      /\ load \in [Flow \cup Extra -> BOOLEAN] /\ <<>> \in Seq(File)
  BY <1>0 DEF FormTypeOK
<1>1. CASE CloseForm
  <2> USE <1>1 DEF CloseForm
  <2>1. ASSUME NEW n \in Flow
        PROVE  /\ flow'[n] \in FlowState
               /\ ~flow'[n].live
               /\ flow'[n].pc = IF flow[n].pc = "reloading" THEN "over"
                                ELSE flow[n].pc
               /\ flow[n].pc # "reloading" => flow'[n].sent = flow[n].sent
    <3>1. Over \in FlowState /\ Over.pc = "over" /\ ~Over.live
      BY <1>t DEF Over, FlowUnused, FlowState, FlowPc
    <3>2. CASE flow[n].pc = "reloading"
      BY <3>1, <3>2
    <3>3. CASE flow[n].pc # "reloading" /\ flow[n].live
      BY <1>t, <3>3 DEF FlowState, Form, Fields
    <3>4. CASE flow[n].pc # "reloading" /\ ~flow[n].live
      BY <1>t, <3>4
    <3> QED BY <3>2, <3>3, <3>4
  <2>2. FormTypeOK'
    <3>1. flow' \in [Flow -> FlowState]
      BY <2>1
    <3>2. form' \in Form
      BY <1>t DEF FormClosed, Form
    <3> QED BY <1>0, <3>1, <3>2 DEF FormTypeOK
  <2>3. ASSUME NEW n \in Flow PROVE FlowOK(n)'
    BY <1>0, <2>1 DEF FlowOK
  <2>4. PageOK'
    BY <2>1 DEF PageOK, FormClosed, FailedSubmitKeepsFiles
  <2>5. FormInv' <=> (FormTypeOK /\ PageOK /\ \A n \in Flow : FlowOK(n))'
    BY DEF FormInv, PageOK, SubmittingIsOneFlow
  <2> QED BY <2>2, <2>3, <2>4, <2>5
<1>2. CASE EditFields \/ SubmitSignedOut
  <2>1. FormTypeOK'
    BY <1>0, <1>2 DEF EditFields, SubmitSignedOut, FormTypeOK, Form
  <2> QED
    BY <1>2, <1>t, <2>1, PageAlone DEF EditFields, SubmitSignedOut, Form
<1>3. ASSUME NEW files \in Seq(File), FilesSelected(files) PROVE FormInv'
  <2>1. \A n \in Flow : /\ flow'[n] \in FlowState
                        /\ flow'[n].pc = flow[n].pc
                        /\ flow'[n].live = flow[n].live
                        /\ flow'[n].sent = flow[n].sent
    BY <1>3, <1>t DEF FilesSelected, FlowState
  <2>2. flow' \in [Flow -> FlowState]
    BY <1>3, <2>1 DEF FilesSelected
  <2>3. form' \in Form
    BY <1>3, <1>t DEF FilesSelected, Form
  <2>4. FormTypeOK'
    BY <1>0, <1>3, <2>2, <2>3 DEF FilesSelected, FormTypeOK
  <2> QED
    BY <1>3, <1>t, <2>1, <2>4, PageAlone DEF FilesSelected, Form
<1>4. ASSUME NEW f \in File, PickFile(f) PROVE FormInv'
  <2>1. Append(form.shown, f) \in Seq(File)
    BY <1>t DEF Form
  <2> QED BY <1>3, <1>4, <2>1 DEF PickFile
<1>5. ASSUME NEW i \in 1..Len(form.shown), RemoveFile(i) PROVE FormInv'
  <2>1. form.shown \in Seq(File)
    BY <1>t DEF Form
  <2>2. /\ i-1 \in Int /\ i+1 \in Int /\ Len(form.shown) \in Int
        /\ \A j \in 1..i-1 : form.shown[j] \in File
        /\ \A j \in i+1..Len(form.shown) : form.shown[j] \in File
    BY <2>1
  <2>3. /\ SubSeq(form.shown, 1, i-1) \in Seq(File)
        /\ SubSeq(form.shown, i+1, Len(form.shown)) \in Seq(File)
    BY <2>2, SubSeqProperties
  <2>4. RemoveAt(form.shown, i) \in Seq(File)
    BY <2>3, ConcatProperties DEF RemoveAt
  <2> QED BY <1>3, <1>5, <2>4 DEF RemoveFile
<1>6. ASSUME NEW n \in Flow, Submit(n) PROVE FormInv'
  <2> DEFINE files == IF form.shared THEN form.shown ELSE <<>>
             c == [FlowUnused EXCEPT !.live = TRUE, !.chosen = files,
                                     !.length = Len(files)]
             w == Walk(c, files, form.valid)
  <2>1. files \in Seq(File) /\ form.valid \in BOOLEAN
    BY <1>t DEF Form
  <2> HIDE DEF files
  <2>2. c \in FlowState /\ c.live /\ c.sent = <<>>
    <3>1. FlowUnused \in FlowState /\ FlowUnused.sent = <<>>
      BY <1>t DEF FlowUnused, FlowState, FlowPc
    <3>2. Len(files) \in Nat
      BY <2>1
    <3> QED BY <2>1, <3>1, <3>2 DEF FlowState
  <2> HIDE DEF c
  <2>3. /\ w \in FlowState /\ w.live
        /\ \/ w.pc = "upload_sent" /\ \E f \in File : w.sent = Append(<<>>, f)
           \/ w.pc = "insert_sent" /\ w.sent = <<>>
    BY <2>1, <2>2, WalkResult
  <2>4. FlowTo(n, w) /\ UNCHANGED <<load, requests, stored>>
    BY <1>6 DEF Submit, c, files
  <2> HIDE DEF w
  <2>5. flow' \in [Flow -> FlowState] /\ flow'[n] = w /\ OnlyMoves(n)
    BY <1>t, <2>3, <2>4 DEF FlowTo, OnlyMoves
  <2>6. FormTypeOK'
    BY <1>0, <1>6, <2>4, <2>5 DEF FormTypeOK, Submit, Form
  <2>7. FlowOK(n)'
    <3>1. ToSet(<<>>) = {}
      BY DEF ToSet
    <3>2. ~load[n] /\ ToSet(requests[n].files) \subseteq stored[n]
      BY <1>0, <1>6 DEF Submit, FlowOK
    <3>3. ASSUME NEW f \in File
          PROVE  Append(<<>>, f) # <<>> /\ 1..Len(Append(<<>>, f))-1 = {}
      OBVIOUS
    <3>4. CASE w.pc = "insert_sent" /\ w.sent = <<>>
      BY <2>3, <2>4, <2>5, <3>1, <3>2, <3>4 DEF FlowOK
    <3>5. CASE w.pc = "upload_sent" /\ \E f \in File : w.sent = Append(<<>>, f)
      BY <2>3, <2>4, <2>5, <3>2, <3>3, <3>5 DEF FlowOK
    <3> QED BY <2>3, <3>4, <3>5
  <2>8. PageOK'
    <3>1. /\ ~form.submitting /\ form'.submitting /\ form'.mounted
          /\ form'.shown = form.shown /\ form'.shared = form.shared
      BY <1>6, <1>t DEF Submit, MaySubmit, Form
    <3>2. \A m \in Flow : flow'[m].live <=> m = n
      BY <1>0, <2>3, <2>5, <3>1 DEF PageOK, OnlyMoves
    <3>3. FailedSubmitKeepsFiles'
      BY <1>0, <1>6, <2>4, <2>5, <3>1
         DEF PageOK, FailedSubmitKeepsFiles, OnlyMoves, Submit
    <3> QED BY <3>1, <3>2, <3>3 DEF PageOK
  <2> QED BY <2>5, <2>6, <2>7, <2>8, Moved
<1>7. ASSUME NEW l \in Extra, NEW signedIn \in BOOLEAN,
             OpenForm(l, signedIn) \/ RefreshList(l, signedIn)
      PROVE  FormInv'
  <2>1. \A n \in Flow : load'[n] = load[n]
    BY <1>7, <1>t, ExtraAssumption DEF OpenForm, RefreshList, LoadTo
  <2>2. load' \in [Flow \cup Extra -> BOOLEAN]
    BY <1>7, <1>t DEF OpenForm, RefreshList, LoadTo
  <2>3. CASE RefreshList(l, signedIn)
    <3>1. /\ form' \in Form
          /\ form'.submitting = form.submitting
          /\ form'.mounted = form.mounted
          /\ form'.shown = form.shown /\ form'.shared = form.shared
      BY <2>3, <1>t DEF RefreshList, ListLoadStarted, Form
    <3>2. FormTypeOK'
      BY <1>0, <2>2, <2>3, <3>1 DEF RefreshList, FormTypeOK
    <3> QED BY <2>1, <2>3, <3>1, <3>2, PageAlone DEF RefreshList
  <2>4. CASE OpenForm(l, signedIn)
    <3>1. /\ form' \in Form /\ ~form'.submitting /\ form'.shown = <<>>
          /\ form'.mounted
      BY <2>4, <1>t DEF OpenForm, ListLoadStarted, Form, FormClosed
    <3>2. FormTypeOK'
      BY <1>0, <2>2, <2>4, <3>1 DEF OpenForm, FormTypeOK
    <3>3. \A n \in Flow : FlowOK(n)'
      BY <1>0, <2>1, <2>4 DEF OpenForm, FlowOK
    <3>4. PageOK'
      BY <1>0, <2>4, <3>1 DEF OpenForm, PageOK, FailedSubmitKeepsFiles
    <3>5. FormInv' <=> (FormTypeOK /\ PageOK /\ \A n \in Flow : FlowOK(n))'
      BY DEF FormInv, PageOK, SubmittingIsOneFlow
    <3> QED BY <3>2, <3>3, <3>4, <3>5
  <2> QED BY <1>7, <2>3, <2>4
<1> QED
  BY <1>1, <1>2, <1>4, <1>5, <1>6, <1>7 DEF ClientUser, FormSession

-----------------------------------------------------------------------------
\* Typing of what the server and the handlers write, once and for all.
LEMMA FlowToTypes ==
    ASSUME FormInv, NEW n \in Flow, NEW c \in FlowState, FlowTo(n, c)
    PROVE  /\ flow' \in [Flow -> FlowState]
           /\ flow'[n] = c
           /\ \A m \in Flow \ {n} : flow'[m] = flow[m]
BY DEF FlowTo, FormInv, FormTypeOK

LEMMA Ended ==
    /\ FlowUnused \in FlowState
    /\ Over \in FlowState /\ Over.pc = "over" /\ ~Over.live
<1>1. <<>> \in Seq(File)
  OBVIOUS
<1> QED BY <1>1 DEF Over, FlowUnused, FlowState, FlowPc

\* The file in upload is the last of sent: once it is stored, all of them are.
LEMMA LastStored ==
    ASSUME NEW s \in Seq(File), s # <<>>, NEW T \in SUBSET File,
           \A i \in 1..Len(s)-1 : s[i] \in T
    PROVE  /\ Last(s) \in File
           /\ ToSet(s) \subseteq T \cup {Last(s)}
BY DEF Last, ToSet

LEMMA ServerKeepsFormInv ==
    ASSUME FormInv, NEW n \in Flow, FormServer(n)
    PROVE  FormInv'
<1>0. FormTypeOK /\ PageOK /\ \A m \in Flow : FlowOK(m)
  BY FormParts
<1>t. /\ form \in Form /\ flow[n] \in FlowState
      /\ stored \in [Flow -> SUBSET File]
      /\ requests \in [Flow -> [there : BOOLEAN, files : Seq(File),
                                valid : BOOLEAN, chosen : Seq(File),
                                touched : BOOLEAN]]
  BY <1>0 DEF FormTypeOK
<1>1. CASE ServerUpload(n)
  <2> DEFINE c == [flow[n] EXCEPT !.pc = "upload_done"]
  <2>1. /\ c \in FlowState /\ c.pc = "upload_done" /\ c.live = flow[n].live
        /\ c.sent = flow[n].sent
    BY <1>t DEF FlowState, FlowPc
  <2>2. FlowTo(n, c) /\ flow[n].pc = "upload_sent" /\ Put(n)
        /\ UNCHANGED <<form, load, requests>>
    BY <1>1 DEF ServerUpload
  <2> HIDE DEF c
  <2>3. /\ Last(flow[n].sent) \in File
        /\ ToSet(flow[n].sent) \subseteq stored[n] \cup {Last(flow[n].sent)}
    BY <1>0, <1>t, <2>2, LastStored DEF FlowOK, FlowState
  <2>4. /\ stored' \in [Flow -> SUBSET File]
        /\ stored'[n] = stored[n] \cup {Last(flow[n].sent)}
        /\ \A m \in Flow \ {n} : stored'[m] = stored[m]
    BY <1>t, <2>2, <2>3 DEF Put
  <2>5. /\ flow' \in [Flow -> FlowState] /\ flow'[n] = c
        /\ \A m \in Flow \ {n} : flow'[m] = flow[m]
    BY <2>1, <2>2, FlowToTypes
  <2>6. OnlyMoves(n)
    BY <2>2, <2>4, <2>5 DEF OnlyMoves
  <2>7. FormTypeOK'
    BY <1>0, <2>2, <2>4, <2>5 DEF FormTypeOK
  <2>8. FlowOK(n)'
    BY <1>0, <2>1, <2>2, <2>3, <2>4, <2>5 DEF FlowOK
  <2>9. PageOK'
    BY <2>1, <2>2, <2>5, <2>6, PageGoesOn
  <2> QED BY <2>6, <2>7, <2>8, <2>9, Moved
<1>2. CASE ServerInsert(n)
  <2> DEFINE c == IF flow[n].pc = "late" THEN Over
                  ELSE [FlowUnused EXCEPT !.pc = "insert_done",
                                          !.live = flow[n].live]
             r == [there |-> TRUE, files |-> flow[n].sent,
                   valid |-> flow[n].valid, chosen |-> flow[n].chosen,
                   touched |-> flow[n].touched]
  <2>1. /\ c \in FlowState /\ c.live = flow[n].live
        /\ c.pc \in {"over", "insert_done"}
        /\ c.pc = "over" => ~c.live
    <3>1. flow[n].pc = "late" => ~flow[n].live
      BY <1>0 DEF FlowOK
    <3>2. flow[n].live \in BOOLEAN
      BY <1>t DEF FlowState
    <3>3. CASE flow[n].pc = "late"
      BY <3>1, <3>2, <3>3, <1>t, Ended DEF FlowState
    <3>4. CASE flow[n].pc # "late"
      BY <3>2, <3>4, Ended DEF FlowState, FlowPc
    <3> QED BY <3>3, <3>4
  <2>2. /\ FlowTo(n, c) /\ flow[n].pc \in {"insert_sent", "late"}
        /\ requests' = [requests EXCEPT ![n] = r]
        /\ UNCHANGED <<form, load, stored>>
    BY <1>2 DEF ServerInsert
  <2>3. /\ requests' \in [Flow -> [there : BOOLEAN, files : Seq(File),
                           valid : BOOLEAN, chosen : Seq(File),
                           touched : BOOLEAN]]
        /\ requests'[n].there /\ requests'[n].files = flow[n].sent
        /\ \A m \in Flow \ {n} : requests'[m] = requests[m]
    BY <1>t, <2>2 DEF FlowState
  <2> HIDE DEF c, r
  <2>5. /\ flow' \in [Flow -> FlowState] /\ flow'[n] = c
        /\ \A m \in Flow \ {n} : flow'[m] = flow[m]
    BY <2>1, <2>2, FlowToTypes
  <2>6. OnlyMoves(n)
    BY <2>2, <2>3, <2>5 DEF OnlyMoves
  <2>7. FormTypeOK'
    BY <1>0, <2>2, <2>3, <2>5 DEF FormTypeOK
  <2>8. FlowOK(n)'
    BY <1>0, <2>1, <2>2, <2>3, <2>5 DEF FlowOK
  <2>9. PageOK'
    BY <2>1, <2>2, <2>5, <2>6, PageGoesOn
  <2> QED BY <2>6, <2>7, <2>8, <2>9, Moved
<1>3. CASE LoseInsert(n)
  <2>2. /\ FlowTo(n, Over) /\ flow[n].pc = "late"
        /\ UNCHANGED <<form, load, requests, stored>>
    BY <1>3 DEF LoseInsert
  <2>5. /\ flow' \in [Flow -> FlowState] /\ flow'[n] = Over
        /\ \A m \in Flow \ {n} : flow'[m] = flow[m]
    BY <2>2, Ended, FlowToTypes
  <2>6. OnlyMoves(n)
    BY <2>2, <2>5 DEF OnlyMoves
  <2>7. FormTypeOK'
    BY <1>0, <2>2, <2>5 DEF FormTypeOK
  <2>8. FlowOK(n)'
    BY <1>0, <2>2, <2>5, Ended DEF FlowOK
  <2>9. PageOK'
    <3>1. ~flow[n].live /\ form.submitting \in BOOLEAN
      BY <1>0, <1>t, <2>2 DEF FlowOK, Form
    <3> QED BY <2>2, <2>5, <2>6, <3>1, Ended, PageEnds
  <2> QED BY <2>6, <2>7, <2>8, <2>9, Moved
<1> QED
  BY <1>1, <1>2, <1>3 DEF FormServer

\* A submission that fails, with or without one more file in storage.
LEMMA FailureKeepsFormInv ==
    ASSUME FormInv, NEW n \in Flow, NEW late \in BOOLEAN, SubmitFails(n, late),
           flow[n].pc \in {"upload_sent", "upload_done", "insert_sent",
                           "insert_done"},
           late => flow[n].pc = "insert_sent",
           UNCHANGED <<load, requests>>,
           stored' \in [Flow -> SUBSET File], stored[n] \subseteq stored'[n],
           \A m \in Flow \ {n} : stored'[m] = stored[m]
    PROVE  FormInv'
<1>0. FormTypeOK /\ PageOK /\ \A m \in Flow : FlowOK(m)
  BY FormParts
<1>t. form \in Form /\ flow[n] \in FlowState
  BY <1>0 DEF FormTypeOK
<1> DEFINE c == IF late THEN [flow[n] EXCEPT !.pc = "late", !.live = FALSE]
                ELSE Over
<1>1. /\ c \in FlowState /\ ~c.live /\ c.pc \in {"late", "over"}
      /\ c.pc = "late" => late /\ c.sent = flow[n].sent
  BY <1>t, Ended DEF FlowState, FlowPc
<1>2. FlowTo(n, c)
  BY DEF SubmitFails
<1> HIDE DEF c
<1>3. /\ flow' \in [Flow -> FlowState] /\ flow'[n] = c
      /\ \A m \in Flow \ {n} : flow'[m] = flow[m]
  BY <1>1, <1>2, FlowToTypes
<1>4. /\ form' \in Form /\ form'.mounted = form.mounted
      /\ form'.submitting = (form.submitting /\ ~flow[n].live)
      /\ form'.shown = form.shown /\ form'.shared = form.shared
  <2>1. flow[n].live \in BOOLEAN
    BY <1>t DEF FlowState
  <2>2. CASE flow[n].live
    BY <1>t, <2>2 DEF SubmitFails, FailedForm, Form
  <2>3. CASE ~flow[n].live
    BY <1>t, <2>3 DEF SubmitFails, Form
  <2> QED BY <2>2, <2>3
<1>5. OnlyMoves(n)
  BY <1>3 DEF OnlyMoves
<1>6. FormTypeOK'
  BY <1>0, <1>3, <1>4 DEF FormTypeOK
<1>7. FlowOK(n)'
  BY <1>0, <1>1, <1>3 DEF FlowOK
<1>8. PageOK'
  BY <1>1, <1>3, <1>4, <1>5, PageEnds DEF Form
<1> QED BY <1>5, <1>6, <1>7, <1>8, Moved

LEMMA HandlerKeepsFormInv ==
    ASSUME FormInv, NEW n \in Flow, FormHandler(n)
    PROVE  FormInv'
<1>0. FormTypeOK /\ PageOK /\ \A m \in Flow : FlowOK(m)
  BY FormParts
<1>t. /\ form \in Form /\ flow[n] \in FlowState
      /\ load \in [Flow \cup Extra -> BOOLEAN]
      /\ stored \in [Flow -> SUBSET File]
  BY <1>0 DEF FormTypeOK
<1>1. CASE GotUpload(n) /\ Len(Walked(n)) # flow[n].length
  BY <1>1, <1>t, FailureKeepsFormInv DEF GotUpload
<1>2. CASE GotUpload(n) /\ Len(Walked(n)) = flow[n].length
  <2> DEFINE c == Walk(flow[n], Walked(n), Fields(n))
  <2>1. Walked(n) \in Seq(File) /\ Fields(n) \in BOOLEAN
    BY <1>t DEF Walked, Fields, Form, FlowState
  <2>2. /\ c \in FlowState /\ c.live = flow[n].live
        /\ \/ /\ c.pc = "upload_sent"
              /\ \E f \in File : c.sent = Append(flow[n].sent, f)
           \/ c.pc = "insert_sent" /\ c.sent = flow[n].sent
    BY <1>t, <2>1, WalkResult
  <2>3. /\ FlowTo(n, c) /\ flow[n].pc = "upload_done"
        /\ UNCHANGED <<form, load, requests, stored>>
    BY <1>2 DEF GotUpload
  <2> HIDE DEF c
  <2>4. /\ flow' \in [Flow -> FlowState] /\ flow'[n] = c
        /\ \A m \in Flow \ {n} : flow'[m] = flow[m]
    BY <2>2, <2>3, FlowToTypes
  <2>5. OnlyMoves(n)
    BY <2>3, <2>4 DEF OnlyMoves
  <2>6. FormTypeOK'
    BY <1>0, <2>3, <2>4 DEF FormTypeOK
  <2>7. FlowOK(n)'
    <3>1. CASE c.pc = "insert_sent" /\ c.sent = flow[n].sent
      BY <1>0, <2>3, <2>4, <3>1 DEF FlowOK
    <3>2. ASSUME NEW f \in File, c.pc = "upload_sent",
                 c.sent = Append(flow[n].sent, f)
          PROVE  FlowOK(n)'
      <4>1. flow[n].sent \in Seq(File)
        BY <1>t DEF FlowState
      <4>2. ToSet(flow[n].sent) \subseteq stored[n]
        BY <1>0, <2>3 DEF FlowOK
      <4>3. /\ c.sent # <<>>
            /\ \A i \in 1..Len(c.sent)-1 : c.sent[i] \in stored[n]
        BY <3>2, <4>1, <4>2 DEF ToSet
      <4> QED BY <1>0, <2>3, <2>4, <3>2, <4>3 DEF FlowOK
    <3> QED BY <2>2, <3>1, <3>2
  <2>8. PageOK'
    BY <2>2, <2>3, <2>4, <2>5, PageGoesOn
  <2> QED BY <2>5, <2>6, <2>7, <2>8, Moved
<1>3. ASSUME NEW put \in BOOLEAN, UploadFails(n, put) PROVE FormInv'
  <2>1. flow[n].pc = "upload_sent" /\ SubmitFails(n, FALSE)
        /\ UNCHANGED <<load, requests>>
    BY <1>3 DEF UploadFails
  <2>2. Last(flow[n].sent) \in File
    BY <1>0, <1>t, <2>1, LastStored DEF FlowOK, FlowState
  <2>3. /\ stored' \in [Flow -> SUBSET File] /\ stored[n] \subseteq stored'[n]
        /\ \A m \in Flow \ {n} : stored'[m] = stored[m]
    BY <1>3, <1>t, <2>2 DEF UploadFails, Put
  <2> QED BY <2>1, <2>3, FailureKeepsFormInv
<1>4. ASSUME NEW stillSent \in BOOLEAN, InsertFails(n, stillSent)
      PROVE  FormInv'
  BY <1>4, <1>t, FailureKeepsFormInv DEF InsertFails
<1>5. ASSUME NEW signedIn \in BOOLEAN, GotInsert(n, signedIn) PROVE FormInv'
  <2> DEFINE goes == flow[n].live /\ signedIn
             c == IF goes THEN [flow[n] EXCEPT !.pc = "reloading"] ELSE Over
  <2>1. /\ c \in FlowState /\ (goes => c.pc = "reloading" /\ c.live)
        /\ (~goes => c.pc = "over" /\ ~c.live)
    BY <1>t, Ended DEF FlowState, FlowPc
  <2>2. /\ FlowTo(n, c) /\ flow[n].pc = "insert_done" /\ ~load[n]
        /\ UNCHANGED <<requests, stored>>
    BY <1>0, <1>5 DEF GotInsert, FlowOK
  <2> HIDE DEF c
  <2>3. /\ flow' \in [Flow -> FlowState] /\ flow'[n] = c
        /\ \A m \in Flow \ {n} : flow'[m] = flow[m]
    BY <2>1, <2>2, FlowToTypes
  <2>4. /\ load' \in [Flow \cup Extra -> BOOLEAN] /\ load'[n] = goes
        /\ \A m \in Flow \ {n} : load'[m] = load[m]
    <3>1. CASE flow[n].live
      BY <1>5, <1>t, <3>1 DEF GotInsert, LoadTo
    <3>2. CASE ~flow[n].live
      BY <1>5, <1>t, <2>2, <3>2 DEF GotInsert
    <3> QED BY <3>1, <3>2
  <2>5. OnlyMoves(n)
    BY <2>2, <2>3, <2>4 DEF OnlyMoves
  <2>6. /\ form' \in Form /\ form'.mounted = form.mounted
        /\ flow[n].live => form'.submitting = signedIn
        /\ ~flow[n].live => form' = form
    <3>1. CASE flow[n].live
      BY <1>5, <1>t, <3>1 DEF GotInsert, ListLoadStarted, Form
    <3>2. CASE ~flow[n].live
      BY <1>5, <1>t, <3>2 DEF GotInsert
    <3> QED BY <3>1, <3>2
  <2>7. FormTypeOK'
    BY <1>0, <2>2, <2>3, <2>4, <2>6 DEF FormTypeOK
  <2>8. FlowOK(n)'
    BY <1>0, <2>1, <2>2, <2>3, <2>4 DEF FlowOK
  <2>9. PageOK'
    <3>1. requests[n].there /\ requests' = requests
      BY <1>0, <2>2 DEF FlowOK
    <3>2. FailedSubmitKeepsFiles'
      BY <2>1, <2>3, <3>1 DEF FailedSubmitKeepsFiles
    <3>3. CASE ~flow[n].live
      <4>1. \A m \in Flow : flow'[m].live <=> flow[m].live
        BY <2>1, <2>3, <3>3
      <4> QED BY <1>0, <2>6, <3>2, <3>3, <4>1 DEF PageOK
    <3>4. CASE flow[n].live
      <4>1. \A m \in Flow : flow'[m].live <=> m = n /\ signedIn
        BY <1>0, <2>1, <2>3, <3>4 DEF PageOK
      <4> QED BY <1>0, <2>6, <3>2, <3>4, <4>1 DEF PageOK
    <3> QED BY <3>3, <3>4
  <2> QED BY <2>5, <2>7, <2>8, <2>9, Moved
<1> QED
  BY <1>1, <1>2, <1>3, <1>4, <1>5 DEF FormHandler, FormSession, GotUpload

LEMMA ListKeepsFormInv ==
    ASSUME FormInv, NEW l \in Flow \cup Extra, ListOver(l)
    PROVE  FormInv'
<1>0. FormTypeOK /\ PageOK /\ \A m \in Flow : FlowOK(m)
  BY FormParts
<1>t. /\ form \in Form /\ flow \in [Flow -> FlowState]
      /\ load \in [Flow \cup Extra -> BOOLEAN]
  BY <1>0 DEF FormTypeOK
<1>1. /\ flow' = [n \in Flow |-> IF n = l THEN Over ELSE flow[n]]
      /\ load' = [load EXCEPT ![l] = FALSE]
      /\ load[l] /\ UNCHANGED <<requests, stored>>
  BY DEF ListOver, LoadTo
<1>2. /\ form' \in Form /\ form'.mounted = form.mounted
      /\ form'.shown = form.shown /\ form'.shared = form.shared
      /\ form'.submitting = (form.submitting /\ l \notin Flow)
  BY <1>t DEF ListOver, Form
<1>3. FormTypeOK'
  BY <1>0, <1>1, <1>2, <1>t, Ended DEF FormTypeOK
<1>4. CASE l \in Flow
  <2>1. flow[l].pc = "reloading" /\ flow[l].live /\ requests[l].there
    BY <1>0, <1>1, <1>4 DEF FlowOK
  <2>2. flow'[l] = Over /\ \A m \in Flow \ {l} : flow'[m] = flow[m]
    BY <1>1, <1>4
  <2>3. ~load'[l] /\ \A m \in Flow \ {l} : load'[m] = load[m]
    BY <1>1, <1>t
  <2>4. OnlyMoves(l)
    BY <1>1, <2>2, <2>3 DEF OnlyMoves
  <2>5. FlowOK(l)'
    BY <1>0, <1>1, <1>4, <2>2, <2>3, Ended DEF FlowOK
  <2>6. PageOK'
    BY <1>1, <1>2, <1>4, <2>1, <2>2, <2>4, Ended, PageEnds
  <2> QED BY <1>3, <1>4, <2>4, <2>5, <2>6, Moved
<1>5. CASE l \notin Flow
  <2>1. \A m \in Flow : flow'[m] = flow[m] /\ load'[m] = load[m]
    BY <1>1, <1>5, <1>t
  <2>2. form'.submitting = form.submitting
    BY <1>2, <1>5, <1>t DEF Form
  <2> QED BY <1>1, <1>2, <1>3, <2>1, <2>2, PageAlone
<1> QED BY <1>4, <1>5

-----------------------------------------------------------------------------
\* In every behaviour of the form, whatever is closed or lost and whenever
\* the client changes the list, FormInv holds at every state.
THEOREM FormInvariance == FormSpec => []FormInv
<1>1. FormInit => FormInv
  BY InitFormInv
<1>2. FormInv /\ [FormNext]_formVars => FormInv'
  <2>1. ASSUME FormInv, FormNext PROVE FormInv'
    BY <2>1, UserKeepsFormInv, ServerKeepsFormInv, HandlerKeepsFormInv,
       ListKeepsFormInv DEF FormNext
  <2>2. ASSUME FormInv, UNCHANGED formVars PROVE FormInv'
    BY <2>2 DEF formVars, FormInv, FormTypeOK, FlowOK, SubmittingIsOneFlow,
                FailedSubmitKeepsFiles
  <2> QED BY <2>1, <2>2
<1> QED
  BY <1>1, <1>2, PTL DEF FormSpec

\* A booking never names a file that is not in storage.
THEOREM StoredAttachments == FormSpec => []AttachmentsStored
<1>1. FormInv => AttachmentsStored
  BY DEF FormInv, FlowOK, AttachmentsStored
<1> QED BY <1>1, FormInvariance, PTL

\* One page never has two submissions under way, and its button is off
\* exactly while it has one.
THEOREM OneSubmission == FormSpec => []SubmittingIsOneFlow
<1>1. FormInv => SubmittingIsOneFlow
  BY DEF FormInv
<1> QED BY <1>1, FormInvariance, PTL

\* A submission that fails leaves the client's files selected.
THEOREM FilesAreKept == FormSpec => []FailedSubmitKeepsFiles
<1>1. FormInv => FailedSubmitKeepsFiles
  BY DEF FormInv
<1> QED BY <1>1, FormInvariance, PTL

\* The form, its submissions and the server's state keep their types.
THEOREM FormTyping == FormSpec => []FormTypeOK
<1>1. FormInv => FormTypeOK
  BY DEF FormInv
<1> QED BY <1>1, FormInvariance, PTL

-----------------------------------------------------------------------------
(* The walk of an untouched list.                                          *)

LEMMA SentNothing ==
    ASSUME NEW list \in Seq(File)
    PROVE  SentUpTo(<<>>, list, 0)
<1>1. Len(<<>>) = 0 /\ 1..Len(<<>>) = {} /\ 1..0 = {}
  OBVIOUS
<1>2. [k \in {} |-> 0] \in [{} -> {}]
  OBVIOUS
<1> QED BY <1>1, <1>2 DEF SentUpTo

\* The walk takes the next file with bytes: what it has sent is again the
\* files with bytes up to where it stands.
LEMMA SentOneMore ==
    ASSUME NEW list \in Seq(File), NEW sent \in Seq(File),
           NEW upto \in 0..Len(list), SentUpTo(sent, list, upto),
           NEW next \in upto+1..Len(list), list[next] \in Readable,
           \A i \in upto+1..next-1 : list[i] \notin Readable
    PROVE  SentUpTo(Append(sent, list[next]), list, next)
<1> DEFINE m == Len(sent)
           more == Append(sent, list[next])
<1>1. PICK pos \in [1..m -> 1..upto] :
          /\ \A j, k \in 1..m : j < k => pos[j] < pos[k]
          /\ {pos[k] : k \in 1..m} = {i \in 1..upto : list[i] \in Readable}
          /\ \A k \in 1..m : sent[k] = list[pos[k]]
  BY DEF SentUpTo
<1> DEFINE far == [k \in 1..m+1 |-> IF k = m+1 THEN next ELSE pos[k]]
<1>2. /\ m \in Nat /\ Len(more) = m+1 /\ more[m+1] = list[next]
      /\ \A k \in 1..m : more[k] = sent[k]
  OBVIOUS
<1> HIDE DEF more, m
<1>3. /\ far[m+1] = next /\ \A k \in 1..m : far[k] = pos[k]
      /\ \A k \in 1..m : pos[k] \in 1..upto
  BY <1>1, <1>2
<1>4. far \in [1..m+1 -> 1..next]
  BY <1>1, <1>2
<1> HIDE DEF far
<1>5. ASSUME NEW j \in 1..m+1, NEW k \in 1..m+1, j < k
      PROVE  far[j] < far[k]
  <2>1. j \in 1..m /\ far[j] = pos[j] /\ pos[j] \in 1..upto
    BY <1>2, <1>3, <1>5
  <2>2. CASE k = m+1
    BY <1>3, <2>1, <2>2
  <2>3. CASE k \in 1..m
    BY <1>1, <1>3, <1>5, <2>1, <2>3
  <2> QED BY <1>2, <2>2, <2>3
<1>6. \A k \in 1..m+1 : more[k] = list[far[k]]
  BY <1>1, <1>2, <1>3
<1>7. {far[k] : k \in 1..m+1} = {i \in 1..next : list[i] \in Readable}
  <2>1. ASSUME NEW k \in 1..m+1
        PROVE  far[k] \in {i \in 1..next : list[i] \in Readable}
    <3>1. CASE k = m+1
      BY <1>2, <1>3, <3>1
    <3>2. CASE k \in 1..m
      <4>1. pos[k] \in {i \in 1..upto : list[i] \in Readable}
        BY <1>1, <3>2
      <4> QED BY <1>3, <3>2, <4>1
    <3> QED BY <1>2, <3>1, <3>2
  <2>2. ASSUME NEW i \in 1..next, list[i] \in Readable
        PROVE  \E k \in 1..m+1 : i = far[k]
    <3>1. CASE i = next
      BY <1>2, <1>3, <3>1
    <3>2. CASE i # next
      <4>1. i \in 1..upto
        BY <2>2, <3>2
      <4>2. i \in {pos[k] : k \in 1..m}
        BY <1>1, <2>2, <4>1
      <4>3. PICK k \in 1..m : i = pos[k]
        BY <4>2
      <4> QED BY <1>2, <1>3, <4>3
    <3> QED BY <3>1, <3>2
  <2> QED BY <2>1, <2>2
<1> QED
  BY <1>2, <1>4, <1>5, <1>6, <1>7 DEF SentUpTo, more

\* The walk finds no file with bytes ahead: it has sent those of all the list.
LEMMA SentThemAll ==
    ASSUME NEW list \in Seq(File), NEW sent \in Seq(File),
           NEW upto \in 0..Len(list), SentUpTo(sent, list, upto),
           \A i \in upto+1..Len(list) : list[i] \notin Readable
    PROVE  SentUpTo(sent, list, Len(list))
<1> DEFINE m == Len(sent)
<1>1. PICK pos \in [1..m -> 1..upto] :
          /\ \A j, k \in 1..m : j < k => pos[j] < pos[k]
          /\ {pos[k] : k \in 1..m} = {i \in 1..upto : list[i] \in Readable}
          /\ \A k \in 1..m : sent[k] = list[pos[k]]
  BY DEF SentUpTo
<1>2. m \in Nat
  OBVIOUS
<1> HIDE DEF m
<1>3. pos \in [1..m -> 1..Len(list)]
  BY <1>1
<1>4. {i \in 1..upto : list[i] \in Readable}
          = {i \in 1..Len(list) : list[i] \in Readable}
  OBVIOUS
<1> QED
  BY <1>1, <1>3, <1>4 DEF SentUpTo, m

\* One stretch of the walk.
LEMMA WalkFurther ==
    ASSUME NEW c \in FlowState, NEW list \in Seq(File), NEW valid \in BOOLEAN,
           c.index \in 0..Len(list), SentUpTo(c.sent, list, c.index)
    PROVE  LET w == Walk(c, list, valid) IN
           /\ w.live = c.live /\ w.chosen = c.chosen /\ w.touched = c.touched
           /\ \/ /\ w.pc = "upload_sent"
                 /\ w.files = c.files /\ w.length = c.length
                 /\ w.index \in 1..Len(list)
                 /\ SentUpTo(w.sent, list, w.index)
              \/ /\ w.pc = "insert_sent"
                 /\ SentUpTo(w.sent, list, Len(list))
<1> DEFINE ahead == NextToUpload(list, c.index)
           next  == CHOOSE j \in ahead : \A i \in ahead : j <= i
<1>0. c.sent \in Seq(File)
  BY DEF FlowState
<1>1. CASE ahead # {}
  <2>1. ahead \in SUBSET Nat
    BY DEF NextToUpload
  <2>2. next \in ahead /\ \A i \in ahead : next <= i
    BY <1>1, <2>1, Least
  <2>3. Walk(c, list, valid) = [c EXCEPT !.pc = "upload_sent", !.index = next,
                                         !.sent = Append(@, list[next])]
    BY <1>1 DEF Walk
  <2>4. /\ next \in c.index+1..Len(list) /\ list[next] \in Readable
        /\ \A i \in c.index+1..Len(list) :
              list[i] \in Readable => next <= i
    BY <2>2 DEF NextToUpload
  <2> HIDE DEF next, ahead
  <2>5. next \in 1..Len(list)
        /\ \A i \in c.index+1..next-1 : list[i] \notin Readable
    BY <2>4
  <2>6. SentUpTo(Append(c.sent, list[next]), list, next)
    BY <1>0, <2>4, <2>5, SentOneMore
  <2> DEFINE w == Walk(c, list, valid)
  <2>7. /\ w.live = c.live /\ w.chosen = c.chosen /\ w.touched = c.touched
        /\ w.pc = "upload_sent" /\ w.files = c.files /\ w.length = c.length
        /\ w.index = next /\ w.sent = Append(c.sent, list[next])
    BY <2>3 DEF FlowState
  <2> QED BY <2>5, <2>6, <2>7
<1>2. CASE ahead = {}
  <2>1. Walk(c, list, valid) = [c EXCEPT !.pc = "insert_sent", !.valid = valid,
                                   !.files = <<>>, !.length = 0, !.index = 0]
    BY <1>2 DEF Walk
  <2>2. \A i \in c.index+1..Len(list) : list[i] \notin Readable
    BY <1>2 DEF NextToUpload
  <2>3. SentUpTo(c.sent, list, Len(list))
    BY <1>0, <2>2, SentThemAll
  <2> DEFINE w == Walk(c, list, valid)
  <2>4. /\ w.live = c.live /\ w.chosen = c.chosen /\ w.touched = c.touched
        /\ w.pc = "insert_sent" /\ w.sent = c.sent
    BY <2>1 DEF FlowState
  <2> QED BY <2>3, <2>4
<1> QED BY <1>1, <1>2

\* What SubmissionInv adds to FormInv.
WalksOK == UntouchedFilesAreSent /\ \A n \in Flow : WalkOK(n)

\* A submission that has no list to walk and nothing yet to insert.
LEMMA NoWalk ==
    ASSUME NEW n \in Flow,
           flow'[n].pc \notin Uploading \cup {"insert_sent", "late"}
    PROVE  WalkOK(n)'
BY DEF WalkOK

\* A submission that stays where it is in the walk, of a list that is still
\* the same or no longer counts.
LEMMA WalkKept ==
    ASSUME NEW n \in Flow, WalkOK(n),
           \/ flow'[n].touched
           \/ /\ flow'[n].touched = flow[n].touched
              /\ flow'[n].chosen = flow[n].chosen
              /\ flow'[n].sent = flow[n].sent
              /\ \/ /\ flow[n].pc \in Uploading /\ flow'[n].pc \in Uploading
                    /\ Walked(n)' = Walked(n)
                    /\ flow'[n].length = flow[n].length
                    /\ flow'[n].index = flow[n].index
                 \/ /\ flow[n].pc \in {"insert_sent", "late"}
                    /\ flow'[n].pc \in {"insert_sent", "late"}
    PROVE  WalkOK(n)'
<1>1. CASE flow'[n].touched
  BY <1>1 DEF WalkOK
<1>2. ASSUME ~flow'[n].touched, flow'[n].touched = flow[n].touched,
             flow'[n].chosen = flow[n].chosen, flow'[n].sent = flow[n].sent,
             flow[n].pc \in Uploading, flow'[n].pc \in Uploading,
             Walked(n)' = Walked(n), flow'[n].length = flow[n].length,
             flow'[n].index = flow[n].index
      PROVE  WalkOK(n)'
  BY <1>2 DEF WalkOK, Uploading
<1>3. ASSUME ~flow'[n].touched, flow'[n].touched = flow[n].touched,
             flow'[n].chosen = flow[n].chosen, flow'[n].sent = flow[n].sent,
             flow[n].pc \in {"insert_sent", "late"},
             flow'[n].pc \in {"insert_sent", "late"}
      PROVE  WalkOK(n)'
  BY <1>3 DEF WalkOK, Uploading
<1> QED BY <1>1, <1>2, <1>3

\* The others' walks go on while n moves and the list is left alone.
LEMMA OthersWalkOn ==
    ASSUME FormInv, WalksOK, NEW n \in Flow, OnlyMoves(n),
           form'.shown = form.shown, WalkOK(n)',
           \/ requests'[n] = requests[n]
           \/ requests'[n].touched
           \/ SentUpTo(requests'[n].files, requests'[n].chosen,
                       Len(requests'[n].chosen))
    PROVE  WalksOK'
<1>1. ASSUME NEW m \in Flow, m # n PROVE WalkOK(m)'
  <2>1. flow'[m] = flow[m] /\ WalkOK(m)
    BY <1>1 DEF OnlyMoves, WalksOK
  <2> QED BY <2>1 DEF WalkOK, Walked
<1>2. UntouchedFilesAreSent'
  BY DEF WalksOK, UntouchedFilesAreSent, OnlyMoves
<1> QED BY <1>1, <1>2 DEF WalksOK

LEMMA UserKeepsWalks ==
    ASSUME FormInv, WalksOK, ClientUser
    PROVE  WalksOK'
<1>0. FormTypeOK /\ PageOK /\ (\A n \in Flow : FlowOK(n) /\ WalkOK(n))
  BY FormParts DEF WalksOK
<1>t. /\ form \in Form /\ flow \in [Flow -> FlowState]
      /\ \A n \in Flow : flow[n] \in FlowState
  BY <1>0 DEF FormTypeOK
<1>1. CASE CloseForm
  <2>1. ASSUME NEW n \in Flow PROVE WalkOK(n)'
    <3>1. WalkOK(n) /\ flow[n] \in FlowState
      BY <1>0, <1>t
    <3>2. CASE flow[n].pc = "reloading"
      <4>1. flow'[n].pc = "over"
        BY <1>1, <3>2, Ended DEF CloseForm
      <4> QED BY <4>1, NoWalk DEF Uploading
    <3>3. CASE flow[n].pc # "reloading" /\ flow[n].live
      <4>1. flow'[n] = [flow[n] EXCEPT !.live = FALSE, !.valid = Fields(n),
                          !.files = IF flow[n].pc \in Uploading
                                    THEN form.shown ELSE @]
        BY <1>1, <3>3 DEF CloseForm
      <4>2. /\ ~flow'[n].live /\ flow'[n].pc = flow[n].pc
            /\ flow'[n].touched = flow[n].touched
            /\ flow'[n].chosen = flow[n].chosen
            /\ flow'[n].sent = flow[n].sent
            /\ flow'[n].length = flow[n].length
            /\ flow'[n].index = flow[n].index
            /\ flow[n].pc \in Uploading => flow'[n].files = form.shown
        BY <3>1, <4>1 DEF FlowState
      <4>3. flow[n].pc \in Uploading => Walked(n)' = Walked(n)
        BY <3>3, <4>2 DEF Walked
      <4>4. flow[n].pc \in Uploading \cup {"insert_sent", "late"} \/
            flow'[n].pc \notin Uploading \cup {"insert_sent", "late"}
        BY <4>2
      <4> QED BY <3>1, <4>2, <4>3, <4>4, WalkKept, NoWalk
    <3>4. CASE flow[n].pc # "reloading" /\ ~flow[n].live
      <4>1. flow'[n] = flow[n]
        BY <1>1, <3>4 DEF CloseForm
      <4> QED BY <3>1, <3>4, <4>1 DEF WalkOK, Walked
    <3> QED BY <3>2, <3>3, <3>4
  <2>2. UntouchedFilesAreSent'
    BY <1>1 DEF CloseForm, WalksOK, UntouchedFilesAreSent
  <2> QED BY <2>1, <2>2 DEF WalksOK
<1>2. ASSUME UNCHANGED <<flow, requests>>,
             form'.shown = form.shown \/ \A n \in Flow : ~flow[n].live
      PROVE  WalksOK'
  <2>1. ASSUME NEW n \in Flow PROVE WalkOK(n)'
    <3>1. WalkOK(n) /\ flow'[n] = flow[n]
          /\ (flow[n].live => form'.shown = form.shown)
      BY <1>0, <1>2
    <3> QED BY <3>1 DEF WalkOK, Walked
  <2>2. UntouchedFilesAreSent'
    BY <1>2 DEF WalksOK, UntouchedFilesAreSent
  <2> QED BY <2>1, <2>2 DEF WalksOK
<1>3. CASE EditFields \/ SubmitSignedOut
  BY <1>2, <1>3, <1>t DEF EditFields, SubmitSignedOut, Form
<1>4. ASSUME NEW files, FilesSelected(files) PROVE WalksOK'
  <2>1. ASSUME NEW n \in Flow PROVE WalkOK(n)'
    <3>1. CASE flow[n].live /\ flow[n].pc \in Uploading
      <4>1. flow'[n].touched
        BY <1>4, <1>t, <3>1 DEF FilesSelected, FlowState
      <4> QED BY <1>0, <4>1, WalkKept
    <3>2. CASE ~(flow[n].live /\ flow[n].pc \in Uploading)
      <4>1. flow'[n] = flow[n] /\ WalkOK(n)
        BY <1>0, <1>4, <3>2 DEF FilesSelected
      <4> QED BY <3>2, <4>1 DEF WalkOK, Walked
    <3> QED BY <3>1, <3>2
  <2>2. UntouchedFilesAreSent'
    BY <1>4 DEF FilesSelected, WalksOK, UntouchedFilesAreSent
  <2> QED BY <2>1, <2>2 DEF WalksOK
<1>5. ASSUME NEW n \in Flow, Submit(n) PROVE WalksOK'
  <2> DEFINE files == IF form.shared THEN form.shown ELSE <<>>
             c == [FlowUnused EXCEPT !.live = TRUE, !.chosen = files,
                                     !.length = Len(files)]
             w == Walk(c, files, form.valid)
  <2>1. files \in Seq(File) /\ form.valid \in BOOLEAN
        /\ (files = form.shown \/ Len(files) = 0)
    BY <1>t DEF Form
  <2> HIDE DEF files
  <2>2. /\ c \in FlowState /\ c.live /\ c.sent = <<>> /\ c.index = 0
        /\ c.chosen = files /\ c.length = Len(files) /\ ~c.touched
    <3>1. /\ FlowUnused \in FlowState /\ FlowUnused.sent = <<>>
          /\ FlowUnused.index = 0 /\ ~FlowUnused.touched
      BY Ended DEF FlowUnused
    <3>2. Len(files) \in Nat
      BY <2>1
    <3> QED BY <2>1, <3>1, <3>2 DEF FlowState
  <2> HIDE DEF c
  <2>3. /\ w.live /\ w.chosen = files /\ ~w.touched
        /\ \/ /\ w.pc = "upload_sent" /\ w.length = Len(files)
              /\ w.index \in 1..Len(files) /\ SentUpTo(w.sent, files, w.index)
           \/ w.pc = "insert_sent" /\ SentUpTo(w.sent, files, Len(files))
    BY <2>1, <2>2, SentNothing, WalkFurther
  <2>4. FlowTo(n, w) /\ UNCHANGED <<load, requests, stored>>
    BY <1>5 DEF Submit, c, files
  <2> HIDE DEF w
  <2>5. flow'[n] = w /\ OnlyMoves(n)
    BY <1>t, <2>4 DEF FlowTo, OnlyMoves
  <2>6. form'.shown = form.shown
    BY <1>5, <1>t DEF Submit, Form
  <2>7. WalkOK(n)'
    <3>1. CASE w.pc = "upload_sent"
      <4>1. Walked(n)' = files
        BY <2>1, <2>3, <2>5, <2>6, <3>1 DEF Walked
      <4> QED BY <2>3, <2>5, <3>1, <4>1 DEF WalkOK
    <3>2. CASE w.pc = "insert_sent"
      BY <2>3, <2>5, <3>2 DEF WalkOK, Uploading
    <3> QED BY <2>3, <3>1, <3>2
  <2> QED BY <2>4, <2>5, <2>6, <2>7, OthersWalkOn
<1>6. ASSUME NEW l \in Extra, NEW signedIn \in BOOLEAN,
             OpenForm(l, signedIn) \/ RefreshList(l, signedIn)
      PROVE  WalksOK'
  <2>1. CASE RefreshList(l, signedIn)
    BY <1>2, <2>1, <1>t DEF RefreshList, ListLoadStarted, Form
  <2>2. CASE OpenForm(l, signedIn)
    BY <1>0, <1>2, <2>2 DEF OpenForm, PageOK
  <2> QED BY <1>6, <2>1, <2>2
<1> QED
  BY <1>1, <1>3, <1>4, <1>5, <1>6
     DEF ClientUser, FormSession, PickFile, RemoveFile

LEMMA ServerKeepsWalks ==
    ASSUME FormInv, WalksOK, NEW n \in Flow, FormServer(n)
    PROVE  WalksOK'
<1>0. FormTypeOK /\ WalkOK(n)
  BY FormParts DEF WalksOK
<1>t. flow[n] \in FlowState /\ flow \in [Flow -> FlowState]
  BY <1>0 DEF FormTypeOK
<1>1. CASE ServerUpload(n)
  <2>1. /\ UNCHANGED <<form, load, requests>>
        /\ flow[n].pc \in Uploading /\ flow'[n].pc \in Uploading
        /\ \A m \in Flow \ {n} : flow'[m] = flow[m] /\ stored'[m] = stored[m]
        /\ flow'[n].live = flow[n].live /\ flow'[n].files = flow[n].files
        /\ flow'[n].touched = flow[n].touched
        /\ flow'[n].chosen = flow[n].chosen
        /\ flow'[n].sent = flow[n].sent
        /\ flow'[n].length = flow[n].length
        /\ flow'[n].index = flow[n].index
    BY <1>0, <1>1, <1>t
       DEF ServerUpload, FlowTo, Put, FormTypeOK, FlowState, Uploading
  <2>2. Walked(n)' = Walked(n)
    BY <2>1 DEF Walked
  <2>3. WalkOK(n)'
    BY <1>0, <2>1, <2>2, WalkKept
  <2>4. OnlyMoves(n)
    BY <2>1 DEF OnlyMoves
  <2> QED BY <2>1, <2>3, <2>4, OthersWalkOn
<1>2. CASE ServerInsert(n)
  <2>1. flow'[n].pc \in {"over", "insert_done"}
    BY <1>2, <1>t, Ended DEF ServerInsert, FlowTo, FlowState
  <2>2. /\ requests'[n].touched = flow[n].touched
        /\ requests'[n].files = flow[n].sent
        /\ requests'[n].chosen = flow[n].chosen
    BY <1>0, <1>2 DEF ServerInsert, FormTypeOK
  <2>3. /\ flow[n].pc \in {"insert_sent", "late"}
        /\ form'.shown = form.shown
        /\ OnlyMoves(n)
    BY <1>2 DEF ServerInsert, FlowTo, OnlyMoves
  <2>4. requests'[n].touched \/
        SentUpTo(requests'[n].files, requests'[n].chosen,
                 Len(requests'[n].chosen))
    BY <1>0, <2>2, <2>3 DEF WalkOK
  <2> QED BY <2>1, <2>3, <2>4, NoWalk, OthersWalkOn DEF Uploading
<1>3. CASE LoseInsert(n)
  <2>1. flow'[n].pc = "over" /\ OnlyMoves(n)
        /\ form' = form /\ requests' = requests
    BY <1>3, <1>t, Ended DEF LoseInsert, FlowTo, OnlyMoves
  <2> QED BY <2>1, NoWalk, OthersWalkOn DEF Uploading
<1> QED
  BY <1>1, <1>2, <1>3 DEF FormServer

LEMMA FailureKeepsWalks ==
    ASSUME FormInv, WalksOK, NEW n \in Flow, NEW late \in BOOLEAN,
           SubmitFails(n, late), late => flow[n].pc = "insert_sent",
           UNCHANGED <<load, requests>>,
           \A m \in Flow \ {n} : stored'[m] = stored[m]
    PROVE  WalksOK'
<1>0. FormTypeOK /\ WalkOK(n)
  BY FormParts DEF WalksOK
<1>t. /\ form \in Form /\ flow[n] \in FlowState
      /\ flow \in [Flow -> FlowState]
  BY <1>0 DEF FormTypeOK
<1>1. form'.shown = form.shown /\ OnlyMoves(n)
  BY <1>t DEF SubmitFails, FailedForm, Form, FlowTo, OnlyMoves
<1>2. WalkOK(n)'
  <2>1. CASE late
    <3>1. /\ flow[n].pc = "insert_sent" /\ flow'[n].pc = "late"
          /\ flow'[n].touched = flow[n].touched
          /\ flow'[n].chosen = flow[n].chosen
          /\ flow'[n].sent = flow[n].sent
      BY <1>t, <2>1 DEF SubmitFails, FlowTo, FlowState
    <3> QED BY <1>0, <3>1, WalkKept
  <2>2. CASE ~late
    <3>1. flow'[n].pc = "over"
      BY <1>t, <2>2, Ended DEF SubmitFails, FlowTo
    <3> QED BY <3>1, NoWalk DEF Uploading
  <2> QED BY <2>1, <2>2
<1> QED BY <1>1, <1>2, OthersWalkOn

LEMMA HandlerKeepsWalks ==
    ASSUME FormInv, WalksOK, NEW n \in Flow, FormHandler(n)
    PROVE  WalksOK'
<1>0. FormTypeOK /\ WalkOK(n) /\ FlowOK(n)
  BY FormParts DEF WalksOK
<1>t. /\ form \in Form /\ flow[n] \in FlowState
      /\ flow \in [Flow -> FlowState] /\ stored \in [Flow -> SUBSET File]
  BY <1>0 DEF FormTypeOK
<1>1. CASE GotUpload(n) /\ Len(Walked(n)) # flow[n].length
  BY <1>1, FailureKeepsWalks DEF GotUpload
<1>2. CASE GotUpload(n) /\ Len(Walked(n)) = flow[n].length
  <2> DEFINE list == Walked(n)
             c == Walk(flow[n], list, Fields(n))
  <2>1. list \in Seq(File) /\ Fields(n) \in BOOLEAN
    BY <1>t DEF Walked, Fields, Form, FlowState
  <2>2. /\ FlowTo(n, c) /\ flow[n].pc \in Uploading
        /\ UNCHANGED <<form, load, requests, stored>>
    BY <1>2 DEF GotUpload, Uploading
  <2>3. /\ flow'[n] = c /\ OnlyMoves(n)
    BY <1>t, <2>2 DEF FlowTo, OnlyMoves
  <2>4. WalkOK(n)'
    <3>1. CASE flow[n].touched
      <4>1. c.touched
        BY <1>t, <3>1 DEF Walk, FlowState
      <4> QED BY <2>3, <4>1, WalkKept, <1>0
    <3>2. CASE ~flow[n].touched
      <4>1. /\ list = flow[n].chosen /\ flow[n].length = Len(flow[n].chosen)
            /\ flow[n].index \in 1..Len(list)
            /\ SentUpTo(flow[n].sent, list, flow[n].index)
        BY <1>0, <2>2, <3>2 DEF WalkOK
      <4> HIDE DEF list
      <4>2. flow[n].index \in 0..Len(list)
        BY <2>1, <4>1
      <4>3. /\ c.live = flow[n].live /\ c.chosen = flow[n].chosen
            /\ \/ /\ c.pc = "upload_sent"
                  /\ c.files = flow[n].files /\ c.length = flow[n].length
                  /\ c.index \in 1..Len(list)
                  /\ SentUpTo(c.sent, list, c.index)
               \/ /\ c.pc = "insert_sent"
                  /\ SentUpTo(c.sent, list, Len(list))
        BY <1>t, <2>1, <4>1, <4>2, WalkFurther
      <4> HIDE DEF c
      <4>4. CASE c.pc = "upload_sent"
        <5>1. c.files = flow[n].files
          BY <4>3, <4>4
        <5>2. Walked(n)' = list
          BY <2>2, <2>3, <4>3, <5>1 DEF Walked, list
        <5> QED BY <2>3, <4>1, <4>3, <4>4, <5>2 DEF WalkOK
      <4>5. CASE c.pc = "insert_sent"
        BY <2>3, <4>1, <4>3, <4>5 DEF WalkOK, Uploading
      <4> QED BY <4>3, <4>4, <4>5
    <3> QED BY <3>1, <3>2
  <2> QED BY <2>2, <2>3, <2>4, OthersWalkOn
<1>3. ASSUME NEW put \in BOOLEAN, UploadFails(n, put) PROVE WalksOK'
  <2>1. \A m \in Flow \ {n} : stored'[m] = stored[m]
    BY <1>3, <1>t DEF UploadFails, Put
  <2> QED BY <1>3, <2>1, FailureKeepsWalks DEF UploadFails
<1>4. ASSUME NEW stillSent \in BOOLEAN, InsertFails(n, stillSent)
      PROVE  WalksOK'
  BY <1>4, FailureKeepsWalks DEF InsertFails
<1>5. ASSUME NEW signedIn \in BOOLEAN, GotInsert(n, signedIn) PROVE WalksOK'
  <2>1. flow[n].pc = "insert_done" /\ UNCHANGED <<requests, stored>>
    BY <1>5 DEF GotInsert
  <2>2. form'.shown = form.shown
    BY <1>5, <1>t DEF GotInsert, ListLoadStarted, Form
  <2>3. /\ flow'[n].pc \in {"reloading", "over"}
        /\ \A m \in Flow \ {n} : flow'[m] = flow[m]
    BY <1>5, <1>t, Ended DEF GotInsert, FlowTo, FlowState
  <2>4. \A m \in Flow \ {n} : load'[m] = load[m]
    BY <1>0, <1>5 DEF GotInsert, LoadTo, FormTypeOK
  <2>5. OnlyMoves(n)
    BY <2>1, <2>3, <2>4 DEF OnlyMoves
  <2>6. WalkOK(n)'
    BY <2>3, NoWalk DEF Uploading
  <2> QED BY <2>1, <2>2, <2>5, <2>6, OthersWalkOn
<1> QED
  BY <1>1, <1>2, <1>3, <1>4, <1>5 DEF FormHandler, FormSession, GotUpload

LEMMA ListKeepsWalks ==
    ASSUME FormInv, WalksOK, NEW l \in Flow \cup Extra, ListOver(l)
    PROVE  WalksOK'
<1>t. form \in Form
  BY FormParts DEF FormTypeOK
<1>1. /\ form'.shown = form.shown /\ requests' = requests
      /\ flow' = [n \in Flow |-> IF n = l THEN Over ELSE flow[n]]
  BY <1>t DEF ListOver, Form
<1>2. ASSUME NEW n \in Flow PROVE WalkOK(n)'
  <2>1. CASE n = l
    <3>1. flow'[n].pc = "over"
      BY <1>1, <2>1, Ended
    <3> QED BY <3>1, NoWalk DEF Uploading
  <2>2. CASE n # l
    <3>1. flow'[n] = flow[n] /\ WalkOK(n)
      BY <1>1, <2>2 DEF WalksOK
    <3> QED BY <1>1, <3>1 DEF WalkOK, Walked
  <2> QED BY <2>1, <2>2
<1>3. UntouchedFilesAreSent'
  BY <1>1 DEF WalksOK, UntouchedFilesAreSent
<1> QED BY <1>2, <1>3 DEF WalksOK

-----------------------------------------------------------------------------
\* At each await of a submission whose list the client leaves alone, what has
\* been sent is what the list had so far, whoever holds the list by then.
THEOREM WalksInOrder == FormSpec => []SubmissionInv
<1>1. SubmissionInv <=> FormInv /\ WalksOK
  BY DEF SubmissionInv, WalksOK
<1>2. FormInit => WalksOK
  <2>1. FormInit => \A n \in Flow : WalkOK(n)
    BY DEF FormInit, FlowUnused, WalkOK, Uploading
  <2>2. FormInit => UntouchedFilesAreSent
    BY DEF FormInit, NoRequest, UntouchedFilesAreSent
  <2> QED BY <2>1, <2>2 DEF WalksOK
<1>3. FormInv /\ WalksOK /\ [FormNext]_formVars => WalksOK'
  <2>1. ASSUME FormInv, WalksOK, FormNext PROVE WalksOK'
    BY <2>1, UserKeepsWalks, ServerKeepsWalks, HandlerKeepsWalks,
       ListKeepsWalks DEF FormNext
  <2>2. ASSUME WalksOK, UNCHANGED formVars PROVE WalksOK'
    BY <2>2 DEF formVars, WalksOK, UntouchedFilesAreSent, WalkOK, Walked
  <2> QED BY <2>1, <2>2
<1>4. FormSpec => []WalksOK
  BY <1>2, <1>3, FormInvariance, PTL DEF FormSpec
<1>5. FormSpec => [](FormInv /\ WalksOK)
  BY <1>4, FormInvariance, PTL
<1> QED BY <1>1, <1>5, PTL

\* The files a client selects and leaves alone are those of the booking.
THEOREM FilesAreSent == FormSpec => []UntouchedFilesAreSent
<1>1. SubmissionInv => UntouchedFilesAreSent
  BY DEF SubmissionInv
<1> QED BY <1>1, WalksInOrder, PTL
=============================================================================
