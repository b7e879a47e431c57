# NeighbourCare Calgary and its engine: specification, model checking and proofs

NeighbourCare Calgary is a Flutter application over Supabase (Postgres, auth,
storage, realtime). This directory holds TLA+ models of it, the TLC
configurations that check them and the TLAPS proofs about them. The repository
holds two programs, and the models follow:

* the **application**, `src/neighbourcare/lib/**` with the SQL files beside it
  (`src/lib/**` is an older duplicate of it);
* the **engine** it runs on, `src/engine/src/flutter/**`, with the framework and
  the tools around it: a copy of Flutter. What is modelled of it is the part
  where its threads meet: the task queues, the merging of threads, the frame
  pipeline with the animator and the vsync waiter, and the creation and
  destruction of the output surface.

Paths below are relative to `src/neighbourcare/lib/` for the application, to
`src/engine/src/flutter/` for the engine, unless they begin with `src/`.

## 1. Inventory

| Part | State it keeps | Operations | Talks to |
|---|---|---|---|
| bookings and providers tables | rows: status, provider_id; pvsc_verified | one SQL statement at a time | all pages |
| Provider portal `pages/provider_portal_page.dart` | `_providerId`, `_loading`, `_isClaiming`, `_message`, `_openJobs`, `_myJobs` | `_loadPortal`, `_claimJob`, `_updateStatus`, refresh, open, close | tables |
| Administrator portal `pages/admin_portal_page.dart` | `loading`, `statusFilter`, `allBookings`, `providers` | `loadAdminData`, `assignProvider`, `updateBookingStatus`, `setProviderVerification`, filter, refresh | tables |
| Booking form `pages/services_booking_page.dart`, `widgets/multi_file_upload_widget.dart` | selected files (twice: widget and page), form, `_submitting`, own bookings | pick, remove, upload, submit, load | storage, bookings |
| Sign-up and login `pages/*signup_page.dart`, `pages/login_page.dart`, `src/neighbourcare/supabase_login_name.sql` | account, users row, login name (unique, case-insensitive) | create account, apply, sign in | auth, users, providers |
| Authentication `services/auth_service.dart` | session, admin flag, login name, gold points | stream listener, two loads, daily bonus | auth, users, admin_roles, RPC |
| Forum `pages/category_forum_page.dart`, `pages/report_local_conditions_page.dart` | posts, replies, votes, media | publish, reply, stream | posts, replies, storage |
| Local savings `services/local_savings_service.dart` | deal lists | fetch, filter, sort, parse prices | savings tables |
| Weather `services/weather_service.dart` | none | fetch, classify | weather API |
| Profiles, notifications | form fields, lists | load, save | users |
| Traffic, jobs, housing, discover pages | one list each | fetch, display | web APIs |
| Locale, font size, start-up | a value each | assign | none |
| Engine: task queues and loops `fml/message_loop_task_queues.cc`, `fml/task_source.cc`, `fml/message_loop_impl.cc` | per queue: two task heaps, pause count, owner and owned queues; per loop a timer | register, get next, merge, unmerge, pause, resume; wake up, flush | all threads |
| Engine: thread merger `fml/raster_thread_merger.cc`, `fml/shared_thread_merger.cc` | lease terms, enabled flag | merge with a lease, extend, decrement, unmerge, enable, disable | task queues |
| Engine: frame pipeline, animator, vsync waiter `shell/common/{pipeline.h,animator.cc,vsync_waiter.cc}` | two semaphores and a queue; a request semaphore, a continuation; callbacks | request, await vsync, begin, render, commit; consume, resubmit | UI, raster and vsync threads |
| Engine: surface `shell/common/{shell.cc,rasterizer.cc}`, Android's `external_view_embedder.cc` | the surface, the merger, overlay layers | create, destroy, set up, tear down, draw | platform, raster and IO threads |
| Engine: rendering, text, host APIs, tools | | | |

**Interaction.** There is no server code in the repository. Every rule of the
marketplace that involves two users is in the WHERE clause of a statement some
page sends. The pages do not notify each other: each acts on the lists of its
last load. Within a page, Dart runs a handler without interruption up to its
next `await`; several handlers may be suspended at once.

In the engine four threads (platform, UI, raster, IO) post tasks to each
other's queues, and sometimes wait for the answer on a latch. A frame that shows
platform views makes the platform thread run the raster thread's tasks for as
long as a lease is renewed.

**What is hard**

* Two portals act on lists read at different times. A request may arrive long
  after the list it was decided from was true.
* Loads of one page overlap (the refresh button is off while loading, but the
  reloads at the end of `_claimJob` and `_updateStatus` are not), and end in
  any order.
* A request, or only its answer, may be lost. The page cannot tell, and a
  request its sender gave up on may still be run later.
* A page may be closed with requests under way (`mounted` checks), and the
  session may end behind its back.
* The administrator's statements match on the id alone, so nothing but what
  the page offers restricts them.
* Booking form: uploads come before the insert; the list being uploaded is the
  widget's own, which the client may change at every await; the fields are
  validated before the uploads and read after them.
* Authentication: two unawaited loads race the auth stream; answers are
  applied to whatever session is then current.
* Sign-up: the account exists before its rows do.
* Task queues: every change of a queue has to arm the timer of the loop that
  will run it, and merges and unmerges change which loop that is. Dart events
  are held back by one thread and let go by another.
* Pipeline: two semaphores around a queue under a mutex; no operation holds two
  of the three. Two threads may be in the consumer after a merge.
* Surface: the platform thread looks which thread runs raster tasks, acts on
  it, and waits, while a frame may be merging the threads.

**What makes each part correct**

* Tables and portals: the first successful claim wins and keeps the job;
  nobody but the holder writes a row from a portal; status and assignment
  agree; a refusal is final; a cancelled request stays so; only verified
  providers come to claim; seen from far enough away it is one job board.
* Each page: the flags agree with the calls under way, whichever branch ends
  them; every load and every claim ends.
* Booking form: a booking names no file that is not in storage, and all the
  files the client chose; one submission of a page at a time; a failed one
  loses nothing the client entered.
* Task queues: no lost wake-up; merges never make a chain; Dart events are held
  exactly while a vsync callback is on its way; what is posted is run.
* Frames: no place of the pipeline is lost; a frame taken exists; one request,
  one vsync; a queued frame has a Draw coming; requests are served.
* Surface: after the destruction returns nothing has or makes a surface; leases
  and queues agree, so no FML_CHECK fails; latches outlive those who signal
  them; nobody waits for himself.

## 2. Modules

```
BookingStore            the two tables and every statement sent to them
  ProviderPortal        the provider's page and its calls      (EXTENDS BookingStore)
  AdminPortal           the administrator's page and its calls (EXTENDS BookingStore)
    Bookings            the composition, its properties and invariants
      MCBookings        small instances for TLC
      StoreProofs -> PageProofs -> BookingsProofs;  FlagProofs
JobBoard                the abstract specification Bookings implements

BookingForm             the client's page, its upload widget, its submissions
  MCBookingForm         small instances for TLC
  FormProofs

TaskQueues              the engine's task queues and loops
  MCTaskQueues          small instances;  QueueProofs
ThreadMerger            the lease on the raster thread
  Surfaces              platform views, Setup, Teardown, Draw  (EXTENDS ThreadMerger)
    SurfaceProofs
Frames                  animator, vsync waiter, pipeline, rasterizer
  MCFrames              small instances;  FrameProofs
FrameLine               the abstract specification Frames implements
```

### BookingStore

`bookings[b]` is the row of `b`: its status and its `provider_id` (NoProvider
is SQL null). `profile[p]` is the providers row of `p`. The other variables are
history, written by the statements and read by no guard. A SELECT is an
operator, an INSERT or UPDATE an action with the WHERE clause as a condition
and zero rows as a legal outcome. Postgres runs one statement at a time and the
program never opens a transaction of two, so a statement is one step.

| Definition | Code |
|---|---|
| OpenRows, RowsOf, ReadProvider | the three queries of `_loadPortal` (54-94) |
| FilteredRows | the query of `loadAdminData` (41-79) |
| ClaimMatches, UpdateClaim | `_claimJob` 226-236: id, status pending, provider_id null |
| OwnMatches, UpdateOwnStatus | `_updateStatus` 274-278: id and provider_id |
| UpdateAssign, UpdateAnyStatus, UpdateVerified | `assignProvider` 210-216, `updateBookingStatus` 262-265, `setProviderVerification` 235-240: id alone |
| InsertBooking, InsertProfile | `services_booking_page.dart` 366-382, `provider_signup_page.dart` 99-103 |

### ProviderPortal

`portal[p]` is the mounted page of `p`; `call[p][k]` is a suspended handler:
`pc` says on which await, and the other fields are the handler's locals and the
answer on its way back. One action is one stretch between two awaits:

* user: OpenPortal (`initState`), ClosePortal, Refresh, ClaimJob (the guard is
  the button's `onPressed` at 398-414 and the early return of `_claimJob`),
  UpdateStatus (the buttons at 443-473);
* server and network: ReadProvider, ReadOpenJobs, ReadMyJobs, ServerClaim,
  ServerUpdate, LoseRequest;
* the event loop: GotProvider (61-88), GotJobs (96-115), LoadFails (catch and
  finally), GotClaim (238-252), GotUpdate (280-287), ClaimFails, UpdateFails.

`_claimJob` awaits `_loadPortal`; the field `waiting` of a load says that a
claim flow awaits its end, and ClaimOver is the `finally` of that flow. The
outcome message and the first `setState` of the reload are in one stretch, so
GotClaim does both. The constant `Mishaps` switches on losses ("loss": an
answer or a request is lost, or a request arrives after its sender gave up),
closing ("close") and the session ending ("signout").

### AdminPortal

The same construction. `rows` and `profs` are `allBookings` and `providers` as
last loaded. A load takes the filter as it is when it begins, and whichever
load ends last decides the rows. CanAssign and AdminOffered are what the
buttons of a row offer (349-523); Approve and Suspend send the opposite of what
the list shows (631-671). The constant `Duties` says which of the three kinds
of update an instance has, `AMishaps` which mishaps.

### Bookings

`Next` interleaves a client's request (SubmitBooking), a provider's
application (SubmitApplication), PortalNext and AdminNext. It states all the
properties, the invariants and the refinement of JobBoard: a booking held by
somebody is "held", a pending row "open", a row cancelled while unassigned
"withdrawn"; a claim, which in the program is a tap on an old list, a request,
a statement and an answer, is one indivisible Take.

### BookingForm

`form` is the client's page with the upload widget in it. The widget has one
list for its whole life (`shown`), which the page shares from the first pick or
removal on (`onFilesSelected`) until a submission succeeds; `shared` says
whether it does. `flow[n]` is a submission suspended at one of its awaits,
`requests[n]` the row it has inserted, `stored[n]` what it has uploaded.

| Definition | Code (`services_booking_page.dart`) |
|---|---|
| PickFile, RemoveFile, FilesSelected | `_pickFiles` and `_removeFile` of the widget (20-41), `onFilesSelected` 629-635 |
| Submit, SubmitSignedOut | `_submitBooking` 334-382 up to its first await, and its early return |
| Walk, GotUpload | the loop of `_uploadAttachments` 313-332: the walk is over the live list, by position, and Dart throws a ConcurrentModificationError when its length has changed |
| ServerUpload, ServerInsert, LoseInsert | the storage and the table (external) |
| GotInsert | 384-402: clear the fields, take a new empty list, reload |
| UploadFails, InsertFails, FailedForm | `catch` and `finally` 403-416 |
| OpenForm, RefreshList, ListLoadStarted, ListOver | `_loadMyBookings` 266-307 |
| CloseForm | `dispose`; the submissions go on without the page, and the walk keeps the list the widget had |

A client has one page at a time. The fields are reduced to whether they pass
their validators. A `File` is one pick; what the client's list of bookings
shows, `_loadRole` and the navigation after signing out are left out. A file in
upload is already the last of `sent`, as the name it will get is. The insert is
the one that SubmitBooking of Bookings stands for; the two modules share no
state but that row, and are checked apart.

### TaskQueues

A task is a record with its queue, its place in the order of posting, its due
time and its grade; `tasks` is the content of all heaps. `MessageLoopTaskQueues`
has one mutex, held by each operation from end to end, so an operation is one
step (RegisterTask, Merge, Unmerge, GetNextTaskToRun, ResumeSecondarySource,
FireCallback for PauseSecondarySource). `wake[q]` is the timer a loop's
`WakeUp` arms, Never when it is drained; `loop[q]` says whether the thread
sleeps, flushes or runs a task. `FlushTasks` reads the clock once and keeps
asking until nothing is due.

| Definition | Code |
|---|---|
| Offered, Pending, Top | `TaskSource::GetNumPendingTasks` (`task_source.cc:51-61`), `HasPendingTasksUnlocked`, `PeekNextTaskUnlocked` (`message_loop_task_queues.cc:338-397`) |
| RegisterTask, LoopToWake, Woken | `RegisterTask` 92-111 |
| Merge, MayMerge, Unmerge | 212-304; callers: `engine.cc:282-291`, `shell.cc:673-683`, the merger |
| OnEventFired, TaskReturns | `message_loop_android.cc:84-93`, `message_loop_impl.cc:118-136` |
| FireCallback, PostVsync | `vsync_waiter.cc:112-147`; the resume at 143-145 is the end of TaskReturns |

The other platforms' loops differ in what their timers are, not in when they
are armed. Not modelled: Terminate, Dispose, task observers, and the third
grade (`kUserInteraction`), which shares the primary heap. Merges that the code
refuses change nothing and are left out as steps.

### ThreadMerger and Surfaces

ThreadMerger is `RasterThreadMerger` over `SharedThreadMerger`: `lease` is the
engine's lease record, `merged` is what MessageLoopTaskQueues knows. They are
two records of one fact, and every FML_CHECK of `shared_thread_merger.cc`
compares them (`checkFailed`). `same` is the case of one queue for both from
the start.

Surfaces has the platform thread in its two calls (one action between two
things another thread can see: the look at which thread runs raster tasks, the
post, the wait, the return), the IO thread's queue, the raster queue, and a
Draw as the steps at which it uses the merger or the embedder: Prepare
(`PrepareFlutterView`, which may wait for the platform thread to destroy
overlay layers), Preroll, Merge, Extend (`PostPrerollAction`), Clean, Lease
(`DoDraw` 602-612), Resubmit. Which frame a Draw finds is left to Frames: here
each Draw has its own, which shows platform views or does not, and has a new
size or not. A frame whose surface cannot be acquired, or for which the GPU is
unavailable, does less of the same and is left out. So is
`Rasterizer::DrawLastLayerTrees` (219-244), which draws the last frame again: it
may merge the threads or extend a lease as a Draw does, but neither resubmits
nor decrements one, so it adds no way to end a lease or to tear down. The IO
thread is a thread of its own, as it is on the mobile platforms.

### Frames

One step is one operation on one of `empty_`, `available_`, `queue_mutex_`,
`pending_frame_semaphore_` or `callback_mutex_`. The UI thread runs its tasks
one after the other (`ui`, `uiTasks`), the framework requests and renders as it
likes, within a frame or outside; `posted` counts the Draws in the raster
queue. Any of `Drawer` takes the next Draw while another may still be in the
last steps of its own (InTail): that is what merging and unmerging in the
middle of a Draw permits, and the only thing about merging that matters here.

FrameLine says what all this promises, without semaphores or threads: a line of
numbered frames with at most Depth waiting or being drawn, which a frame joins
once, as the newest, and leaves at the head; a drawn frame is done for good, or
kept and drawn again by way of a line that is empty, or given up. Frames
implements it (ImplementsFrameLine): the line is `queue_`, a frame is drawn
from its pop until the Draw gives its place back, and kept from the end of a
Draw that resubmits until it is pushed again or found superseded. The semaphore
counts, the signals and the requests are not part of it.

Simplified: the Draws that yield because they run on the wrong thread (the end
of a lease posts its own); `AwaitVSync` right after the unlock of
`callback_mutex_` is one step with it; the raster task of `DrawLastLayerTrees`
does not touch the pipeline; one layer tree stands for all views.

### Simplifications of the application's models

* One portal per provider and one page per administrator: a second device of
  the same user is not modelled. Two calls per page are (`Slot`, `ASlot`).
* Nothing happens on the page between the answer to the open-jobs query and
  the request for my-jobs, so ReadOpenJobs does both.
* OpenPortal with an ended session behaves as a release build does (a debug
  build asserts in `initState` when the localized text is looked up).
* The provider dropdown of a row is modelled by the providers of the last
  load. That Flutter asserts when the row's provider is not among them is
  not.
* The statements are translated as the code sends them; the row-level security
  policies of the deployment are not in the repository and not modelled, so
  the properties rest on the WHERE clauses alone.

## 3. Runs

Every cfg states its instance; what is not mentioned is switched off. MCForm
and MCFormFields are of module MCBookingForm, MCQueues of MCTaskQueues,
MCSurfaces and MCDestroy of Surfaces, MCLostFrame of MCFrames; the others are of
MCBookings, or of the module they are named after.

| Run | Instance | Distinct states | Shows |
|---|---|---|---|
| MCAssign | 1 booking, 2 providers who may close their pages, 1 administrator who assigns | 2.1 M | FirstClaimWins, ClaimantKeepsJob, WriterHoldsRow, ImplementsJobBoard under every interleaving of stale lists, claims, status changes and assignments, updates that nobody waits for any more included |
| MCVerify | 1 provider, 1 administrator, all duties, losses on both sides | 1.24 M | IInv, OnlyOnceVerifiedClaim, RefusalIsFinal, CancelledStaysCancelled |
| MCPortal | 1 provider, 2 calls, loss, close, sign-out, FairSpec | 20 k | FlagInv, ClaimingIsOneFlow; every claim and load ends (ClaimEnds, LoadingEnds) |
| MCAdmin | 1 administrator with 2 calls, 2 filters, loss, close, FairSpec | 138 k | OwnershipMatchesStatus, NoStuckSpinner, LoadingEnds |
| MCForm | 2 files, 2 submissions, 1 other load, loss, close, sign-out | 1.5 M | SubmissionInv, AttachmentsStored, UntouchedFilesAreSent, SubmittingIsOneFlow, FailedSubmitKeepsFiles |
| MCQueues | 3 queues, 3 pairs that merge, 3 tasks, 2 times, QueueFairSpec | 531 k | QueueTypeOK, MergesAreFlat, NoLostWakeup, PausedForVsync, QueuesDrain |
| MCFrames | 2 drawing threads, depth 2, 3 frames, FrameFairSpec | 244 k | FrameTypeOK, PlacesConserved, FramesSignalled, OneRequest, VsyncIsAsked, FramesAreAnnounced, ImplementsFrameLine, RequestsAreServed, QueueIsDrawn |
| MCSurfaces | 2 views, 3 Draws, leases of 2 frames, SurfaceFairSpec | 55 k | SurfaceInv, DestroyIsFinal, UnmergedWhenDestroyed, LeaseMatchesQueues, LatchOutlivesTasks, CreatedComesBack |
| MCNotVerified, MCFormFields, MCLostFrame, MCDestroy | as the above, or smaller | - | the disagreements of section 5 |

**Why the bounds are enough to be interesting.** One booking suffices for what
is said of each booking alone, since no statement names two. Two providers are
needed for a race and a third adds none (the row has one holder and one
challenger at a time). Two calls per page give overlapping loads, a claim
during a reload, a retry after a lost answer while the first request is still
under way. The administrator's page needs no second administrator for a stale
row: two calls of one page already act on rows read at different times.

In MCAssign the only mishap is a page closed with a request under way: that
suffices for an update to reach the server when its sender has stopped waiting
and the job is somebody else's. Losses are added in MCVerify and MCPortal, with
one provider; losses among two providers and an administrator are covered by
the theorems of section 4 alone, which hold for any number of all of these.
MCPortal has no administrator and MCAdmin no portal's calls, so each covers its
half of LoadingEnds. The administrator's half of NoStuckSpinner is checked in
MCAdmin; the provider's follows from FlagInv, which MCPortal checks. Symmetry is
used on providers, slots, files and submissions, and in no run with a liveness
property.

For the form, two files give a walk that is in the middle of its list, a list
of the same length with other files in it, and a second file of which the
upload fails; two submissions give a retry after a failure, a second page while
the first page's submission goes on, and a second booking after the first.
Both files of MCForm come with their bytes, as every pick does on the web
(`withData: kIsWeb`). MCFormFields has one that does not, which the walk skips
(Readable); for UntouchedFilesAreSent such a file is covered by the theorem
FilesAreSent. That property says what has been sent with SentUpTo, which needs
no recursion; every run of MCBookingForm also compares it with the SelectSeq of
the community modules, over all lists of up to three files
(SentUpToIsSelectSeq).

For the queues: three queues give an owner with two subsumed ones and the
attempt at a chain; three tasks give one running while two wait on other
queues; two points in time give a timer armed too late. QueueProofs has the
invariants for any number of each. For the frames: two places and three frames
give a full pipeline, a frame pushed second and one that comes back after a
newer one; a third thread would add nothing, as a merge involves two. For the
surfaces: the second view is created with the merger already there; two frames
of lease are one more than the end of one; three Draws are one to merge, its
resubmission and another behind it. MaxTasks, MaxTime, MaxFrames, MaxViews and
MaxDraws are bounds in the guards. TailIsShort is a bound on relative speed:
after a merge the raster thread has a few steps of its Draw left, and they are
taken to be over before the platform thread has drawn one whole frame. Without
it the platform thread could end the lease while the raster thread is about to
decrement it, which takes LeaseTerm (10 in the code) whole frames. It is an
assumption of the model, so the theorems about Surfaces have it too; so is
LeaseTerm >= 2, which says that the Draw that merges does not end its own lease.

The engine's runs do not check deadlock: with their bounds used up they stop,
and MCSurfaces also stops in the situation MCDestroy is about.

**Fairness.** FairSpec makes the server with the network, and the event loop, weakly fair
for each call: a request is answered or fails, and Dart resumes a handler whose
future has completed. No user action is fair. With losses on, failing
is one of the ways a request may end; losing is never required.

QueueFairSpec: the clock goes on, timers go off, loops run their tasks and tasks
return; a vsync callback that has paused the events posts its task. Posting,
merging and unmerging are free. SurfaceFairSpec: each thread goes on with its
tasks and its call; who creates, destroys and draws is free. FrameFairSpec: the
platform delivers the vsync it was asked for, the UI and raster threads run
their tasks, and what the framework has rendered in a frame it commits. Two
assumptions are strong fairness: a frame the framework keeps rendering in ends
(the framework's part of a frame is finite), and not every Draw resubmits its
frame (one that does has merged the threads, and the next, merged, does not).

**Slips.** The models also define, beside some operators, the form a plausible
mistake would give them (ClaimMatchesById, LoadFailsStuck, ...). They are used
by no action; each exists to show that a property would notice. They are named
in PROJECT.json under "mutants".

## 4. Proofs

TLAPS proves, for any sets of bookings, providers, administrators, call slots
and filters, and any choice of mishaps and duties, from the named assumptions
only (NoProvider is no provider; filters are statuses or "all", which is one
of them; the loads of the form's list have other names than its submissions;
the switches have the values listed), and for any sets of queues, pairs, delays
and drawing threads, any depth of the pipeline, any lease of two frames or more
and any bounds:

| Module | Theorems |
|---|---|
| StoreProofs | StoreInvStep: a statement sent under its conditions keeps the store's invariant, and certain facts, once true, stay true |
| PageProofs | one lemma per action of either page, then AdminStep and PortalStep |
| BookingsProofs | Invariance (IInv), Typing, OneWinner, WinnerHolds, OwnersWrite, StatusAgrees, VerifiedClaims, FinalRefusals, Cancelled (action property), Refinement (implements JobBoard) |
| FlagProofs | FlagInvariance (FlagInv), OneClaimFlow, SpinnerHasLoad |
| FormProofs | FormInvariance (FormInv), StoredAttachments, OneSubmission, FilesAreKept, FormTyping; WalksInOrder (SubmissionInv), FilesAreSent |
| QueueProofs | QueueCorrect (the inductive invariant), QueueTyping, MergesStayFlat, LoopsAreWoken, PausesAreVsyncs |
| FrameProofs | FramesInOrder (the inductive invariant), FrameTyping, PlacesAreConserved, SignalsMatchFrames, RequestsAreSingle, CallbacksHaveVsyncs, FramesStayAnnounced; FramesKeepApart (the second invariant), LineRefinement (implements FrameLine) |
| SurfaceProofs | SurfacesInOrder (SurfaceInv), DestroysAreFinal, DestroysUnmerge, LeasesMatchQueues, LatchesOutliveTasks |

**The argument.** A property such as OwnershipMatchesStatus is not inductive:
the administrator's statement matches on the id alone, so whether it is
harmless depends on the row it was decided from, read arbitrarily long ago.
The invariant has to speak of everything in transit. It has three layers:

1. *Settled facts.* A booking that exists goes on existing; one that is held is
   never unassigned again; one that is not open does not reopen; a provider once
   verified has been verified once. StoreInvStep proves that every statement
   sent under its conditions (StoreStep) preserves these, together with StoreInv.
2. *What was seen.* Every row on a page, in an answer, or in a request is
   consistent with the settled facts (WasRow, PortalSees, CallCarries,
   AdminSends): a row once seen with a provider implies the row has one now.
   Because the facts are settled, other actors' steps cannot break this
   (PortalSettles, AdminSettles).
3. *What is sent.* The buttons only offer what layer 2 makes harmless: "accept"
   or "start" is offered only for a row seen with a provider; "pending" is
   never sent. So every statement is sent under the conditions of StoreStep,
   which closes the circle.

The flags are a second, independent invariant (FlagInv), which needs only the
types of the pages and calls.

Refinement follows from IInv and StoreStep: a winning claim is a Take, an
assignment a Dispatch, a cancellation of an unassigned pending row a Withdraw,
every other statement and every step of a page a stutter.

The form's AttachmentsStored is not inductive either: whether an insert may
name a file depends on what became of it in the loop. FormInv adds what is
known at each await (FlowOK): while an upload is under way all of `sent` but
its last file is in storage, afterwards all of it is, up to the insert. The
page's flags are a second part (PageOK), and a step is judged by the submission
it moves (Moved) and by what it does to the page (PageGoesOn, PageEnds,
PageAlone). Walk takes the least position ahead; that there is one is the
well-ordering of the naturals (Least).

UntouchedFilesAreSent is about what the walk has done so far, so SubmissionInv
adds, for each submission whose list the client has left alone (WalkOK), that
the list it walks is still the one of the tap, whoever holds that list by then
(the page, the widget alone, or nobody after the page is closed), and that
`sent` is what the list has to send up to the position of the walk. SentUpTo
says the latter with a numbering of positions instead of a filter: each stretch
of the walk passes files without bytes and adds one position (SentOneMore), so
the invariant does step by step what would otherwise be an induction over the
list. Who else may move is the hard part: another submission that ends, or
another page, must not put a different list in the place of this one
(OthersWalkOn).

The queues. QueueInv is QueueTypeOK, MergesAreFlat, NoLostWakeup and
PausedForVsync with two parts of its own: TasksNumbered (finitely many tasks,
each with its own number, below the next one) and VsyncInv. What may run on a
loop changes with merges and pauses, so NoLostWakeup is taken a loop at a time
(AwakeFor): WokenIsArmed says what arming a timer achieves, StillAwake that a
loop whose pending tasks do not grow needs nothing. Each operation is judged by
the loops whose pending tasks it may add to: the loop to wake for a post, the
owner for a merge, both for an unmerge. The end of a vsync task is the delicate
one: it resumes the events of its queue and wakes that queue's loop, not the
loop that runs a merged queue's tasks (LoopToWake). That is harmless because
the task is running on just that loop, which is what VsyncInv keeps; and a
queue is not merged under a running vsync task, since whoever merges is running
another task on the queue's loop. PausedForVsync compares numbers of tasks and
loops; they change by one at a time, and the library's facts on finite sets do
the counting.

The frames. FrameInv is a list of the checked invariants, with types that state
no upper bounds (those follow from PlacesConserved) and FrameNumbers (a drawn
frame was built). PlacesConserved and FramesSignalled are sums over where the
threads are; a step moves one thread at most, so each count changes by at most
one (CountMoved, AtMoved). FramesSignalled is what makes a pop find a frame.
FramesAreAnnounced has one hard step, the Draw that finds no signal: a frame in
the queue is then, by FramesSignalled, one whose signal is still to come or one
that another Draw is about to pop. In the second case that Draw is the one that
is coming; in the first the step sets `raced`.
The second invariant, FramesApart, follows each frame: it is in the queue, or in
the hands of one thread, never two (HandsOffQueue, HandsApart), and the queue
ascends (QueueAscends) although frames come back to it, because one that comes
back does so only when it finds the queue empty. FrameLine's variables are read
off the queue and the program counters (FramesAt). Its capacity, that at most
Depth frames wait or are drawn, is not a variable of Frames at all: it follows
from PlacesConserved, by which a thread that has taken `empty_` holds a place
nobody else counts (PlaceLeft). FramesApart makes every other step a step of
the line or a stutter.
The history variable `raced` marks the one interleaving in which the
announcement can fail (section 5, MCLostFrame); only the properties read it.

The surfaces. None of the four properties is inductive: what a destruction
leaves behind depends on the tasks that were queued before it and on the Draws
that were under way. SurfaceInv adds three parts. DrawsAreApart: only the thread
that now runs the raster tasks is in the front part of a Draw; the raster
thread may still be in the last steps of the Draw that merged, and then the
lease is full, so giving back one frame does not end it. That is what keeps
lease and queues together (LeasesMatchQueues) when the two threads overlap.
TasksAreInOrder: a queued Setup is the only one and finds no surface and
unmerged queues, and behind a Teardown there are only Draws. CallsAreInOrder:
what the platform thread can count on at each of its steps; in `destroyWait` the
Teardown is queued, or it has run and the IO task is queued, or the latch has
been signalled, and from the second on nothing is left of the view (TornDown).
There is one lemma per action, and under it one step per part. ThreadMerger is
proved about through Surfaces, the only caller the model has.

**Only model-checked:** liveness (ClaimEnds, LoadingEnds, QueuesDrain,
RequestsAreServed, QueueIsDrawn, CreatedComesBack), which is outside the
prover's reach, and the disagreements of section 5. Every other property of a
passing run is stated by a theorem; that an operator defined without recursion
agrees with a recursive one (SentUpToIsSelectSeq) is evaluated by TLC over small
inputs.

## 5. Where the texts and the code disagree

1. **MCNotVerified.** A refresh that finds the profile suspended shows the "not
   verified" message but returns before it clears `_providerId` and the lists
   (`provider_portal_page.dart:71`), so the page still offers and sends claims,
   and the claim's statement does not look at `pvsc_verified`.
   OnlyOnceVerifiedClaim is the weaker property that does hold.
2. **MCFormFields.** The form is validated, then the files are uploaded with
   every field still enabled, then the fields are read: a booking is stored
   without the description its validator insists on
   (`services_booking_page.dart:372`).
3. **MCLostFrame.** The producer pushes a frame under the mutex and signals
   `available_` afterwards (`pipeline.h:226-233`). The Draw of the frame before
   may see the new one (MoreAvailable), post another Draw, and that Draw may
   find nothing to take, all before the signal. The animator does not announce
   a frame that was not first ("Eventually the 'Rasterizer' will consume it",
   `animator.cc:149-151`), no later one is first while it is there, and with
   the pipeline full nothing is drawn any more. The UI thread has to be
   preempted for the length of two raster tasks.
4. **MCDestroy.** `OnPlatformViewDestroyed` disables the merger so that the
   threads' configuration cannot change while it waits (`shell.cc:1056-1064`).
   The raster task of the creation, which may still be queued, enables it again
   (`shell.cc:996`); a frame with platform views behind it merges the threads,
   and the posted Teardown can only be run by the thread that waits for it.

Observations of behaviour that a text of the repository would have otherwise,
not checked as properties of their own: `_claimJob` sets the outcome message and
calls `_loadPortal` in one stretch, whose first `setState` clears it
(`provider_portal_page.dart:48-52`), so neither "Job claimed successfully." nor
the refusal is ever drawn, and likewise in `_updateStatus`; a claim that matches
no row is reported as "already claimed by another provider" though the job may
have been cancelled and be nobody's; of two overlapping loads the older may end
last and put a refused job back on the list after "The list will now refresh.";
"Clear all form inputs and selected files" (`services_booking_page.dart:386`)
replaces the page's list only, the widget goes on showing its own and the next
pick sends the old files again; a Draw that merges the threads on the raster
thread uses `surface_` once more there (`rasterizer.cc:719-722`), when a
destruction run inline on the platform thread may have reset it.

Observations that no text of the repository denies, and so no property either:
the Assign button of a pending row passes the row's own `provider_id`, which by
OwnershipMatchesStatus is null there, so it never assigns anybody; the last
load to end decides the administrator's rows under whatever filter is then
selected; an assignment revives cancelled and completed bookings and overrides
a claim; Start and Complete tapped before the reload may be run in the other
order, which takes a completed job back to in_progress; a booking the
administrator has set to "accepted" has no buttons in the provider's portal;
removing one file and picking another during an upload leaves the length as it
was, so the walk goes on and skips a file without a word; an insert of which
only the answer is lost is reported as failed, and trying again stores a second
booking; the files of a submission that fails stay in storage.

## 6. Not modelled

* **The bulk of the engine** (rendering, display lists, geometry, text, host
  APIs, tools, and the unit tests beside them) is sequential code over data
  that cannot be enumerated, or glue to a platform. The models cover the
  places where its threads meet; in lines that is a very small part of the
  tree.
* **Of the modelled engine parts:** the end of a loop (Terminate, Dispose), task
  observers, mergers shared by spawned engines (their leases are added up in
  one record per engine, `shared_thread_merger.cc:59`), the wait of
  `PlatformView::NotifyCreated` before it calls the shell, `WaitUntilMerged`
  (called by tests alone).
* **Authentication and gold points.** What the daily bonus does is decided by a
  server function (`award_gold_points`) that is not in the repository. What is
  left is which of several late answers is applied last
  (`services/auth_service.dart:45,73`): listed under the hazards; nothing in
  the repository says which should win.
* **Sign-up.** Accounts are made by the auth service; the insert into providers
  is SubmitApplication of Bookings.
* **Forum.** Threads and replies come from a realtime service whose ordering
  and delivery are not in the repository.
* **Savings, weather.** Pure functions over strings, prices and readings.
* **Profiles, notifications, traffic, jobs, housing, discover pages, locale,
  font size, start-up, generated texts, `booking_service.dart`** (called from
  nowhere): one request or one assignment each, no shared state.
* **Of the booking form:** what the client's list shows, `_loadRole`, and the
  end of every submission as a liveness property.

What would come next: leases of several engines in ThreadMerger; Frames composed
with Surfaces, so that which thread draws comes from the leases; an abstract
specification for the queues, as FrameLine is for the frames.
