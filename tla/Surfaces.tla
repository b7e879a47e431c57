----------------------------- MODULE Surfaces -----------------------------
(* The engine's output surface: Shell::OnPlatformViewCreated and             *)
(* OnPlatformViewDestroyed on the platform thread, which wait for the other  *)
(* threads, and Rasterizer::Setup, Teardown and Draw on whichever thread     *)
(* runs the raster tasks.  A frame that shows platform views merges the two  *)
(* threads (AndroidExternalViewEmbedder), under the feet of both.  Which     *)
(* frame a Draw finds in the pipeline is the matter of Frames; here each     *)
(* Draw has its own.                                                         *)
EXTENDS ThreadMerger, Sequences, FiniteSets

CONSTANTS MaxViews,   \* bound: how often the platform view is created
          MaxDraws    \* bound: how many frames are drawn

ASSUME SurfaceAssumption == MaxViews \in Nat /\ MaxDraws \in Nat

VARIABLES
  created,      \* how many platform views were created: the newest one's number
  destroyed,    \* OnPlatformViewDestroyed of the newest view has returned
  surface,      \* Rasterizer::surface_: of which view, 0 if none
  hasMerger,    \* raster_thread_merger_ exists
  shown,        \* composition_order_ is not empty
  shownBefore,  \* previous_frame_view_count_ > 0
  layers,       \* surface_pool_ has overlay layers
  rasterTasks,  \* the raster task queue
  ioTasks,      \* the IO task queue
  latch,        \* the latch the platform thread waits on was signalled
  at,           \* what each thread is doing
  drawn         \* how many frames were asked for

embedderVars == <<shown, shownBefore, layers>>
viewVars == <<created, destroyed, surface, hasMerger>>
waitVars == <<ioTasks, latch>>
surfaceVars == <<mergerVars, viewVars, embedderVars, rasterTasks, waitVars, at, drawn>>

Thread == {"platform", "raster"}

\* A frame shows platform views or does not, and may have a new size.
Draw == [job : {"draw"}, views : BOOLEAN, resized : BOOLEAN]
Setup == [job : {"setup"}, view : 1..MaxViews]
Teardown == [job |-> "teardown"]

\* A created view's task is told whether to post the raster task; each task
\* of the IO thread signals the latch.
IoCreated == [job : {"created"}, post : BOOLEAN]
IoDestroyed == [job |-> "destroyed"]

Create == [job : {"create"}, post : BOOLEAN]    \* should_post_raster_task
NoTask == [job |-> "none"]

\* again: the frame of the draw under way is to be drawn again.
Idle == [pc |-> "idle", task |-> NoTask, again |-> FALSE]

DrawPc == {"draw", "release", "preroll", "merge", "extend", "clean", "lease", "again"}
WaitPc == {"createWait", "destroyWait"}
CallPc == {"create", "setup", "destroy", "unmerge"} \cup WaitPc

SurfaceInit ==
  /\ MergerInit
  /\ created = 0 /\ destroyed = TRUE /\ surface = 0 /\ hasMerger = FALSE
  /\ shown = FALSE /\ shownBefore = FALSE /\ layers = FALSE
  /\ rasterTasks = <<>> /\ ioTasks = <<>> /\ latch = FALSE
  /\ at = [t \in Thread |-> Idle]
  /\ drawn = 0

-----------------------------------------------------------------------------
(* Steps of a thread                                                         *)

Doing(t, pc) == at[t].pc = pc
Goes(t, pc) == at' = [at EXCEPT ![t].pc = pc]
GoesAgain(t, pc, again) == at' = [at EXCEPT ![t].pc = pc, ![t].again = again]
Ends(t) == at' = [at EXCEPT ![t] = Idle]

\* Which thread's loop runs the raster tasks.
RasterLoop == IF same \/ merged THEN "platform" ELSE "raster"

\* Setup: the merger is made with the first surface, and is enabled.
SetUp(n) ==
  /\ SetEnabled(TRUE)
  /\ surface' = n /\ hasMerger' = TRUE
  /\ UNCHANGED <<created, destroyed>>

\* Teardown is over: on the platform thread OnPlatformViewDestroyed goes on.
AfterTeardown(t) ==
  /\ ioTasks' = Append(ioTasks, IoDestroyed)
  /\ IF t = "platform" THEN Goes(t, "destroyWait") ELSE Ends(t)

\* Teardown up to IsMerged: the surface is gone.
TearDown(t) ==
  /\ SetEnabled(TRUE)
  /\ surface' = 0
  /\ UNCHANGED <<created, destroyed, hasMerger>>
  /\ \/ IsMerged /\ Goes(t, "unmerge") /\ UNCHANGED ioTasks
     \/ ~IsMerged /\ AfterTeardown(t)

\* The rest of Teardown.
Unmerge(t) ==
  /\ Doing(t, "unmerge")
  /\ UnMergeNowIfLastOne
  /\ AfterTeardown(t)
  /\ UNCHANGED <<viewVars, embedderVars, rasterTasks, latch, drawn>>

-----------------------------------------------------------------------------
(* The platform thread                                                       *)

DisableThreadMergerIfNeeded ==
  IF hasMerger THEN SetEnabled(FALSE) ELSE UNCHANGED mergerVars

OnPlatformViewCreated ==
  /\ Doing("platform", "idle") /\ destroyed /\ created < MaxViews
  /\ created' = created + 1 /\ destroyed' = FALSE
  /\ DisableThreadMergerIfNeeded
  /\ Goes("platform", "create")
  /\ UNCHANGED <<surface, hasMerger, embedderVars, rasterTasks, waitVars, drawn>>

CreatedAsksIo ==
  /\ Doing("platform", "create")
  /\ ioTasks' = Append(ioTasks, [job |-> "created", post |-> RasterLoop = "raster"])
  /\ latch' = FALSE
  /\ at' = [at EXCEPT !["platform"].pc = "createWait",
                      !["platform"].task = [job |-> "create", post |-> RasterLoop = "raster"]]
  /\ UNCHANGED <<mergerVars, viewVars, embedderVars, rasterTasks, drawn>>

\* Back from the latch; the raster task that was not posted is run here.
CreatedReturns ==
  /\ Doing("platform", "createWait") /\ latch
  /\ IF at["platform"].task.post THEN Ends("platform") ELSE Goes("platform", "setup")
  /\ UNCHANGED <<mergerVars, viewVars, embedderVars, rasterTasks, waitVars, drawn>>

CreatedSetsUp ==
  /\ Doing("platform", "setup")
  /\ SetUp(created)
  /\ Ends("platform")
  /\ UNCHANGED <<embedderVars, rasterTasks, waitVars, drawn>>

OnPlatformViewDestroyed ==
  /\ Doing("platform", "idle") /\ ~destroyed
  /\ DisableThreadMergerIfNeeded
  /\ Goes("platform", "destroy")
  /\ UNCHANGED <<viewVars, embedderVars, rasterTasks, waitVars, drawn>>

\* Slip: the surface is torn down at once, before what is queued.
DestroyedTearsDownAtOnce ==
  /\ Doing("platform", "destroy")
  /\ latch' = FALSE
  /\ TearDown("platform")
  /\ UNCHANGED <<embedderVars, rasterTasks, drawn>>

\* The raster task runs here if this thread runs raster tasks, or is posted.
DestroyedTearsDown ==
  /\ Doing("platform", "destroy")
  /\ latch' = FALSE
  /\ UNCHANGED <<embedderVars, drawn>>
  /\ \/ /\ RasterLoop = "platform"
        /\ TearDown("platform")
        /\ UNCHANGED rasterTasks
     \/ /\ RasterLoop = "raster"
        /\ rasterTasks' = Append(rasterTasks, Teardown)
        /\ Goes("platform", "destroyWait")
        /\ UNCHANGED <<mergerVars, viewVars, ioTasks>>

\* Slip: the call returns without the latch.
DestroyedLatchNot == TRUE
DestroyedLatch == latch

DestroyedReturns ==
  /\ Doing("platform", "destroyWait") /\ DestroyedLatch
  /\ layers' = FALSE
  /\ destroyed' = TRUE
  /\ Ends("platform")
  /\ UNCHANGED <<mergerVars, created, surface, hasMerger, shown, shownBefore,
                 rasterTasks, waitVars, drawn>>

\* The overlay surfaces a raster thread waits to see destroyed.
ReleaseLayers ==
  /\ Doing("platform", "idle") /\ Doing("raster", "release")
  /\ layers' = FALSE
  /\ Goes("raster", "preroll")
  /\ UNCHANGED <<mergerVars, viewVars, shown, shownBefore, rasterTasks, waitVars, drawn>>

-----------------------------------------------------------------------------
(* The IO thread and the UI thread                                           *)

\* Slip: the latch is signalled only by a task that posted.
RunIoTaskForgets ==
  /\ ioTasks # <<>>
  /\ ioTasks' = Tail(ioTasks)
  /\ latch' = (Head(ioTasks).job = "created" => Head(ioTasks).post)
  /\ rasterTasks' = IF Head(ioTasks).job = "created" /\ Head(ioTasks).post
                    THEN Append(rasterTasks, [job |-> "setup", view |-> created])
                    ELSE rasterTasks
  /\ UNCHANGED <<mergerVars, viewVars, embedderVars, at, drawn>>

RunIoTask ==
  /\ ioTasks # <<>>
  /\ ioTasks' = Tail(ioTasks)
  /\ latch' = TRUE
  /\ rasterTasks' = IF Head(ioTasks).job = "created" /\ Head(ioTasks).post
                    THEN Append(rasterTasks, [job |-> "setup", view |-> created])
                    ELSE rasterTasks
  /\ UNCHANGED <<mergerVars, viewVars, embedderVars, at, drawn>>

OnAnimatorDraw ==
  /\ drawn < MaxDraws
  /\ drawn' = drawn + 1
  /\ \E d \in Draw : rasterTasks' = Append(rasterTasks, d)
  /\ UNCHANGED <<mergerVars, viewVars, embedderVars, waitVars, at>>

-----------------------------------------------------------------------------
(* The raster tasks                                                          *)

Takes(t, job) ==
  /\ t = RasterLoop /\ Doing(t, "idle")
  /\ rasterTasks # <<>> /\ Head(rasterTasks).job = job
  /\ rasterTasks' = Tail(rasterTasks)

RunSetup(t) ==
  /\ Takes(t, "setup")
  /\ SetUp(Head(rasterTasks).view)
  /\ UNCHANGED <<embedderVars, waitVars, at, drawn>>

RunTeardown(t) ==
  /\ Takes(t, "teardown")
  /\ TearDown(t)
  /\ UNCHANGED <<embedderVars, latch, drawn>>

RunDraw(t) ==
  /\ Takes(t, "draw")
  /\ at' = [at EXCEPT ![t] = [pc |-> "draw", task |-> Head(rasterTasks), again |-> FALSE]]
  /\ UNCHANGED <<mergerVars, viewVars, embedderVars, waitVars, drawn>>

\* Rasterizer::Draw yields on the wrong thread, and does nothing unless set up.
GivesUp(t) == (hasMerger /\ IsMerged # (t = "platform")) \/ surface = 0

\* PrepareFlutterView: the overlay surfaces of another size are destroyed, by
\* the platform thread.
Prepare(t) ==
  /\ Doing(t, "draw")
  /\ UNCHANGED <<mergerVars, viewVars, rasterTasks, waitVars, drawn>>
  /\ \/ GivesUp(t) /\ Ends(t) /\ UNCHANGED embedderVars
     \/ /\ ~GivesUp(t)
        /\ shownBefore' = shown /\ shown' = FALSE
        /\ \/ /\ at[t].task.resized /\ layers /\ t = "raster"
              /\ Goes(t, "release") /\ UNCHANGED layers
           \/ /\ ~(at[t].task.resized /\ layers /\ t = "raster")
              /\ layers' = (layers /\ ~at[t].task.resized)
              /\ Goes(t, "preroll")

\* PostPrerollAction: a frame without platform views is drawn at once.  One
\* with some is cancelled unless the threads are merged.
Preroll(t) ==
  /\ Doing(t, "preroll")
  /\ UNCHANGED <<mergerVars, viewVars, layers, rasterTasks, waitVars, drawn>>
  /\ \/ /\ ~at[t].task.views
        /\ Goes(t, "clean") /\ UNCHANGED <<shown, shownBefore>>
     \/ /\ at[t].task.views /\ ~IsMerged
        /\ shownBefore' = TRUE /\ shown' = FALSE
        /\ Goes(t, "merge")
     \/ /\ at[t].task.views /\ IsMerged
        /\ shown' = TRUE /\ UNCHANGED shownBefore
        /\ Goes(t, "extend")

Merge(t) ==
  /\ Doing(t, "merge")
  /\ MergeWithLease
  /\ GoesAgain(t, "clean", TRUE)
  /\ UNCHANGED <<viewVars, embedderVars, rasterTasks, waitVars, drawn>>

\* The frame is submitted, on overlay layers if it needs some.
Extend(t) ==
  /\ Doing(t, "extend")
  /\ ExtendLeaseTo
  /\ layers' \in {layers, TRUE}
  /\ GoesAgain(t, "clean", ~shownBefore)
  /\ UNCHANGED <<viewVars, shown, shownBefore, rasterTasks, waitVars, drawn>>

\* The rasterizer cleans up through its surface, its last use of it.
Clean(t) ==
  /\ Doing(t, "clean")
  /\ Goes(t, "lease")
  /\ UNCHANGED <<mergerVars, viewVars, embedderVars, rasterTasks, waitVars, drawn>>

\* Bound: the raster thread's few steps after it has merged the threads are
\* over before the platform thread has drawn a whole frame, let alone the
\* LeaseTerm frames after which they would end the lease under its feet.
TailIsShort(t) == t = "platform" => Doing("raster", "idle")

\* The Draw that the end of a lease posts finds no frame here.
Lease(t) ==
  /\ Doing(t, "lease") /\ TailIsShort(t)
  /\ \E unmergedNow \in BOOLEAN : DecrementLease(unmergedNow)
  /\ IF at[t].again THEN Goes(t, "again") ELSE Ends(t)
  /\ UNCHANGED <<viewVars, embedderVars, rasterTasks, waitVars, drawn>>

\* The frame is resubmitted, with the size it was prepared for.
Resubmit(t) ==
  /\ Doing(t, "again")
  /\ rasterTasks' = Append(rasterTasks, [at[t].task EXCEPT !.resized = FALSE])
  /\ Ends(t)
  /\ UNCHANGED <<mergerVars, viewVars, embedderVars, waitVars, drawn>>

DrawStep(t) == Prepare(t) \/ Preroll(t) \/ Merge(t) \/ Extend(t) \/ Clean(t)
                 \/ Lease(t) \/ Resubmit(t)

\* What a thread does once it was asked to.
ThreadStep(t) == RunSetup(t) \/ RunTeardown(t) \/ RunDraw(t) \/ DrawStep(t) \/ Unmerge(t)

CallStep == CreatedAsksIo \/ CreatedReturns \/ CreatedSetsUp
              \/ DestroyedTearsDown \/ DestroyedReturns

\* A failed FML_CHECK ends the process.
SurfaceNext ==
  /\ ~checkFailed
  /\ \/ OnPlatformViewCreated \/ OnPlatformViewDestroyed \/ OnAnimatorDraw
     \/ CallStep \/ ReleaseLayers \/ RunIoTask
     \/ \E t \in Thread : ThreadStep(t)

SurfaceSpec == SurfaceInit /\ [][SurfaceNext]_surfaceVars

\* The threads run what they have; who creates and draws is free.
SurfaceFairSpec ==
  /\ SurfaceSpec
  /\ \A t \in Thread : WF_surfaceVars(SurfaceNext /\ ThreadStep(t))
  /\ WF_surfaceVars(SurfaceNext /\ CallStep)
  /\ WF_surfaceVars(SurfaceNext /\ RunIoTask)
  /\ WF_surfaceVars(SurfaceNext /\ ReleaseLayers)

-----------------------------------------------------------------------------
(* Properties                                                                *)

\* The variables keep their types.
SurfaceTypeOK ==
  /\ same \in BOOLEAN /\ merged \in BOOLEAN /\ enabled \in BOOLEAN /\ checkFailed \in BOOLEAN
  /\ lease \in NoRecord..LeaseTerm
  /\ created \in 0..MaxViews /\ surface \in 0..MaxViews
  /\ destroyed \in BOOLEAN /\ hasMerger \in BOOLEAN /\ latch \in BOOLEAN
  /\ shown \in BOOLEAN /\ shownBefore \in BOOLEAN /\ layers \in BOOLEAN
  /\ rasterTasks \in Seq(Draw \cup Setup \cup {Teardown})
  /\ ioTasks \in Seq(IoCreated \cup {IoDestroyed})
  /\ at \in [Thread -> [pc : {"idle"} \cup DrawPc \cup CallPc,
                        task : Draw \cup Create \cup {NoTask}, again : BOOLEAN]]
  /\ drawn \in 0..MaxDraws

\* Once OnPlatformViewDestroyed has returned, the rasterizer has no surface
\* and nothing that is queued will give it one (shell.cc:1066-1072), however
\* the threads were merged since the view was created.
DestroyIsFinal ==
  destroyed =>
    /\ surface = 0
    /\ \A i \in 1..Len(rasterTasks) : rasterTasks[i].job = "draw"
    /\ ioTasks = <<>>

\* The merger's leases and the task queues agree, so that no FML_CHECK on a
\* merge or an unmerge can fail (shared_thread_merger.cc:29, 37-42), whichever
\* thread ends a lease, extends one or tears down.
LeaseMatchesQueues == ~checkFailed /\ (same \/ (merged <=> IsMerged))

\* Tearing down the rasterizer unmerges the threads (shell.cc:1091-1093): no
\* lease and no merged queue outlives the view it was for.
UnmergedWhenDestroyed == destroyed => ~merged /\ (same \/ ~IsMerged)

\* The latch is on the platform thread's stack: as long as a task of a call
\* is on its way to signal it, the call waits.
LatchOutlivesTasks ==
  (ioTasks # <<>> \/ \E i \in 1..Len(rasterTasks) : rasterTasks[i] = Teardown)
    => at["platform"].pc \in WaitPc /\ ~latch

\* A raster task of this kind is queued.
Queued(job) == \E i \in 1..Len(rasterTasks) : rasterTasks[i].job = job

\* Nothing is left of a view, and nothing that is queued brings it back.
TornDown == surface = 0 /\ ~merged /\ ~Queued("setup") /\ ~Queued("teardown")

\* Only the thread that runs the raster tasks is in the front part of a Draw;
\* the raster thread may still be in the last steps of the one that merged
\* the threads, and has then a term of the lease to give back
\* (rasterizer.cc:246-261).
DrawsAreApart ==
  LET front == {"draw", "release", "preroll", "merge", "extend"}
      raster == at["raster"].pc
      platform == at["platform"].pc IN
  /\ \A t \in Thread : /\ at[t].pc \in DrawPc => at[t].task \in Draw
                       /\ at[t].pc \in front \ {"draw"} => surface # 0
  /\ surface # 0 => hasMerger
  /\ raster \in {"idle"} \cup (DrawPc \ {"extend"})
  /\ raster \in front => ~merged
  /\ raster \in {"clean", "lease"} /\ merged => lease = LeaseTerm
  /\ same => raster = "idle" /\ ~merged
  /\ platform \notin {"release", "merge"}
  /\ platform \in front \cup {"clean", "lease"} => same \/ merged

\* A queued Setup is the only one and finds no surface and no merged queues;
\* behind a queued Teardown there are only Draws.
TasksAreInOrder ==
  \A i \in 1..Len(rasterTasks) :
    /\ rasterTasks[i].job = "setup" =>
         /\ surface = 0 /\ ~same /\ ~merged
         /\ \A j \in 1..Len(rasterTasks) \ {i} : rasterTasks[j].job # "setup"
    /\ rasterTasks[i].job = "teardown" =>
         \A j \in i+1..Len(rasterTasks) : rasterTasks[j].job = "draw"

\* What the platform thread can count on at each step of its two calls.
CallsAreInOrder ==
  LET pc == at["platform"].pc
      task == at["platform"].task IN
  /\ destroyed => TornDown
  /\ destroyed \/ created > 0
  /\ pc \in CallPc => ~destroyed
  /\ pc \notin WaitPc => ioTasks = <<>> /\ ~Queued("teardown")
  /\ pc \in {"create", "setup"} => TornDown
  /\ pc = "createWait" =>
       /\ task \in Create /\ (task.post => ~same)
       /\ ~latch => TornDown /\ ioTasks = <<[job |-> "created", post |-> task.post]>>
       /\ latch => ioTasks = <<>> /\ ~Queued("teardown") /\ (task.post \/ TornDown)
  /\ pc = "unmerge" =>
       /\ surface = 0 /\ ~Queued("setup")
       /\ (same \/ merged) /\ enabled /\ ~latch
  /\ pc = "destroyWait" =>
       \/ Queued("teardown") /\ ioTasks = <<>> /\ ~latch
       \/ TornDown /\ ioTasks = <<IoDestroyed>> /\ ~latch
       \/ TornDown /\ ioTasks = <<>> /\ latch

\* The inductive invariant (shell.cc:964-1098, rasterizer.cc:130-170, 215-275):
\* the properties above all follow from it.
SurfaceInv ==
  SurfaceTypeOK /\ LeaseMatchesQueues /\ DrawsAreApart /\ TasksAreInOrder /\ CallsAreInOrder

\* OnPlatformViewCreated returns: it waits for the IO thread alone, so it
\* cannot wait for itself (shell.cc:975-984), whatever is drawn and merged.
CreatedComesBack ==
  at["platform"].pc \in {"create", "createWait", "setup"}
    ~> at["platform"].pc = "idle"

\* shell.cc:1056-1063: the configuration does not change while the view is
\* being destroyed, which could lead to deadlock: the platform thread never
\* waits for a raster task it would have to run itself.
NeverWaitsForItself ==
  at["platform"].pc = "destroyWait" /\ merged =>
    \A i \in 1..Len(rasterTasks) : rasterTasks[i] # Teardown
=============================================================================
