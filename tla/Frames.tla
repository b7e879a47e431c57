------------------------------ MODULE Frames ------------------------------
(* A frame from its request to the screen: Animator and VsyncWaiter on the   *)
(* UI thread, the Pipeline of frames, and Rasterizer::Draw on the thread     *)
(* that runs the raster tasks.  The pipeline is two semaphores around a      *)
(* queue under a mutex, and nothing holds two of the three at once: a step   *)
(* here is one operation on one of them.                                     *)
(*                                                                           *)
(* Which thread draws changes when platform views merge the threads          *)
(* (Surfaces): here any of Drawer takes the next Draw, while the thread that *)
(* drew before may still be in the last steps of its own.                    *)
EXTENDS Integers, FiniteSets, Sequences

CONSTANTS Drawer,     \* the threads that run raster tasks, over time
          Depth,      \* the depth of the pipeline: 2, or 1 on a single thread
          MaxFrames   \* bound: how many frames are built

ASSUME FrameAssumption ==
  /\ IsFiniteSet(Drawer)
  /\ Depth \in Nat \ {0}
  /\ MaxFrames \in Nat

VARIABLES
  empty,        \* empty_: places left in the pipeline
  available,    \* available_: frames a consumer may take
  queue,        \* queue_
  continuation, \* producer_continuation_ holds a place
  pending,      \* pending_frame_semaphore_
  regenerate,   \* regenerate_layer_trees_
  trees,        \* layer_trees_tasks_ is not empty; then frame_timings_recorder_ is set
  callback,     \* VsyncWaiter::callback_ is set
  secondary,    \* VsyncWaiter::secondary_callbacks_ is not empty
  awaiting,     \* the platform was asked for the next vsync
  uiTasks,      \* the tasks of the animator in the UI task queue
  ui,           \* what the UI thread is doing
  posted,       \* how many Draws are in the raster task queue
  draw,         \* what each drawing thread is doing
  built,        \* how many frames were built: the newest one's number
  raced         \* history: a Draw missed a frame that was being pushed

pipelineVars == <<empty, available, queue>>
animatorVars == <<pending, regenerate, trees>>
waiterVars == <<callback, secondary, awaiting>>
drawVars == <<posted, draw, raced>>
frameVars == <<pipelineVars, continuation, animatorVars, waiterVars, uiTasks, ui,
               drawVars, built>>

\* Where the UI thread is: outside a frame, in the framework's part of one, or
\* committing one.  first: the frame was pushed to an empty queue.
UiPc == {"idle", "frame", "signal", "notify"}
UiState == [pc : UiPc, inFrame : BOOLEAN, first : BOOLEAN]

\* more: the Draw will post another one.  again: its frame is resubmitted.
DrawPc == {"idle", "take", "pop", "raster", "free", "again", "push", "signal", "post"}
NoFrame == 0
DrawState == [pc : DrawPc, frame : Nat, more : BOOLEAN, again : BOOLEAN]
NotDrawing == [pc |-> "idle", frame |-> NoFrame, more |-> FALSE, again |-> FALSE]

One(b) == IF b THEN 1 ELSE 0

FrameInit ==
  /\ empty = Depth /\ available = 0 /\ queue = <<>>
  /\ continuation = FALSE
  /\ pending = 1 /\ regenerate = FALSE /\ trees = FALSE
  /\ callback = FALSE /\ secondary = FALSE /\ awaiting = FALSE
  /\ uiTasks = <<>>
  /\ ui = [pc |-> "idle", inFrame |-> FALSE, first |-> FALSE]
  /\ posted = 0
  /\ draw = [t \in Drawer |-> NotDrawing]
  /\ built = 0
  /\ raced = FALSE

-----------------------------------------------------------------------------
(* Requesting a frame                                                        *)

\* Slip: the semaphore is not waited for.
AsksOnceNot == uiTasks' = Append(uiTasks, "await") /\ UNCHANGED pending

\* Several requests are one request to the VsyncWaiter.
AsksOnce ==
  IF pending = 0 THEN UNCHANGED <<pending, uiTasks>>
  ELSE pending' = pending - 1 /\ uiTasks' = Append(uiTasks, "await")

\* Called by the framework, within a frame or outside.
RequestFrame ==
  /\ ui.pc \in {"idle", "frame"}
  /\ built < MaxFrames
  /\ \E layers \in BOOLEAN : regenerate' = (regenerate \/ layers)
  /\ AsksOnce
  /\ UNCHANGED <<pipelineVars, continuation, trees, waiterVars, ui, drawVars, built>>

\* The vsync is asked for once, for both kinds of callbacks.
ScheduleSecondaryCallback ==
  /\ ui.pc \in {"idle", "frame"}
  /\ ~secondary /\ secondary' = TRUE
  /\ awaiting' = (awaiting \/ ~callback)
  /\ UNCHANGED <<pipelineVars, continuation, animatorVars, callback, uiTasks, ui, drawVars, built>>

Runs(task) == ui.pc = "idle" /\ uiTasks # <<>> /\ Head(uiTasks) = task

AwaitVSync ==
  /\ Runs("await")
  /\ uiTasks' = Tail(uiTasks)
  /\ callback' = TRUE
  /\ awaiting' = (awaiting \/ (~callback /\ ~secondary))
  /\ UNCHANGED <<pipelineVars, continuation, animatorVars, secondary, ui, drawVars, built>>

\* The callbacks that are left once the vsync has fired.
\* Slip 1: the primary one is copied, not moved.  Slip 2: the secondary ones are kept.
LeftCopied == callback' = callback /\ secondary' = FALSE
LeftSecondary == callback' = FALSE /\ secondary' = secondary
Left == callback' = FALSE /\ secondary' = FALSE

\* The platform's vsync.
FireCallback ==
  /\ awaiting /\ awaiting' = FALSE
  /\ uiTasks' = IF callback THEN Append(uiTasks, "vsync") ELSE uiTasks
  /\ Left
  /\ UNCHANGED <<pipelineVars, continuation, animatorVars, ui, drawVars, built>>

-----------------------------------------------------------------------------
(* Building a frame                                                          *)

\* The last layer trees are drawn again; the pipeline has no part in it.
DrawLastLayerTrees ==
  /\ Runs("vsync") /\ ~regenerate
  /\ uiTasks' = Tail(uiTasks)
  /\ pending' = pending + 1
  /\ UNCHANGED <<pipelineVars, continuation, regenerate, trees, waiterVars, ui,
                 drawVars, built>>

\* BeginFrame takes a place in the pipeline, unless it kept one, and calls
\* the framework.
BeginFrame ==
  /\ Runs("vsync") /\ regenerate
  /\ continuation \/ empty > 0
  /\ uiTasks' = Tail(uiTasks)
  /\ pending' = pending + 1
  /\ regenerate' = FALSE /\ trees' = FALSE
  /\ continuation' = TRUE
  /\ empty' = IF continuation THEN empty ELSE empty - 1
  /\ ui' = [pc |-> "frame", inFrame |-> TRUE, first |-> FALSE]
  /\ UNCHANGED <<available, queue, waiterVars, drawVars, built>>

\* The request BeginFrame makes again, after it took the last one for done.
\* Slip: it makes none.
RequestAgainNot == regenerate' = FALSE /\ pending' = pending + 1 /\ uiTasks' = Tail(uiTasks)
RequestAgain ==
  regenerate' = TRUE /\ pending' = pending /\ uiTasks' = Append(Tail(uiTasks), "await")

\* The pipeline is full: the frame is requested again and ends at once.
BeginFrameFull ==
  /\ Runs("vsync") /\ regenerate
  /\ ~continuation /\ empty = 0
  /\ trees' = FALSE
  /\ RequestAgain
  /\ UNCHANGED <<pipelineVars, continuation, waiterVars, ui, drawVars, built>>

\* The framework renders, in a frame, or outside of one to warm up.
Render ==
  /\ ui.pc \in {"idle", "frame"} /\ ~trees
  /\ built < MaxFrames
  /\ trees' = TRUE
  /\ UNCHANGED <<pipelineVars, continuation, pending, regenerate, waiterVars, uiTasks, ui,
                 drawVars, built>>

\* All views are rendered outside a frame, or twice in one, and no place was
\* kept in the pipeline: EndFrame drops the frame.
CommitFails ==
  /\ ui.pc \in {"idle", "frame"} /\ trees /\ ~continuation
  /\ trees' = FALSE
  /\ UNCHANGED <<pipelineVars, continuation, pending, regenerate, waiterVars, uiTasks, ui,
                 drawVars, built>>

\* ProducerCommit up to the unlock: the frame takes the place that was kept.
Commit ==
  /\ ui.pc \in {"idle", "frame"} /\ trees /\ continuation
  /\ queue' = Append(queue, built + 1)
  /\ built' = built + 1
  /\ continuation' = FALSE /\ trees' = FALSE
  /\ ui' = [ui EXCEPT !.pc = "signal", !.first = (queue = <<>>)]
  /\ UNCHANGED <<empty, available, pending, regenerate, waiterVars, uiTasks, drawVars>>

BackInFrame == ui' = [ui EXCEPT !.pc = IF ui.inFrame THEN "frame" ELSE "idle"]

\* Slip: only the first frame is signalled.
SignalledFirst == available + One(ui.first)
Signalled == available + 1

\* The rest of ProducerCommit.
CommitSignal ==
  /\ ui.pc = "signal"
  /\ available' = Signalled
  /\ IF ui.first THEN ui' = [ui EXCEPT !.pc = "notify"] ELSE BackInFrame
  /\ UNCHANGED <<empty, queue, continuation, pending, regenerate, trees, waiterVars, uiTasks,
                 drawVars, built>>

\* Shell::OnAnimatorDraw.
OnAnimatorDraw ==
  /\ ui.pc = "notify"
  /\ posted' = posted + 1
  /\ BackInFrame
  /\ UNCHANGED <<pipelineVars, continuation, animatorVars, waiterVars, uiTasks, draw, raced, built>>

\* The vsync task is over, its EndFrame had nothing to commit.
FrameEnds ==
  /\ ui.pc = "frame" /\ ~trees
  /\ ui' = [pc |-> "idle", inFrame |-> FALSE, first |-> FALSE]
  /\ UNCHANGED <<pipelineVars, continuation, pending, regenerate, trees, waiterVars, uiTasks,
                 drawVars, built>>

-----------------------------------------------------------------------------
(* Drawing a frame                                                           *)

Doing(t, pc) == draw[t].pc = pc
Goes(t, pc) == draw' = [draw EXCEPT ![t].pc = pc]

\* The last steps of a Draw, when another thread may draw already.
InTail(t) == draw[t].pc \in {"idle", "free", "again", "push", "signal", "post"}

TakeDraw(t) ==
  /\ posted > 0 /\ Doing(t, "idle")
  /\ \A u \in Drawer : InTail(u)
  /\ posted' = posted - 1
  /\ Goes(t, "take")
  /\ UNCHANGED <<pipelineVars, continuation, animatorVars, waiterVars, uiTasks, ui, raced, built>>

Pushing == ui.pc = "signal" \/ \E t \in Drawer : Doing(t, "signal")

\* Consume: there may be no frame, or none that was signalled.
TryWaitAvailable(t) ==
  /\ Doing(t, "take")
  /\ IF available > 0
     THEN available' = available - 1 /\ Goes(t, "pop") /\ UNCHANGED raced
     ELSE UNCHANGED available /\ Goes(t, "idle") /\ raced' = (raced \/ Pushing)
  /\ UNCHANGED <<empty, queue, continuation, animatorVars, waiterVars, uiTasks, ui, posted, built>>

Pop(t) ==
  /\ Doing(t, "pop")
  /\ queue' = Tail(queue)
  /\ draw' = [draw EXCEPT ![t] = [pc |-> "raster", frame |-> Head(queue),
                                  more |-> Tail(queue) # <<>>, again |-> FALSE]]
  /\ UNCHANGED <<empty, available, continuation, animatorVars, waiterVars, uiTasks, ui, posted,
                 raced, built>>

\* DoDraw: a frame with platform views may have to be drawn again; the end of
\* a lease asks for one more Draw, unless the frame is resubmitted.
Raster(t, again) ==
  /\ Doing(t, "raster")
  /\ \E unmergedNow \in BOOLEAN :
       draw' = [draw EXCEPT ![t].pc = "free", ![t].again = again,
                            ![t].more = @ \/ (unmergedNow /\ ~again)]
  /\ UNCHANGED <<pipelineVars, continuation, animatorVars, waiterVars, uiTasks, ui, posted,
                 raced, built>>

\* The end of Consume.
Free(t) ==
  /\ Doing(t, "free")
  /\ empty' = empty + 1
  /\ Goes(t, IF draw[t].again THEN "again" ELSE "post")
  /\ UNCHANGED <<available, queue, continuation, animatorVars, waiterVars, uiTasks, ui, posted,
                 raced, built>>

\* Slip: a frame without a place is pushed as well.
ProduceAnyway(t) ==
  /\ Doing(t, "again")
  /\ empty' = IF empty > 0 THEN empty - 1 ELSE empty
  /\ Goes(t, "push")
  /\ UNCHANGED <<available, queue, continuation, animatorVars, waiterVars, uiTasks, ui, posted,
                 raced, built>>

\* ProduceIfEmpty; without a place the frame is lost.
ProduceIfEmpty(t) ==
  /\ Doing(t, "again")
  /\ IF empty > 0 THEN empty' = empty - 1 /\ Goes(t, "push")
                  ELSE UNCHANGED empty /\ Goes(t, "post")
  /\ UNCHANGED <<available, queue, continuation, animatorVars, waiterVars, uiTasks, ui, posted,
                 raced, built>>

\* Slip: the place is kept.
BailKeepsPlace == empty
Bail == empty + 1

\* ProducerCommitIfEmpty up to the unlock: a newer frame makes this one lose.
PushIfEmpty(t) ==
  /\ Doing(t, "push")
  /\ \/ /\ queue # <<>>
        /\ empty' = Bail /\ Goes(t, "post") /\ UNCHANGED queue
     \/ /\ queue = <<>>
        /\ queue' = <<draw[t].frame>> /\ Goes(t, "signal") /\ UNCHANGED empty
  /\ UNCHANGED <<available, continuation, animatorVars, waiterVars, uiTasks, ui, posted,
                 raced, built>>

\* Slip: no other Draw is made for it.
PushedForgotten(t) == [draw EXCEPT ![t].pc = "post"]
Pushed(t) == [draw EXCEPT ![t].pc = "post", ![t].more = TRUE]

PushSignal(t) ==
  /\ Doing(t, "signal")
  /\ available' = available + 1
  /\ draw' = Pushed(t)
  /\ UNCHANGED <<empty, queue, continuation, animatorVars, waiterVars, uiTasks, ui, posted,
                 raced, built>>

\* Slip: a Draw is posted only for a frame that is resubmitted.
PostsMoreForgets(t) == draw[t].more /\ draw[t].again
PostsMore(t) == draw[t].more

PostDraw(t) ==
  /\ Doing(t, "post")
  /\ posted' = IF PostsMore(t) THEN posted + 1 ELSE posted
  /\ draw' = [draw EXCEPT ![t] = NotDrawing]
  /\ UNCHANGED <<pipelineVars, continuation, animatorVars, waiterVars, uiTasks, ui, raced, built>>

DrawStep(t) ==
  \/ TakeDraw(t) \/ TryWaitAvailable(t) \/ Pop(t) \/ Free(t)
  \/ \E again \in BOOLEAN : Raster(t, again)
  \/ ProduceIfEmpty(t) \/ PushIfEmpty(t) \/ PushSignal(t) \/ PostDraw(t)

\* What the UI thread does once a frame was requested or rendered.
UiStep == AwaitVSync \/ DrawLastLayerTrees \/ BeginFrame \/ BeginFrameFull
            \/ CommitSignal \/ OnAnimatorDraw \/ FrameEnds

Framework == RequestFrame \/ Render \/ Commit \/ CommitFails \/ ScheduleSecondaryCallback

FrameNext == Framework \/ UiStep \/ FireCallback \/ \E t \in Drawer : DrawStep(t)

FrameSpec == FrameInit /\ [][FrameNext]_frameVars

\* The platform's vsyncs come, frames end and Draws are run; what the
\* framework requests and renders is free, but all it renders it ends.  Draws
\* do not all resubmit their frame: one that does merges the threads, and with
\* merged threads none does.
FrameFairSpec ==
  /\ FrameSpec
  /\ WF_frameVars(UiStep) /\ SF_frameVars(FrameEnds) /\ WF_frameVars(FireCallback)
  /\ WF_frameVars(Commit \/ CommitFails)
  /\ WF_frameVars(\E t \in Drawer : TakeDraw(t))
  /\ \A t \in Drawer : WF_frameVars(~Doing(t, "idle") /\ DrawStep(t))
  /\ SF_frameVars(\E t \in Drawer : Raster(t, FALSE))

-----------------------------------------------------------------------------
(* Properties                                                                *)

\* The variables keep their types; no semaphore is signalled past its count.
FrameTypeOK ==
  /\ empty \in 0..Depth /\ available \in 0..Depth
  /\ queue \in Seq(1..MaxFrames) /\ built \in 0..MaxFrames
  /\ continuation \in BOOLEAN /\ regenerate \in BOOLEAN /\ raced \in BOOLEAN
  /\ trees \in BOOLEAN
  /\ callback \in BOOLEAN /\ secondary \in BOOLEAN /\ awaiting \in BOOLEAN
  /\ pending \in {0, 1}
  /\ uiTasks \in Seq({"await", "vsync"})
  /\ ui \in UiState
  /\ posted \in Nat
  /\ draw \in [Drawer -> DrawState]

At(pcs) == {t \in Drawer : draw[t].pc \in pcs}
FramesAt(pcs) == {draw[t].frame : t \in At(pcs)}

\* Every place of the pipeline is in one hand: free, kept by the animator, of
\* a frame in the queue, or of one being drawn or pushed again.
PlacesConserved ==
  empty + One(continuation) + Len(queue) + Cardinality(At({"raster", "free", "push"})) = Depth

\* Every frame in the queue was signalled, is about to be, or was taken by a
\* Draw about to pop it; so none pops from an empty queue.
FramesSignalled ==
  available + One(ui.pc = "signal") + Cardinality(At({"pop", "signal"})) = Len(queue)

\* Between a RequestFrame and its vsync there is exactly one request on its
\* way: none is lost, and none is made twice (animator.cc:250-254).
OneRequest == Len(uiTasks) + One(callback) = 1 - pending

\* A callback that is set, of either kind, has a vsync coming.
VsyncIsAsked == awaiting = (callback \/ secondary)

\* A frame in the queue has a Draw coming: posted, about to be, or under way
\* and due to post another (animator.cc:149-151).  raced: unless a Draw came
\* between the push of a frame and its signal.
DrawIsComing ==
  \/ posted > 0
  \/ ui.pc \in {"signal", "notify"} /\ ui.first
  \/ \E t \in Drawer :
       \/ draw[t].pc \in {"take", "pop", "signal"}
       \/ draw[t].pc # "idle" /\ draw[t].more

FramesAreAnnounced == queue # <<>> /\ ~raced => DrawIsComing
FramesAreConsumed == queue # <<>> => DrawIsComing

\* The semaphores and the queue, seen from outside, are one line of frames in
\* which each step is indivisible (pipeline.h:59-61, 164-178): no frame is in
\* two hands, none comes back once it is done, whoever draws.
Line == INSTANCE FrameLine WITH
          line    <- queue,
          drawing <- FramesAt({"raster", "free"}),
          kept    <- FramesAt({"again", "push"}),
          newest  <- built

ImplementsFrameLine == Line!LineSpec

\* A requested frame is begun, also when it found the pipeline full, unless
\* the pipeline stays full of a frame no Draw came for.
RequestsAreServed == regenerate /\ ui.pc # "frame" ~> ui.pc = "frame" \/ raced

\* A queue of frames is drawn to its end.
QueueIsDrawn == queue # <<>> ~> queue = <<>> \/ raced
=============================================================================
