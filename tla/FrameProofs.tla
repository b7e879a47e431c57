---------------------------- MODULE FrameProofs ----------------------------
(* Proofs about Frames, for any number of drawing threads, any depth of the  *)
(* pipeline and any number of frames.                                        *)
EXTENDS Frames, FiniteSetTheorems, TLAPS

\* The types, without the upper bounds that follow from the counting below.
FrameBase ==
  /\ empty \in Nat /\ available \in Nat /\ pending \in Nat
  /\ queue \in Seq(1..MaxFrames) /\ built \in 0..MaxFrames
  /\ continuation \in BOOLEAN /\ regenerate \in BOOLEAN /\ raced \in BOOLEAN
  /\ trees \in BOOLEAN
  /\ callback \in BOOLEAN /\ secondary \in BOOLEAN /\ awaiting \in BOOLEAN
  /\ uiTasks \in Seq({"await", "vsync"})
  /\ ui \in UiState
  /\ posted \in Nat
  /\ draw \in [Drawer -> DrawState]

\* A drawn frame is one that was built, and what is rendered can be built.
HasFrame == {"raster", "free", "again", "push"}
DrawnFrames == \A t \in Drawer : draw[t].pc \in HasFrame => draw[t].frame \in 1..MaxFrames
FrameNumbers == DrawnFrames /\ (trees => built < MaxFrames)

FrameInv ==
  /\ FrameBase /\ FrameNumbers
  /\ PlacesConserved /\ FramesSignalled
  /\ OneRequest /\ VsyncIsAsked /\ FramesAreAnnounced

-----------------------------------------------------------------------------
(* Counting the drawing threads                                              *)

LEMMA CountFinite ==
  ASSUME NEW A, A \subseteq Drawer
  PROVE  IsFiniteSet(A) /\ Cardinality(A) \in Nat
BY FrameAssumption, FS_Subset, FS_CardinalityType

LEMMA CountAdd ==
  ASSUME NEW A, A \subseteq Drawer, NEW t \in Drawer, t \notin A
  PROVE  Cardinality(A \cup {t}) = Cardinality(A) + 1
BY CountFinite, FS_AddElement

\* Two sets of threads that differ at most in one.
LEMMA CountMoved ==
  ASSUME NEW A, NEW B, A \subseteq Drawer, B \subseteq Drawer, NEW t \in Drawer,
         \A u \in Drawer \ {t} : u \in A <=> u \in B
  PROVE  /\ Cardinality(A) \in Nat /\ Cardinality(B) \in Nat
         /\ t \in A /\ t \in B => Cardinality(B) = Cardinality(A)
         /\ t \notin A /\ t \notin B => Cardinality(B) = Cardinality(A)
         /\ t \in A /\ t \notin B => Cardinality(B) = Cardinality(A) - 1
         /\ t \notin A /\ t \in B => Cardinality(B) = Cardinality(A) + 1
<1>1. Cardinality(A) \in Nat /\ Cardinality(B) \in Nat
  BY CountFinite
<1>2. (t \in A <=> t \in B) => A = B
  OBVIOUS
<1>3. CASE t \in A /\ t \notin B
  <2>1. A = B \cup {t}
    BY <1>3
  <2>2. Cardinality(A) = Cardinality(B) + 1
    BY <1>3, <2>1, CountAdd
  <2>. QED BY <1>1, <1>3, <2>2
<1>4. CASE t \notin A /\ t \in B
  <2>1. B = A \cup {t}
    BY <1>4
  <2>2. Cardinality(B) = Cardinality(A) + 1
    BY <1>4, <2>1, CountAdd
  <2>. QED BY <1>1, <1>4, <2>2
<1>. QED BY <1>1, <1>2, <1>3, <1>4

LEMMA AtMoved ==
  ASSUME NEW t \in Drawer, NEW CONSTANT S, \A u \in Drawer \ {t} : draw'[u] = draw[u]
  PROVE  /\ Cardinality(At(S)) \in Nat /\ Cardinality(At(S)') \in Nat
         /\ draw[t].pc \in S /\ draw'[t].pc \in S
              => Cardinality(At(S)') = Cardinality(At(S))
         /\ draw[t].pc \notin S /\ draw'[t].pc \notin S
              => Cardinality(At(S)') = Cardinality(At(S))
         /\ draw[t].pc \in S /\ draw'[t].pc \notin S
              => Cardinality(At(S)') = Cardinality(At(S)) - 1
         /\ draw[t].pc \notin S /\ draw'[t].pc \in S
              => Cardinality(At(S)') = Cardinality(At(S)) + 1
<1>1. /\ At(S) \subseteq Drawer /\ At(S)' \subseteq Drawer
      /\ \A u \in Drawer \ {t} : u \in At(S) <=> u \in At(S)'
      /\ t \in At(S) <=> draw[t].pc \in S
      /\ t \in At(S)' <=> draw'[t].pc \in S
  BY DEF At
<1>. HIDE DEF At
<1>. QED BY <1>1, CountMoved

LEMMA AtSame ==
  ASSUME UNCHANGED draw, NEW CONSTANT S
  PROVE  Cardinality(At(S)') = Cardinality(At(S)) /\ Cardinality(At(S)) \in Nat
<1>1. At(S)' = At(S) /\ At(S) \subseteq Drawer
  BY DEF At
<1>. QED BY <1>1, CountFinite

-----------------------------------------------------------------------------
(* Types                                                                     *)

\* The types of the UI thread and of a drawing thread after any step.
LEMMA StateTypes ==
  /\ \A s \in UiState, pc \in UiPc : [s EXCEPT !.pc = pc] \in UiState
  /\ \A d \in DrawState, pc \in DrawPc : [d EXCEPT !.pc = pc] \in DrawState
  /\ NotDrawing \in DrawState
BY DEF UiState, DrawState, NotDrawing, NoFrame, DrawPc

LEMMA SeqTypes ==
  ASSUME NEW S, NEW s \in Seq(S), NEW x \in S
  PROVE  /\ Append(s, x) \in Seq(S) /\ Len(Append(s, x)) = Len(s) + 1 /\ Len(s) \in Nat
         /\ <<x>> \in Seq(S) /\ Len(<<x>>) = 1
         /\ Append(s, x) # <<>>
OBVIOUS

LEMMA TailTypes ==
  ASSUME NEW S, NEW s \in Seq(S), s # <<>>
  PROVE  /\ Head(s) \in S /\ Tail(s) \in Seq(S) /\ Len(Tail(s)) = Len(s) - 1
         /\ Len(s) \in Nat \ {0}
OBVIOUS

\* A drawing thread goes on to another step of its Draw.
LEMMA GoesTypes ==
  ASSUME draw \in [Drawer -> DrawState], NEW t \in Drawer, NEW pc \in DrawPc, Goes(t, pc)
  PROVE  /\ draw' \in [Drawer -> DrawState]
         /\ \A u \in Drawer \ {t} : draw'[u] = draw[u]
         /\ draw'[t].pc = pc /\ draw'[t].frame = draw[t].frame
         /\ draw'[t].more = draw[t].more
<1>1. draw[t] \in DrawState
  OBVIOUS
<1>2. [draw[t] EXCEPT !.pc = pc] \in DrawState
  BY <1>1, StateTypes
<1>3. draw' = [draw EXCEPT ![t] = [draw[t] EXCEPT !.pc = pc]]
  BY DEF Goes
<1>4. draw'[t] = [draw[t] EXCEPT !.pc = pc] /\ \A u \in Drawer \ {t} : draw'[u] = draw[u]
  BY <1>3
<1>5. /\ [draw[t] EXCEPT !.pc = pc].pc = pc
      /\ [draw[t] EXCEPT !.pc = pc].frame = draw[t].frame
      /\ [draw[t] EXCEPT !.pc = pc].more = draw[t].more
  BY <1>1 DEF DrawState
<1>. QED BY <1>2, <1>3, <1>4, <1>5

LEMMA GoesOn ==
  ASSUME draw \in [Drawer -> DrawState], DrawnFrames, NEW t \in Drawer, NEW pc \in DrawPc,
         Goes(t, pc), pc \in HasFrame => draw[t].pc \in HasFrame
  PROVE  draw' \in [Drawer -> DrawState] /\ DrawnFrames'
<1>1. /\ draw' \in [Drawer -> DrawState]
      /\ \A u \in Drawer \ {t} : draw'[u] = draw[u]
      /\ draw'[t].pc = pc /\ draw'[t].frame = draw[t].frame
  BY GoesTypes
<1>2. ASSUME NEW u \in Drawer, draw'[u].pc \in HasFrame
      PROVE  draw'[u].frame \in 1..MaxFrames
  BY <1>1, <1>2 DEF DrawnFrames
<1>. QED BY <1>1, <1>2 DEF DrawnFrames

LEMMA PoppedExists ==
  ASSUME FrameBase, FramesSignalled, NEW t \in Drawer, draw[t].pc = "pop"
  PROVE  queue # <<>>
<1>1. t \in At({"pop", "signal"}) /\ At({"pop", "signal"}) \subseteq Drawer
  BY DEF At
<1>2. Cardinality(At({"pop", "signal"})) \in Nat /\ Cardinality(At({"pop", "signal"})) # 0
  BY <1>1, CountFinite, FS_EmptySet
<1>3. Len(queue) > 0
  BY <1>2 DEF FramesSignalled, FrameBase, One
<1>. QED BY <1>3

LEMMA BaseStep ==
  ASSUME FrameBase, FrameNumbers, FramesSignalled, [FrameNext]_frameVars
  PROVE  FrameBase' /\ FrameNumbers'
<1>. USE DEF FrameBase, FrameNumbers, UiState, UiPc, DrawnFrames, pipelineVars, animatorVars, waiterVars, drawVars
<1>1. CASE RequestFrame
  <2>1. regenerate' \in BOOLEAN
    BY <1>1, Zenon DEF RequestFrame
  <2>2. pending' \in Nat /\ uiTasks' \in Seq({"await", "vsync"})
    <3>1. CASE pending = 0
      BY <1>1, <3>1 DEF RequestFrame, AsksOnce
    <3>2. CASE pending # 0
      <4>1. pending' = pending - 1 /\ uiTasks' = Append(uiTasks, "await")
        BY <1>1, <3>2 DEF RequestFrame, AsksOnce
      <4>. QED BY <3>2, <4>1
    <3>. QED BY <3>1, <3>2
  <2>. QED BY <1>1, <2>1, <2>2 DEF RequestFrame
<1>2. CASE ScheduleSecondaryCallback
  BY <1>2, FrameAssumption DEF ScheduleSecondaryCallback
<1>3. CASE AwaitVSync
  BY <1>3, FrameAssumption DEF AwaitVSync, Runs
<1>4. CASE FireCallback
  <2>1. uiTasks' \in Seq({"await", "vsync"})
    BY <1>4, SeqTypes, TailTypes DEF FireCallback
  <2>. QED BY <1>4, <2>1 DEF FireCallback, Left
<1>5. CASE DrawLastLayerTrees
  BY <1>5, FrameAssumption DEF DrawLastLayerTrees, Runs
<1>6. CASE BeginFrame
  <2>1. uiTasks' \in Seq({"await", "vsync"})
    BY <1>6, SeqTypes, TailTypes DEF BeginFrame, Runs
  <2>2. ui' \in UiState
    BY <1>6 DEF BeginFrame
  <2>3. empty' \in Nat /\ pending' \in Nat
    BY <1>6 DEF BeginFrame
  <2>. QED BY <1>6, <2>1, <2>2, <2>3 DEF BeginFrame
<1>7. CASE BeginFrameFull
  <2>1. uiTasks' \in Seq({"await", "vsync"})
    BY <1>7, SeqTypes, TailTypes DEF BeginFrameFull, Runs, RequestAgain
  <2>. QED BY <1>7, <2>1 DEF BeginFrameFull, RequestAgain
<1>8. CASE Render
  BY <1>8, FrameAssumption DEF Render
<1>9. CASE CommitFails
  BY <1>9, FrameAssumption DEF CommitFails
<1>10. CASE Commit
  <2>1. built' \in 1..MaxFrames
    BY <1>10, FrameAssumption DEF Commit
  <2>2. queue' \in Seq(1..MaxFrames)
    <3>1. queue' = Append(queue, built') /\ queue \in Seq(1..MaxFrames)
      BY <1>10 DEF Commit
    <3>. QED BY <2>1, <3>1, SeqTypes
  <2>3. ui' \in UiState
    BY <1>10 DEF Commit
  <2>4. built' \in 0..MaxFrames
    BY <2>1, FrameAssumption
  <2>5. /\ trees' = FALSE /\ continuation' = FALSE
        /\ UNCHANGED <<empty, available, pending, regenerate, callback, secondary, awaiting,
                       uiTasks, posted, draw, raced>>
    BY <1>10 DEF Commit
  <2>. QED BY <2>2, <2>3, <2>4, <2>5
<1>11. CASE CommitSignal
  <2>1. ui' \in UiState
    BY <1>11 DEF CommitSignal, BackInFrame
  <2>. QED BY <1>11, <2>1 DEF CommitSignal, Signalled
<1>12. CASE OnAnimatorDraw
  BY <1>12, FrameAssumption DEF OnAnimatorDraw, BackInFrame
<1>13. CASE FrameEnds
  BY <1>13, FrameAssumption DEF FrameEnds
<1>14. ASSUME NEW t \in Drawer, DrawStep(t)
     PROVE  FrameBase' /\ FrameNumbers'
  <2>. SUFFICES /\ draw' \in [Drawer -> DrawState] /\ DrawnFrames'
                /\ empty' \in Nat /\ available' \in Nat /\ posted' \in Nat
                /\ queue' \in Seq(1..MaxFrames) /\ raced' \in BOOLEAN
                /\ UNCHANGED <<continuation, animatorVars, waiterVars, uiTasks, ui, built>>
    OBVIOUS
  <2>. USE DEF DrawPc, HasFrame, Doing
  <2>. HIDE DEF DrawnFrames
  <2>1. CASE TakeDraw(t)
    <3>1. draw' \in [Drawer -> DrawState] /\ DrawnFrames'
      BY <2>1, GoesOn DEF TakeDraw
    <3>. QED BY <2>1, <3>1 DEF TakeDraw
  <2>2. CASE TryWaitAvailable(t)
    <3>1. draw' \in [Drawer -> DrawState] /\ DrawnFrames'
      BY <2>2, GoesOn DEF TryWaitAvailable
    <3>2. raced' \in BOOLEAN
      BY <2>2, Zenon DEF TryWaitAvailable
    <3>3. available' \in Nat
      BY <2>2 DEF TryWaitAvailable
    <3>. QED BY <2>2, <3>1, <3>2, <3>3 DEF TryWaitAvailable
  <2>3. CASE Pop(t)
    <3>1. queue # <<>> /\ Head(queue) \in 1..MaxFrames /\ Tail(queue) \in Seq(1..MaxFrames)
      <4>1. queue # <<>> /\ queue \in Seq(1..MaxFrames)
        BY <2>3, PoppedExists DEF Pop
      <4>. QED BY <4>1, TailTypes
    <3> DEFINE d == [pc |-> "raster", frame |-> Head(queue),
                     more |-> Tail(queue) # <<>>, again |-> FALSE]
    <3>2. d \in DrawState /\ d.frame \in 1..MaxFrames
      BY <3>1 DEF DrawState
    <3>3. draw' = [draw EXCEPT ![t] = d]
      BY <2>3 DEF Pop
    <3>. HIDE DEF d
    <3>4. draw' \in [Drawer -> DrawState] /\ DrawnFrames'
      BY <3>2, <3>3 DEF DrawnFrames
    <3>. QED BY <2>3, <3>1, <3>4 DEF Pop
  <2>4. CASE \E again \in BOOLEAN : Raster(t, again)
    <3>. PICK again \in BOOLEAN : Raster(t, again)
      BY <2>4
    <3>1. PICK unmergedNow \in BOOLEAN :
            draw' = [draw EXCEPT ![t] = [draw[t] EXCEPT !.pc = "free", !.again = again,
                                           !.more = @ \/ (unmergedNow /\ ~again)]]
      BY DEF Raster
    <3>2. draw[t] \in DrawState
      OBVIOUS
    <3> DEFINE d == [draw[t] EXCEPT !.pc = "free", !.again = again,
                                    !.more = @ \/ (unmergedNow /\ ~again)]
    <3>3. d \in DrawState /\ d.frame = draw[t].frame
      BY <3>2, Zenon DEF DrawState
    <3>4. draw' = [draw EXCEPT ![t] = d]
      BY <3>1
    <3>. HIDE DEF d
    <3>5. draw' \in [Drawer -> DrawState] /\ DrawnFrames'
      BY <3>3, <3>4 DEF Raster, DrawnFrames
    <3>. QED BY <3>5 DEF Raster
  <2>5. CASE Free(t)
    <3>1. draw' \in [Drawer -> DrawState] /\ DrawnFrames'
      BY <2>5, GoesOn DEF Free
    <3>. QED BY <2>5, <3>1 DEF Free
  <2>6. CASE ProduceIfEmpty(t)
    <3>1. draw' \in [Drawer -> DrawState] /\ DrawnFrames'
      BY <2>6, GoesOn DEF ProduceIfEmpty
    <3>. QED BY <2>6, <3>1 DEF ProduceIfEmpty
  <2>7. CASE PushIfEmpty(t)
    <3>1. draw' \in [Drawer -> DrawState] /\ DrawnFrames'
      BY <2>7, GoesOn DEF PushIfEmpty
    <3>2. draw[t].frame \in 1..MaxFrames
      BY <2>7 DEF PushIfEmpty, DrawnFrames
    <3>3. queue' \in Seq(1..MaxFrames)
      <4>1. <<draw[t].frame>> \in Seq(1..MaxFrames)
        BY <3>2
      <4>. QED BY <2>7, <4>1 DEF PushIfEmpty
    <3>4. empty' \in Nat
      BY <2>7 DEF PushIfEmpty, Bail
    <3>. QED BY <2>7, <3>1, <3>3, <3>4 DEF PushIfEmpty
  <2>8. CASE PushSignal(t)
    <3>1. draw[t] \in DrawState
      OBVIOUS
    <3> DEFINE d == [draw[t] EXCEPT !.pc = "post", !.more = TRUE]
    <3>2. d \in DrawState /\ d.pc = "post"
      BY <3>1 DEF DrawState
    <3>3. draw' = [draw EXCEPT ![t] = d]
      BY <2>8 DEF PushSignal, Pushed
    <3>. HIDE DEF d
    <3>4. draw' \in [Drawer -> DrawState] /\ DrawnFrames'
      BY <3>2, <3>3 DEF DrawnFrames
    <3>. QED BY <2>8, <3>4 DEF PushSignal
  <2>9. CASE PostDraw(t)
    <3>1. NotDrawing \in DrawState /\ NotDrawing.pc = "idle"
      BY StateTypes DEF NotDrawing
    <3>2. draw' = [draw EXCEPT ![t] = NotDrawing]
      BY <2>9 DEF PostDraw
    <3>3. draw' \in [Drawer -> DrawState] /\ DrawnFrames'
      BY <3>1, <3>2 DEF DrawnFrames
    <3>. QED BY <2>9, <3>3 DEF PostDraw
  <2>. QED BY <1>14, <2>1, <2>2, <2>3, <2>4, <2>5, <2>6, <2>7, <2>8, <2>9 DEF DrawStep
<1>15. CASE UNCHANGED frameVars
  BY <1>15 DEF frameVars
<1>. QED BY <1>1, <1>2, <1>3, <1>4, <1>5, <1>6, <1>7, <1>8, <1>9, <1>10, <1>11, <1>12, <1>13, <1>14, <1>15 DEF FrameNext, Framework, UiStep

-----------------------------------------------------------------------------
(* The semaphores                                                            *)

\* A step moves one drawing thread at most.
LEMMA OneMoves ==
  ASSUME NEW t \in Drawer, DrawStep(t), draw \in [Drawer -> DrawState]
  PROVE  \A u \in Drawer \ {t} : draw'[u] = draw[u]
BY DEF DrawStep, TakeDraw, TryWaitAvailable, Pop, Raster, Free, ProduceIfEmpty, PushIfEmpty,
       PushSignal, PostDraw, Goes, Pushed

\* From which step of its Draw to which a thread moves.
LEMMA DrawMoves ==
  ASSUME NEW t \in Drawer, draw \in [Drawer -> DrawState]
  PROVE  /\ \A pc : Goes(t, pc) => draw'[t].pc = pc
         /\ Pop(t) => draw'[t].pc = "raster"
         /\ \A again : Raster(t, again) => draw'[t].pc = "free"
         /\ PushSignal(t) => draw'[t].pc = "post"
         /\ PostDraw(t) => draw'[t].pc = "idle"
<1>1. draw[t] \in DrawState
  OBVIOUS
<1>2. \A pc : Goes(t, pc) => draw'[t].pc = pc
  BY <1>1 DEF Goes, DrawState
<1>3. Pop(t) => draw'[t].pc = "raster"
  BY DEF Pop
<1>4. \A again : Raster(t, again) => draw'[t].pc = "free"
  BY <1>1 DEF Raster, DrawState
<1>5. PushSignal(t) => draw'[t].pc = "post"
  BY <1>1 DEF PushSignal, Pushed, DrawState
<1>6. PostDraw(t) => draw'[t].pc = "idle"
  BY DEF PostDraw, NotDrawing
<1>. QED BY <1>2, <1>3, <1>4, <1>5, <1>6

UiMoves == Framework \/ UiStep \/ FireCallback \/ UNCHANGED frameVars

LEMMA UiLeavesDraws ==
  ASSUME UiMoves
  PROVE  UNCHANGED draw
BY DEF UiMoves, Framework, UiStep, FireCallback, RequestFrame, ScheduleSecondaryCallback,
       AwaitVSync, DrawLastLayerTrees, BeginFrame, BeginFrameFull, Render, CommitFails, Commit,
       CommitSignal, OnAnimatorDraw, FrameEnds, frameVars, drawVars

LEMMA EitherMoves ==
  ASSUME [FrameNext]_frameVars
  PROVE  UiMoves \/ \E t \in Drawer : DrawStep(t)
BY DEF FrameNext, UiMoves

LEMMA CountSwap ==
  ASSUME NEW a \in Nat, NEW b \in Nat, NEW c \in Nat, NEW d \in Nat
  PROVE  a + b + c + d = b + (a + c + d)
OBVIOUS

LEMMA PlacesStep ==
  ASSUME FrameBase, FrameBase', PlacesConserved, FramesSignalled, [FrameNext]_frameVars
  PROVE  PlacesConserved'
<1>. USE FrameAssumption DEF PlacesConserved, FrameBase, One, pipelineVars, animatorVars, waiterVars, drawVars
<1>1. CASE UiMoves
  <2>1. /\ Cardinality(At({"raster", "free", "push"})') = Cardinality(At({"raster", "free", "push"}))
        /\ Cardinality(At({"raster", "free", "push"})) \in Nat
    BY <1>1, UiLeavesDraws, AtSame
  <2>2. CASE RequestFrame
    BY <2>1, <2>2 DEF RequestFrame
  <2>3. CASE ScheduleSecondaryCallback
    BY <2>1, <2>3 DEF ScheduleSecondaryCallback
  <2>4. CASE AwaitVSync
    BY <2>1, <2>4 DEF AwaitVSync
  <2>5. CASE FireCallback
    BY <2>1, <2>5 DEF FireCallback
  <2>6. CASE DrawLastLayerTrees
    BY <2>1, <2>6 DEF DrawLastLayerTrees
  <2>7. CASE BeginFrame
    BY <2>1, <2>7 DEF BeginFrame, Runs
  <2>8. CASE BeginFrameFull
    BY <2>1, <2>8 DEF BeginFrameFull
  <2>9. CASE Render
    BY <2>1, <2>9 DEF Render
  <2>10. CASE CommitFails
    BY <2>1, <2>10 DEF CommitFails
  <2>11. CASE Commit
    <3>1. Len(queue') = Len(queue) + 1 /\ Len(queue) \in Nat
      BY <2>11, SeqTypes DEF Commit
    <3>2. continuation /\ ~continuation' /\ empty' = empty
      BY <2>11 DEF Commit
    <3>. QED BY <2>1, <3>1, <3>2
  <2>12. CASE CommitSignal
    BY <2>1, <2>12 DEF CommitSignal, Signalled
  <2>13. CASE OnAnimatorDraw
    BY <2>1, <2>13 DEF OnAnimatorDraw
  <2>14. CASE FrameEnds
    BY <2>1, <2>14 DEF FrameEnds
  <2>15. CASE UNCHANGED frameVars
    BY <2>1, <2>15 DEF frameVars
  <2>. QED BY <1>1, <2>2, <2>3, <2>4, <2>5, <2>6, <2>7, <2>8, <2>9, <2>10, <2>11, <2>12, <2>13, <2>14, <2>15 DEF UiMoves, Framework, UiStep
<1>2. ASSUME NEW t \in Drawer, DrawStep(t)
      PROVE  PlacesConserved'
  <2> DEFINE pc == draw[t].pc
             nextPc == draw'[t].pc
             n == Cardinality(At({"raster", "free", "push"}))
             m == Cardinality(At({"raster", "free", "push"})')
  <2>1. /\ n \in Nat /\ m \in Nat
        /\ pc \in {"raster", "free", "push"} /\ nextPc \in {"raster", "free", "push"} => m = n
        /\ pc \notin {"raster", "free", "push"} /\ nextPc \notin {"raster", "free", "push"} => m = n
        /\ pc \in {"raster", "free", "push"} /\ nextPc \notin {"raster", "free", "push"} => m = n - 1
        /\ pc \notin {"raster", "free", "push"} /\ nextPc \in {"raster", "free", "push"} => m = n + 1
    BY <1>2, OneMoves, AtMoved
  <2>. USE DEF Doing
  <2>11. ASSUME empty' + Len(queue') + m = empty + Len(queue) + n, UNCHANGED continuation
         PROVE  PlacesConserved'
    <3>1. Depth = empty + One(continuation) + Len(queue) + n
      OBVIOUS
    <3>2. One(continuation) \in Nat /\ One(continuation') = One(continuation)
      BY <2>11
    <3>3. /\ Len(queue) \in Nat /\ Len(queue') \in Nat /\ empty \in Nat /\ empty' \in Nat
          /\ n \in Nat /\ m \in Nat
      BY <2>1
    <3>. HIDE DEF FrameBase, One, n, m
    <3>4. empty' + One(continuation) + Len(queue') + m
            = One(continuation) + (empty' + Len(queue') + m)
      BY <3>2, <3>3, CountSwap
    <3>5. empty + One(continuation) + Len(queue) + n
            = One(continuation) + (empty + Len(queue) + n)
      BY <3>2, <3>3, CountSwap
    <3>. QED BY <2>11, <3>1, <3>2, <3>4, <3>5 DEF n, m
  <2>2. CASE TakeDraw(t)
    BY <2>1, <2>2, DrawMoves DEF TakeDraw
  <2>3. CASE TryWaitAvailable(t)
    BY <2>1, <2>3, DrawMoves DEF TryWaitAvailable
  <2>4. CASE Pop(t)
    <3>1. Len(queue') = Len(queue) - 1 /\ Len(queue) \in Nat
      BY <2>4, PoppedExists, TailTypes DEF Pop
    <3>2. pc = "pop" /\ nextPc = "raster" /\ empty' = empty /\ continuation' = continuation
      BY <2>4, DrawMoves DEF Pop
    <3>3. m = n + 1
      BY <2>1, <3>2
    <3>. QED BY <2>1, <2>11, <3>1, <3>2, <3>3
  <2>5. CASE \E again \in BOOLEAN : Raster(t, again)
    <3>1. pc = "raster" /\ nextPc = "free"
      BY <2>5, DrawMoves DEF Raster
    <3>2. m = n
      BY <2>1, <3>1
    <3>. QED BY <2>1, <2>5, <3>2 DEF Raster
  <2>6. CASE Free(t)
    <3>1. pc = "free" /\ nextPc \in {"again", "post"}
      BY <2>6, DrawMoves DEF Free
    <3>2. m = n - 1
      BY <2>1, <3>1
    <3>. QED BY <2>1, <2>6, <2>11, <3>2 DEF Free
  <2>7. CASE ProduceIfEmpty(t)
    <3>1. pc = "again"
      BY <2>7 DEF ProduceIfEmpty
    <3>2. CASE empty > 0
      <4>1. nextPc = "push" /\ empty' = empty - 1
        BY <2>7, <3>2, DrawMoves DEF ProduceIfEmpty
      <4>2. m = n + 1
        BY <2>1, <3>1, <4>1
      <4>. QED BY <2>1, <2>7, <2>11, <4>1, <4>2 DEF ProduceIfEmpty
    <3>3. CASE ~(empty > 0)
      <4>1. nextPc = "post" /\ empty' = empty
        BY <2>7, <3>3, DrawMoves DEF ProduceIfEmpty
      <4>2. m = n
        BY <2>1, <3>1, <4>1
      <4>. QED BY <2>1, <2>7, <4>1, <4>2 DEF ProduceIfEmpty
    <3>. QED BY <3>2, <3>3
  <2>8. CASE PushIfEmpty(t)
    <3>1. CASE queue # <<>> /\ empty' = Bail /\ Goes(t, "post") /\ UNCHANGED queue
      <4>1. pc = "push" /\ nextPc = "post"
        BY <2>8, <3>1, DrawMoves DEF PushIfEmpty
      <4>2. m = n - 1
        BY <2>1, <4>1
      <4>. QED BY <2>1, <2>8, <2>11, <3>1, <4>2 DEF PushIfEmpty, Bail
    <3>2. CASE queue = <<>> /\ queue' = <<draw[t].frame>> /\ Goes(t, "signal") /\ UNCHANGED empty
      <4>1. Len(queue') = Len(queue) + 1 /\ Len(queue) = 0
        BY <3>2
      <4>2. pc = "push" /\ nextPc = "signal" /\ continuation' = continuation
        BY <2>8, <3>2, DrawMoves DEF PushIfEmpty
      <4>3. m = n - 1
        BY <2>1, <4>2
      <4>. QED BY <2>1, <3>2, <4>1, <4>2, <4>3
    <3>. QED BY <2>8, <3>1, <3>2 DEF PushIfEmpty
  <2>9. CASE PushSignal(t)
    BY <2>1, <2>9, DrawMoves DEF PushSignal
  <2>10. CASE PostDraw(t)
    BY <2>1, <2>10, DrawMoves DEF PostDraw
  <2>. QED BY <1>2, <2>2, <2>3, <2>4, <2>5, <2>6, <2>7, <2>8, <2>9, <2>10 DEF DrawStep
<1>. QED BY <1>1, <1>2, EitherMoves

LEMMA SignalledStep ==
  ASSUME FrameBase, FrameBase', FramesSignalled, [FrameNext]_frameVars
  PROVE  FramesSignalled'
<1>. USE DEF FramesSignalled, UiState, UiPc, FrameBase, One, pipelineVars, animatorVars, waiterVars, drawVars
<1>1. CASE UiMoves
  <2>1. Cardinality(At({"pop", "signal"})') = Cardinality(At({"pop", "signal"})) /\ Cardinality(At({"pop", "signal"})) \in Nat
    BY <1>1, UiLeavesDraws, AtSame
  <2>2. CASE RequestFrame
    BY <2>1, <2>2 DEF RequestFrame
  <2>3. CASE ScheduleSecondaryCallback
    BY <2>1, <2>3 DEF ScheduleSecondaryCallback
  <2>4. CASE AwaitVSync
    BY <2>1, <2>4 DEF AwaitVSync
  <2>5. CASE FireCallback
    BY <2>1, <2>5 DEF FireCallback
  <2>6. CASE DrawLastLayerTrees
    BY <2>1, <2>6 DEF DrawLastLayerTrees
  <2>7. CASE BeginFrame
    BY <2>1, <2>7 DEF BeginFrame, Runs
  <2>8. CASE BeginFrameFull
    BY <2>1, <2>8 DEF BeginFrameFull
  <2>9. CASE Render
    BY <2>1, <2>9 DEF Render
  <2>10. CASE CommitFails
    BY <2>1, <2>10 DEF CommitFails
  <2>11. CASE Commit
    <3>1. Len(queue') = Len(queue) + 1 /\ Len(queue) \in Nat
      BY <2>11, SeqTypes DEF Commit
    <3>. QED BY <2>1, <2>11, <3>1 DEF Commit
  <2>12. CASE CommitSignal
    <3>1. ui.pc = "signal" /\ ui'.pc # "signal" /\ available' = available + 1 /\ queue' = queue
      BY <2>12 DEF CommitSignal, Signalled, BackInFrame
    <3>. QED BY <2>1, <3>1
  <2>13. CASE OnAnimatorDraw
    <3>1. ui.pc # "signal" /\ ui'.pc # "signal" /\ available' = available /\ queue' = queue
      BY <2>13 DEF OnAnimatorDraw, BackInFrame
    <3>. QED BY <2>1, <3>1
  <2>14. CASE FrameEnds
    BY <2>1, <2>14 DEF FrameEnds
  <2>15. CASE UNCHANGED frameVars
    BY <2>1, <2>15 DEF frameVars
  <2>. QED BY <1>1, <2>2, <2>3, <2>4, <2>5, <2>6, <2>7, <2>8, <2>9, <2>10, <2>11, <2>12, <2>13, <2>14, <2>15 DEF UiMoves, Framework, UiStep
<1>2. ASSUME NEW t \in Drawer, DrawStep(t)
      PROVE  FramesSignalled'
  <2> DEFINE pc == draw[t].pc
             nextPc == draw'[t].pc
             n == Cardinality(At({"pop", "signal"}))
             m == Cardinality(At({"pop", "signal"})')
  <2>1. /\ n \in Nat /\ m \in Nat
        /\ pc \in {"pop", "signal"} /\ nextPc \in {"pop", "signal"} => m = n
        /\ pc \notin {"pop", "signal"} /\ nextPc \notin {"pop", "signal"} => m = n
        /\ pc \in {"pop", "signal"} /\ nextPc \notin {"pop", "signal"} => m = n - 1
        /\ pc \notin {"pop", "signal"} /\ nextPc \in {"pop", "signal"} => m = n + 1
    BY <1>2, OneMoves, AtMoved
  <2>. USE DEF Doing
  <2>2. CASE TakeDraw(t)
    BY <2>1, <2>2, DrawMoves DEF TakeDraw
  <2>3. CASE TryWaitAvailable(t)
    BY <2>1, <2>3, DrawMoves DEF TryWaitAvailable
  <2>4. CASE Pop(t)
    <3>1. Len(queue') = Len(queue) - 1 /\ Len(queue) \in Nat
      BY <2>4, PoppedExists, TailTypes DEF Pop
    <3>. QED BY <2>1, <2>4, <3>1, DrawMoves DEF Pop
  <2>5. CASE \E again \in BOOLEAN : Raster(t, again)
    BY <2>1, <2>5, DrawMoves DEF Raster
  <2>6. CASE Free(t)
    BY <2>1, <2>6, DrawMoves DEF Free
  <2>7. CASE ProduceIfEmpty(t)
    BY <2>1, <2>7, DrawMoves DEF ProduceIfEmpty
  <2>8. CASE PushIfEmpty(t)
    <3>1. CASE queue # <<>> /\ empty' = Bail /\ Goes(t, "post") /\ UNCHANGED queue
      BY <2>1, <2>8, <3>1, DrawMoves DEF PushIfEmpty, Bail
    <3>2. CASE queue = <<>> /\ queue' = <<draw[t].frame>> /\ Goes(t, "signal") /\ UNCHANGED empty
      <4>1. Len(queue') = Len(queue) + 1 /\ Len(queue) = 0
        BY <3>2
      <4>. QED BY <2>1, <2>8, <3>2, <4>1, DrawMoves DEF PushIfEmpty
    <3>. QED BY <2>8, <3>1, <3>2 DEF PushIfEmpty
  <2>9. CASE PushSignal(t)
    BY <2>1, <2>9, DrawMoves DEF PushSignal
  <2>10. CASE PostDraw(t)
    BY <2>1, <2>10, DrawMoves DEF PostDraw
  <2>. QED BY <1>2, <2>2, <2>3, <2>4, <2>5, <2>6, <2>7, <2>8, <2>9, <2>10 DEF DrawStep
<1>. QED BY <1>1, <1>2, EitherMoves

-----------------------------------------------------------------------------
(* Requests                                                                  *)

LEMMA DrawsLeaveRequests ==
  ASSUME NEW t \in Drawer, DrawStep(t)
  PROVE  UNCHANGED <<uiTasks, callback, secondary, awaiting, pending, ui, built, trees>>
BY DEF DrawStep, TakeDraw, TryWaitAvailable, Pop, Raster, Free, ProduceIfEmpty, PushIfEmpty,
       PushSignal, PostDraw, animatorVars, waiterVars

LEMMA RequestStep ==
  ASSUME FrameBase, OneRequest, [FrameNext]_frameVars
  PROVE  OneRequest'
<1>. USE DEF OneRequest, One, waiterVars, animatorVars
<1>1. /\ uiTasks \in Seq({"await", "vsync"}) /\ Len(uiTasks) \in Nat /\ pending \in Nat
      /\ callback \in BOOLEAN
  BY DEF FrameBase
<1>2. uiTasks # <<>> => /\ Len(Tail(uiTasks)) = Len(uiTasks) - 1 /\ Len(uiTasks) # 0
                        /\ Tail(uiTasks) \in Seq({"await", "vsync"})
  BY <1>1, TailTypes
<1>3. /\ Len(Append(uiTasks, "await")) = Len(uiTasks) + 1
      /\ Len(Append(uiTasks, "vsync")) = Len(uiTasks) + 1
  BY <1>1, SeqTypes
<1>4. CASE RequestFrame
  <2>1. CASE pending = 0
    BY <1>4, <2>1 DEF RequestFrame, AsksOnce
  <2>2. CASE pending # 0
    BY <1>1, <1>3, <1>4, <2>2 DEF RequestFrame, AsksOnce
  <2>. QED BY <2>1, <2>2
<1>5. CASE AwaitVSync
  <2>1. ~callback
    BY <1>1, <1>2, <1>5 DEF AwaitVSync, Runs
  <2>. QED BY <1>1, <1>2, <1>5, <2>1 DEF AwaitVSync, Runs
<1>6. CASE FireCallback
  BY <1>1, <1>3, <1>6 DEF FireCallback, Left
<1>7. CASE DrawLastLayerTrees
  BY <1>1, <1>2, <1>7 DEF DrawLastLayerTrees, Runs
<1>8. CASE BeginFrame
  BY <1>1, <1>2, <1>8 DEF BeginFrame, Runs
<1>9. CASE BeginFrameFull
  <2>1. Len(Append(Tail(uiTasks), "await")) = Len(Tail(uiTasks)) + 1
    BY <1>2, <1>9, SeqTypes DEF BeginFrameFull, Runs
  <2>. QED BY <1>1, <1>2, <1>9, <2>1 DEF BeginFrameFull, Runs, RequestAgain
<1>10. CASE UNCHANGED <<uiTasks, callback, pending>>
  BY <1>10
<1>11. \A t \in Drawer : DrawStep(t) => UNCHANGED <<uiTasks, callback, pending>>
  BY DrawsLeaveRequests
<1>12. ScheduleSecondaryCallback \/ Render \/ CommitFails \/ Commit \/ CommitSignal
         \/ OnAnimatorDraw \/ FrameEnds \/ UNCHANGED frameVars
         => UNCHANGED <<uiTasks, callback, pending>>
  BY DEF ScheduleSecondaryCallback, Render, CommitFails, Commit, CommitSignal, OnAnimatorDraw,
         FrameEnds, frameVars
<1>. QED BY <1>4, <1>5, <1>6, <1>7, <1>8, <1>9, <1>10, <1>11, <1>12
         DEF FrameNext, Framework, UiStep

LEMMA VsyncStep ==
  ASSUME FrameBase, VsyncIsAsked, [FrameNext]_frameVars
  PROVE  VsyncIsAsked'
<1>. USE DEF VsyncIsAsked, waiterVars
<1>1. CASE ScheduleSecondaryCallback
  BY <1>1, Zenon DEF ScheduleSecondaryCallback
<1>2. CASE AwaitVSync
  BY <1>2, Zenon DEF AwaitVSync
<1>3. CASE FireCallback
  BY <1>3 DEF FireCallback, Left
<1>4. CASE UNCHANGED waiterVars
  BY <1>4
<1>5. \A t \in Drawer : DrawStep(t) => UNCHANGED waiterVars
  BY DrawsLeaveRequests
<1>6. RequestFrame \/ DrawLastLayerTrees \/ BeginFrame \/ BeginFrameFull \/ Render \/ CommitFails
        \/ Commit \/ CommitSignal \/ OnAnimatorDraw \/ FrameEnds \/ UNCHANGED frameVars
        => UNCHANGED waiterVars
  BY DEF RequestFrame, DrawLastLayerTrees, BeginFrame, BeginFrameFull, Render, CommitFails,
         Commit, CommitSignal, OnAnimatorDraw, FrameEnds, frameVars
<1>. QED BY <1>1, <1>2, <1>3, <1>4, <1>5, <1>6 DEF FrameNext, Framework, UiStep

-----------------------------------------------------------------------------
(* A Draw is coming                                                          *)

\* A thread whose Draw will pop a frame or post another Draw.
Bound(t) ==
  \/ draw[t].pc \in {"take", "pop", "signal"}
  \/ draw[t].pc # "idle" /\ draw[t].more

LEMMA PushersCounted ==
  ASSUME FrameBase, FramesSignalled, available = 0, ~Pushing, queue # <<>>
  PROVE  \E t \in Drawer : draw[t].pc = "pop"
<1>1. Len(queue) \in Nat /\ Len(queue) # 0
  BY DEF FrameBase
<1>2. Cardinality(At({"pop", "signal"})) # 0
  BY <1>1 DEF FramesSignalled, Pushing, One, FrameBase
<1>3. At({"pop", "signal"}) # {}
  BY <1>2, FS_EmptySet
<1>. QED BY <1>3 DEF At, Pushing, Doing

LEMMA AnnouncedStep ==
  ASSUME FrameBase, FramesSignalled, FramesAreAnnounced, [FrameNext]_frameVars
  PROVE  FramesAreAnnounced'
<1>. USE DEF FramesAreAnnounced, DrawIsComing, FrameBase, UiState, UiPc
<1>. SUFFICES ASSUME queue' # <<>>, ~raced'
              PROVE  DrawIsComing'
  OBVIOUS
<1>1. CASE UiMoves
  <2>1. UNCHANGED <<draw, raced>>
    BY <1>1 DEF UiMoves, Framework, UiStep, FireCallback, RequestFrame,
       ScheduleSecondaryCallback, AwaitVSync, DrawLastLayerTrees, BeginFrame, BeginFrameFull,
       Render, CommitFails, Commit, CommitSignal, OnAnimatorDraw, FrameEnds, frameVars, drawVars
  <2>2. CASE Commit
    <3>1. posted' = posted
      BY <2>2 DEF Commit, drawVars
    <3>2. CASE queue = <<>>
      <4>1. ui'.pc = "signal" /\ ui'.first
        BY <2>2, <3>2 DEF Commit
      <4>. QED BY <4>1
    <3>3. CASE queue # <<>>
      BY <2>1, <2>2, <3>1, <3>3 DEF Commit
    <3>. QED BY <3>2, <3>3
  <2>3. CASE CommitSignal
    BY <2>1, <2>3 DEF CommitSignal, BackInFrame, drawVars
  <2>4. CASE OnAnimatorDraw
    BY <2>4 DEF OnAnimatorDraw
  <2>5. CASE /\ queue' = queue /\ posted' = posted
             /\ ui.pc \in {"signal", "notify"} => ui' = ui
    BY <2>1, <2>5
  <2>6. CASE RequestFrame \/ ScheduleSecondaryCallback \/ AwaitVSync \/ FireCallback
               \/ DrawLastLayerTrees \/ BeginFrame \/ BeginFrameFull \/ Render \/ CommitFails
               \/ FrameEnds \/ UNCHANGED frameVars
    BY <2>5, <2>6 DEF RequestFrame, ScheduleSecondaryCallback, AwaitVSync, FireCallback,
       DrawLastLayerTrees, BeginFrame, BeginFrameFull, Render, CommitFails, FrameEnds, Runs,
       frameVars, drawVars, pipelineVars
  <2>. QED BY <1>1, <2>2, <2>3, <2>4, <2>6 DEF UiMoves, Framework, UiStep
<1>2. ASSUME NEW t \in Drawer, DrawStep(t)
      PROVE  DrawIsComing'
  <2> DEFINE d == draw[t]
             e == draw'[t]
  <2>1. d \in DrawState /\ \A u \in Drawer \ {t} : draw'[u] = draw[u]
    BY <1>2, OneMoves
  <2>2. (posted' > 0 \/ Bound(t)') => DrawIsComing'
    BY DEF Bound
  <2>3. ASSUME queue' = queue, raced' = raced, ui' = ui, posted' \in Nat, posted' >= posted,
               d.pc \notin {"take", "pop", "signal"}, d.more => posted' > 0 \/ Bound(t)'
        PROVE  DrawIsComing'
    <3>1. DrawIsComing
      BY <2>3
    <3>2. CASE posted > 0
      BY <2>3, <3>2
    <3>3. CASE ui.pc \in {"signal", "notify"} /\ ui.first
      BY <2>3, <3>3
    <3>4. ASSUME NEW u \in Drawer, Bound(u)
          PROVE  DrawIsComing'
      <4>1. CASE u = t
        BY <2>2, <2>3, <3>4, <4>1 DEF Bound
      <4>2. CASE u # t
        <5>1. Bound(u)'
          BY <2>1, <3>4, <4>2 DEF Bound
        <5>. QED BY <5>1 DEF Bound
      <4>. QED BY <4>1, <4>2
    <3>. QED BY <3>1, <3>2, <3>3, <3>4 DEF Bound
  <2>4. ASSUME queue' = queue, raced' = raced, ui' = ui, posted' = posted,
               d.pc \notin {"take", "pop", "signal"}, e.pc # "idle", d.more => e.more
        PROVE  DrawIsComing'
    BY <2>3, <2>4 DEF Bound
  <2>. USE DEF Doing, pipelineVars, drawVars
  <2>. HIDE DEF DrawIsComing
  <2>5. CASE TakeDraw(t)
    BY <2>2, <2>5, DrawMoves DEF TakeDraw, Bound
  <2>6. CASE TryWaitAvailable(t)
    <3>1. CASE available > 0
      BY <2>2, <2>6, <3>1, DrawMoves DEF TryWaitAvailable, Bound
    <3>2. CASE ~(available > 0)
      <4>1. raced' = (raced \/ Pushing)
        BY <2>6, <3>2, Zenon DEF TryWaitAvailable
      <4>2. ~raced /\ ~Pushing
        BY <4>1, Zenon
      <4>3. available = 0 /\ queue # <<>> /\ d.pc = "take"
        BY <2>6, <3>2 DEF TryWaitAvailable
      <4>4. PICK u \in Drawer : draw[u].pc = "pop"
        BY <4>2, <4>3, PushersCounted
      <4>5. draw'[u].pc = "pop"
        BY <2>1, <4>3, <4>4
      <4>. QED BY <4>5 DEF DrawIsComing
    <3>. QED BY <3>1, <3>2
  <2>7. CASE Pop(t)
    <3>1. e.pc = "raster" /\ e.more
      BY <2>7 DEF Pop
    <3>. QED BY <2>2, <3>1 DEF Bound
  <2>8. CASE \E again \in BOOLEAN : Raster(t, again)
    <3>. PICK again \in BOOLEAN : Raster(t, again)
      BY <2>8
    <3>1. PICK unmergedNow \in BOOLEAN :
            e = [d EXCEPT !.pc = "free", !.again = again, !.more = @ \/ (unmergedNow /\ ~again)]
      BY DEF Raster
    <3>2. e.pc = "free" /\ (d.more => e.more)
      BY <2>1, <3>1 DEF DrawState
    <3>. QED BY <2>4, <3>2 DEF Raster
  <2>9. CASE Free(t)
    <3>1. e.pc \in {"again", "post"} /\ e.more = d.more
      BY <2>9, GoesTypes DEF Free, DrawPc
    <3>. QED BY <2>4, <2>9, <3>1 DEF Free
  <2>10. CASE ProduceIfEmpty(t)
    <3>1. e.pc \in {"push", "post"} /\ e.more = d.more
      BY <2>10, GoesTypes DEF ProduceIfEmpty, DrawPc
    <3>. QED BY <2>4, <2>10, <3>1 DEF ProduceIfEmpty
  <2>11. CASE PushIfEmpty(t)
    <3>1. CASE queue = <<>> /\ queue' = <<d.frame>> /\ Goes(t, "signal")
      BY <2>2, <3>1, DrawMoves DEF Bound
    <3>2. CASE Goes(t, "post") /\ queue' = queue
      <4>1. e.pc = "post" /\ e.more = d.more
        BY <3>2, GoesTypes DEF DrawPc
      <4>. QED BY <2>4, <2>11, <3>2, <4>1 DEF PushIfEmpty
    <3>. QED BY <2>11, <3>1, <3>2 DEF PushIfEmpty
  <2>12. CASE PushSignal(t)
    <3>1. e = [d EXCEPT !.pc = "post", !.more = TRUE]
      BY <2>12 DEF PushSignal, Pushed
    <3>. QED BY <2>1, <2>2, <3>1 DEF Bound, DrawState
  <2>13. CASE PostDraw(t)
    BY <2>3, <2>13 DEF PostDraw, PostsMore
  <2>. QED BY <1>2, <2>5, <2>6, <2>7, <2>8, <2>9, <2>10, <2>11, <2>12, <2>13 DEF DrawStep
<1>. QED BY <1>1, <1>2, EitherMoves

-----------------------------------------------------------------------------
(* The theorems                                                              *)

LEMMA FrameStart == FrameInit => FrameInv
<1>. SUFFICES ASSUME FrameInit PROVE FrameInv
  OBVIOUS
<1>1. FrameBase /\ FrameNumbers
  <2>1. queue \in Seq(1..MaxFrames) /\ uiTasks \in Seq({"await", "vsync"})
    BY DEF FrameInit
  <2>2. ui \in UiState
    BY DEF FrameInit, UiState, UiPc
  <2>3. draw \in [Drawer -> DrawState] /\ DrawnFrames
    BY StateTypes DEF FrameInit, DrawnFrames, HasFrame, NotDrawing
  <2>4. empty \in Nat /\ built \in 0..MaxFrames
    BY FrameAssumption DEF FrameInit
  <2>. QED BY <2>1, <2>2, <2>3, <2>4 DEF FrameInit, FrameBase, FrameNumbers
<1>2. \A S : "idle" \notin S => At(S) = {}
  BY DEF FrameInit, At, NotDrawing
<1>3. Cardinality(At({"raster", "free", "push"})) = 0 /\ Cardinality(At({"pop", "signal"})) = 0
  BY <1>2, FS_EmptySet
<1>4. PlacesConserved /\ FramesSignalled
  BY <1>3, FrameAssumption DEF FrameInit, PlacesConserved, FramesSignalled, One
<1>5. OneRequest /\ VsyncIsAsked /\ FramesAreAnnounced
  <2>1. OneRequest
    BY DEF FrameInit, OneRequest, One
  <2>2. VsyncIsAsked /\ FramesAreAnnounced
    BY DEF FrameInit, VsyncIsAsked, FramesAreAnnounced
  <2>. QED BY <2>1, <2>2
<1>. QED BY <1>1, <1>4, <1>5 DEF FrameInv

\* The semaphores, the requests and the announcements of frames are in order
\* in every reachable state.
THEOREM FramesInOrder == FrameSpec => []FrameInv
<1>1. FrameInv /\ [FrameNext]_frameVars => FrameInv'
  BY BaseStep, PlacesStep, SignalledStep, RequestStep, VsyncStep, AnnouncedStep DEF FrameInv
<1>. QED BY <1>1, FrameStart, PTL DEF FrameSpec

\* The counts bound the semaphores.
LEMMA InvTypes == FrameInv => FrameTypeOK
<1>. SUFFICES ASSUME FrameInv PROVE FrameTypeOK
  OBVIOUS
<1>1. /\ Cardinality(At({"raster", "free", "push"})) \in Nat
      /\ Cardinality(At({"pop", "signal"})) \in Nat
  BY CountFinite DEF At
<1>2. /\ empty \in Nat /\ available \in Nat /\ pending \in Nat /\ Len(queue) \in Nat
      /\ Len(uiTasks) \in Nat /\ Depth \in Nat
  BY FrameAssumption DEF FrameInv, FrameBase
<1>3. One(continuation) \in Nat /\ One(ui.pc = "signal") \in Nat /\ One(callback) \in Nat
  BY DEF One
<1>4. /\ empty + One(continuation) + Len(queue)
            + Cardinality(At({"raster", "free", "push"})) = Depth
      /\ available + One(ui.pc = "signal") + Cardinality(At({"pop", "signal"})) = Len(queue)
      /\ Len(uiTasks) + One(callback) = 1 - pending
  BY DEF FrameInv, PlacesConserved, FramesSignalled, OneRequest
<1>5. empty <= Depth /\ Len(queue) <= Depth /\ available <= Len(queue) /\ pending <= 1
  <2>1. ASSUME NEW a \in Nat, NEW b \in Nat, NEW c \in Nat, NEW d \in Nat
        PROVE  a <= a + b + c + d /\ c <= a + b + c + d
    OBVIOUS
  <2>2. ASSUME NEW a \in Nat, NEW b \in Nat, NEW c \in Nat
        PROVE  a <= a + b + c
    OBVIOUS
  <2>3. empty <= Depth /\ Len(queue) <= Depth
    BY <2>1, <1>1, <1>2, <1>3, <1>4
  <2>4. available <= Len(queue)
    BY <2>2, <1>1, <1>2, <1>3, <1>4
  <2>5. pending <= 1
    BY <1>2, <1>3, <1>4
  <2>. QED BY <2>3, <2>4, <2>5
<1>6. empty \in 0..Depth /\ available \in 0..Depth /\ pending \in {0, 1}
  BY <1>2, <1>5
<1>. QED BY <1>6 DEF FrameInv, FrameBase, FrameTypeOK

\* No semaphore of the pipeline or of the animator is signalled past its count.
THEOREM FrameTyping == FrameSpec => []FrameTypeOK
BY FramesInOrder, InvTypes, PTL

\* No place of the pipeline is lost, and none is given twice.
THEOREM PlacesAreConserved == FrameSpec => []PlacesConserved
<1>1. FrameInv => PlacesConserved
  BY DEF FrameInv
<1>. QED BY <1>1, FramesInOrder, PTL

\* What a consumer takes from available_ is in the queue: none pops from an
\* empty one.
THEOREM SignalsMatchFrames == FrameSpec => []FramesSignalled
<1>1. FrameInv => FramesSignalled
  BY DEF FrameInv
<1>. QED BY <1>1, FramesInOrder, PTL

\* Between a request and its vsync there is one request on its way: several
\* make one, and none is made twice.
THEOREM RequestsAreSingle == FrameSpec => []OneRequest
<1>1. FrameInv => OneRequest
  BY DEF FrameInv
<1>. QED BY <1>1, FramesInOrder, PTL

\* The waiter has asked for a vsync exactly while a callback waits for one,
\* whichever of the animator and the secondary ones asked first.
THEOREM CallbacksHaveVsyncs == FrameSpec => []VsyncIsAsked
<1>1. FrameInv => VsyncIsAsked
  BY DEF FrameInv
<1>. QED BY <1>1, FramesInOrder, PTL

\* Unless a Draw came between the push of a frame and its signal, a queue with
\* frames has a Draw coming.
THEOREM FramesStayAnnounced == FrameSpec => []FramesAreAnnounced
<1>1. FrameInv => FramesAreAnnounced
  BY DEF FrameInv
<1>. QED BY <1>1, FramesInOrder, PTL

-----------------------------------------------------------------------------
(* The pipeline implements FrameLine                                         *)

\* No frame is in two hands, and the frames that wait do so in their order:
\* a frame that comes back finds the queue empty.
QueueAscends ==
  \A i, j \in 1..Len(queue) : i < j => queue[i] < queue[j]
QueueBuilt == \A i \in 1..Len(queue) : queue[i] <= built
HandsBuilt == \A t \in Drawer : draw[t].pc \in HasFrame => draw[t].frame \in 1..built
HandsOffQueue ==
  \A t \in Drawer : draw[t].pc \in HasFrame =>
    \A i \in 1..Len(queue) : queue[i] # draw[t].frame
HandsApart ==
  \A t, u \in Drawer : draw[t].pc \in HasFrame /\ draw[u].pc \in HasFrame
    /\ draw[t].frame = draw[u].frame => t = u

FramesApart == QueueAscends /\ QueueBuilt /\ HandsBuilt /\ HandsOffQueue /\ HandsApart

\* A step that gives nobody a frame he did not have.
LEMMA ApartSame ==
  ASSUME FramesApart, UNCHANGED <<queue, built>>,
         \A u \in Drawer : draw'[u].pc \in HasFrame =>
           draw[u].pc \in HasFrame /\ draw'[u].frame = draw[u].frame
  PROVE  FramesApart'
<1>. USE DEF FramesApart
<1>1. QueueAscends' /\ QueueBuilt'
  BY DEF QueueAscends, QueueBuilt
<1>2. HandsBuilt'
  BY DEF HandsBuilt
<1>3. HandsOffQueue'
  BY DEF HandsOffQueue
<1>4. HandsApart'
  BY DEF HandsApart
<1>. QED BY <1>1, <1>2, <1>3, <1>4

\* The UI thread changes the queue when it commits a frame, and only then.
LEMMA UiLeavesQueue ==
  ASSUME UiMoves, ~Commit
  PROVE  UNCHANGED <<queue, built, draw>>
BY DEF UiMoves, Framework, UiStep, FireCallback, RequestFrame, ScheduleSecondaryCallback,
       AwaitVSync, DrawLastLayerTrees, BeginFrame, BeginFrameFull, Render, CommitFails,
       CommitSignal, OnAnimatorDraw, FrameEnds, frameVars, pipelineVars, drawVars

\* The two that change a queue apart from Commit.
LEMMA DrawLeavesQueue ==
  ASSUME NEW t \in Drawer, DrawStep(t)
  PROVE  /\ built' = built
         /\ Pop(t) \/ PushIfEmpty(t) \/ queue' = queue
BY DEF DrawStep, TakeDraw, TryWaitAvailable, Pop, Raster, Free, ProduceIfEmpty, PushIfEmpty,
       PushSignal, PostDraw, pipelineVars

\* What each step does to the frame in the thread's hands.
LEMMA DrawHands ==
  ASSUME draw \in [Drawer -> DrawState], NEW t \in Drawer, DrawStep(t), ~Pop(t)
  PROVE  /\ draw'[t].pc \in HasFrame => draw[t].pc \in HasFrame
                                        /\ draw'[t].frame = draw[t].frame
         /\ \/ draw[t].pc \notin HasFrame /\ draw'[t].pc \notin HasFrame
            \/ draw[t].pc = "raster" /\ draw'[t].pc = "free"
            \/ draw[t].pc = "free" /\ draw'[t].pc \in {"again", "post"} /\ Free(t)
            \/ draw[t].pc = "again" /\ draw'[t].pc \in {"push", "post"} /\ ProduceIfEmpty(t)
            \/ draw[t].pc = "push" /\ draw'[t].pc \in {"signal", "post"} /\ PushIfEmpty(t)
<1>. USE DEF HasFrame, Doing
<1>1. draw[t] \in DrawState
  OBVIOUS
<1>2. ASSUME NEW pc \in DrawPc, Goes(t, pc)
      PROVE  draw'[t].pc = pc /\ draw'[t].frame = draw[t].frame
  BY <1>2, GoesTypes
<1>3. CASE TakeDraw(t)
  BY <1>2, <1>3 DEF TakeDraw, DrawPc
<1>4. CASE TryWaitAvailable(t)
  BY <1>2, <1>4 DEF TryWaitAvailable, DrawPc
<1>5. CASE \E again \in BOOLEAN : Raster(t, again)
  <2>1. draw'[t].pc = "free" /\ draw'[t].frame = draw[t].frame /\ draw[t].pc = "raster"
    BY <1>1, <1>5 DEF Raster, DrawState
  <2>. QED BY <2>1
<1>6. CASE Free(t)
  BY <1>2, <1>6 DEF Free, DrawPc
<1>7. CASE ProduceIfEmpty(t)
  BY <1>2, <1>7 DEF ProduceIfEmpty, DrawPc
<1>8. CASE PushIfEmpty(t)
  BY <1>2, <1>8 DEF PushIfEmpty, DrawPc
<1>9. CASE PushSignal(t)
  <2>1. draw'[t].pc = "post" /\ draw[t].pc = "signal"
    BY <1>9, DrawMoves DEF PushSignal
  <2>. QED BY <2>1
<1>10. CASE PostDraw(t)
  <2>1. draw'[t].pc = "idle" /\ draw[t].pc = "post"
    BY <1>10, DrawMoves DEF PostDraw
  <2>. QED BY <2>1
<1>. QED BY <1>3, <1>4, <1>5, <1>6, <1>7, <1>8, <1>9, <1>10 DEF DrawStep

\* A new frame is the newest, and behind the others.
LEMMA ApartCommit ==
  ASSUME FrameInv, FramesApart, Commit
  PROVE  FramesApart'
<1>1. /\ queue \in Seq(1..MaxFrames) /\ built \in Nat
      /\ queue' = Append(queue, built + 1) /\ built' = built + 1 /\ draw' = draw
  BY FrameAssumption DEF FrameInv, FrameBase, Commit, drawVars
<1>2. /\ Len(queue) \in Nat /\ Len(queue') = Len(queue) + 1
      /\ queue'[Len(queue) + 1] = built + 1
      /\ \A i \in 1..Len(queue) : queue'[i] = queue[i] /\ queue[i] \in Nat
                                  /\ queue[i] <= built
  BY <1>1, FrameAssumption DEF FramesApart, QueueBuilt
<1>. DEFINE n == Len(queue)
<1>. HIDE DEF n
<1>3. /\ n \in Nat /\ n = Len(queue) /\ Len(queue') = n + 1
      /\ 1..n+1 = 1..n \cup {n+1}
  BY <1>2 DEF n
<1>4. QueueAscends'
  <2>1. ASSUME NEW i \in 1..n+1, NEW j \in 1..n+1, i < j
        PROVE  queue'[i] < queue'[j]
    <3>1. i \in 1..n
      BY <1>3, <2>1
    <3>2. CASE j = n+1
      BY <1>1, <1>2, <1>3, <3>1, <3>2
    <3>3. CASE j \in 1..n
      BY <1>2, <1>3, <2>1, <3>1, <3>3 DEF FramesApart, QueueAscends
    <3>. QED BY <1>3, <3>2, <3>3
  <2>. QED BY <1>3, <2>1 DEF QueueAscends
<1>5. QueueBuilt'
  <2>1. ASSUME NEW i \in 1..n+1 PROVE queue'[i] <= built'
    BY <1>1, <1>2, <1>3
  <2>. QED BY <1>3, <2>1 DEF QueueBuilt
<1>6. HandsBuilt'
  BY <1>1 DEF FramesApart, HandsBuilt
<1>7. HandsOffQueue'
  <2>1. ASSUME NEW t \in Drawer, draw[t].pc \in HasFrame, NEW i \in 1..n+1
        PROVE  queue'[i] # draw[t].frame
    <3>1. draw[t].frame \in 1..built
      BY <2>1 DEF FramesApart, HandsBuilt
    <3>2. CASE i = n+1
      BY <1>1, <1>2, <1>3, <3>1, <3>2
    <3>3. CASE i \in 1..n
      BY <1>2, <1>3, <2>1, <3>3 DEF FramesApart, HandsOffQueue
    <3>. QED BY <1>3, <3>2, <3>3
  <2>. QED BY <1>1, <1>3, <2>1 DEF HandsOffQueue
<1>8. HandsApart'
  BY <1>1 DEF FramesApart, HandsApart
<1>. QED BY <1>4, <1>5, <1>6, <1>7, <1>8 DEF FramesApart

\* The head of the queue goes into one hand.
LEMMA ApartPop ==
  ASSUME FrameInv, FramesApart, NEW t \in Drawer, Pop(t)
  PROVE  FramesApart'
<1>1. /\ queue \in Seq(1..MaxFrames) /\ queue # <<>> /\ built \in Nat
      /\ queue' = Tail(queue) /\ built' = built /\ draw[t].pc = "pop"
      /\ draw \in [Drawer -> DrawState]
  BY PoppedExists, FrameAssumption DEF FrameInv, FrameBase, Pop, Doing
<1>2. /\ draw'[t].pc = "raster" /\ draw'[t].frame = queue[1]
      /\ \A u \in Drawer \ {t} : draw'[u] = draw[u]
  BY <1>1 DEF Pop
<1>3. /\ Len(queue) \in Nat \ {0} /\ Len(queue') = Len(queue) - 1
      /\ \A i \in 1..Len(queue) : queue[i] \in 1..MaxFrames
      /\ \A i \in 1..Len(queue') : i+1 \in 1..Len(queue) /\ queue'[i] = queue[i+1]
  <2>1. Len(queue) \in Nat \ {0} /\ Len(queue') = Len(queue) - 1
    BY <1>1, TailTypes
  <2>2. \A i \in 1..Len(queue) : queue[i] \in 1..MaxFrames
    <3>1. \A S : \A s \in Seq(S) : \A i \in 1..Len(s) : s[i] \in S
      OBVIOUS
    <3>. QED BY <1>1, <3>1
  <2>3. ASSUME NEW i \in 1..Len(queue') PROVE i+1 \in 1..Len(queue) /\ queue'[i] = queue[i+1]
    BY <1>1, <2>1
  <2>. QED BY <2>1, <2>2, <2>3
<1>4. /\ 1 \in 1..Len(queue)
      /\ \A i \in 1..Len(queue') : 1 < i+1
      /\ \A i, j \in 1..Len(queue') : i < j => i+1 < j+1
  BY <1>3
<1>5. QueueAscends'
  BY <1>3, <1>4 DEF FramesApart, QueueAscends
<1>6. QueueBuilt'
  BY <1>1, <1>3 DEF FramesApart, QueueBuilt
<1>7. queue[1] \in 1..built
  BY <1>1, <1>3, <1>4, FrameAssumption DEF FramesApart, QueueBuilt
<1>8. HandsBuilt'
  <2>1. ASSUME NEW u \in Drawer, draw'[u].pc \in HasFrame
        PROVE  draw'[u].frame \in 1..built'
    <3>1. CASE u = t
      BY <1>1, <1>2, <1>7, <3>1
    <3>2. CASE u # t
      BY <1>1, <1>2, <2>1, <3>2 DEF FramesApart, HandsBuilt
    <3>. QED BY <3>1, <3>2
  <2>. QED BY <2>1 DEF HandsBuilt
<1>9. HandsOffQueue'
  <2>1. ASSUME NEW u \in Drawer, draw'[u].pc \in HasFrame, NEW i \in 1..Len(queue')
        PROVE  queue'[i] # draw'[u].frame
    <3>1. i+1 \in 1..Len(queue) /\ queue'[i] = queue[i+1] /\ 1 < i+1
      BY <1>3, <1>4
    <3>2. CASE u = t
      <4>1. queue[1] < queue[i+1]
        BY <1>4, <3>1 DEF FramesApart, QueueAscends
      <4>. QED BY <1>2, <1>3, <1>4, <3>1, <3>2, <4>1
    <3>3. CASE u # t
      BY <1>2, <2>1, <3>1, <3>3 DEF FramesApart, HandsOffQueue
    <3>. QED BY <3>2, <3>3
  <2>. QED BY <2>1 DEF HandsOffQueue
<1>10. HandsApart'
  <2>1. ASSUME NEW u \in Drawer, u # t, draw[u].pc \in HasFrame
        PROVE  draw[u].frame # queue[1]
    BY <1>4, <2>1 DEF FramesApart, HandsOffQueue
  <2>. QED BY <1>2, <2>1 DEF FramesApart, HandsApart
<1>. QED BY <1>5, <1>6, <1>8, <1>9, <1>10 DEF FramesApart

\* A frame that comes back leaves the hand for the empty queue.
LEMMA ApartPush ==
  ASSUME FrameInv, FramesApart, NEW t \in Drawer, PushIfEmpty(t), queue' # queue
  PROVE  FramesApart'
<1>1. /\ queue' = <<draw[t].frame>> /\ draw[t].pc = "push" /\ Goes(t, "signal")
      /\ built' = built /\ built \in Nat /\ draw \in [Drawer -> DrawState]
  BY FrameAssumption DEF FrameInv, FrameBase, PushIfEmpty, Doing
<1>2. draw'[t].pc = "signal" /\ \A u \in Drawer \ {t} : draw'[u] = draw[u]
  BY <1>1, GoesTypes DEF DrawPc
<1>3. Len(queue') = 1 /\ queue'[1] = draw[t].frame /\ 1..1 = {1}
  BY <1>1
<1>4. draw[t].pc \in HasFrame /\ draw'[t].pc \notin HasFrame
  BY <1>1, <1>2 DEF HasFrame
<1>5. draw[t].frame \in 1..built
  BY <1>4 DEF FramesApart, HandsBuilt
<1>6. QueueAscends' /\ QueueBuilt'
  BY <1>1, <1>3, <1>5 DEF QueueAscends, QueueBuilt
<1>7. HandsBuilt'
  BY <1>1, <1>2, <1>4 DEF FramesApart, HandsBuilt
<1>8. HandsOffQueue'
  <2>1. ASSUME NEW u \in Drawer, draw'[u].pc \in HasFrame, NEW i \in 1..Len(queue')
        PROVE  queue'[i] # draw'[u].frame
    <3>1. u # t /\ draw'[u] = draw[u] /\ i = 1
      BY <1>2, <1>3, <1>4, <2>1
    <3>. QED BY <1>3, <1>4, <2>1, <3>1 DEF FramesApart, HandsApart
  <2>. QED BY <2>1 DEF HandsOffQueue
<1>9. HandsApart'
  BY <1>2, <1>4 DEF FramesApart, HandsApart
<1>. QED BY <1>6, <1>7, <1>8, <1>9 DEF FramesApart

\* Whoever draws, and however the two threads' steps fall, every frame is in
\* one place: the queue, which is in order, or one thread's hands.
THEOREM FramesKeepApart == FrameSpec => []FramesApart
<1>1. FrameInit => FramesApart
  BY DEF FrameInit, NotDrawing, FramesApart, QueueAscends, QueueBuilt, HandsBuilt,
         HandsOffQueue, HandsApart, HasFrame
<1>2. FrameInv /\ FramesApart /\ [FrameNext]_frameVars => FramesApart'
  <2>. SUFFICES ASSUME FrameInv, FramesApart, [FrameNext]_frameVars PROVE FramesApart'
    OBVIOUS
  <2>1. CASE UiMoves
    <3>1. CASE Commit
      BY <3>1, ApartCommit
    <3>2. CASE ~Commit
      BY <2>1, <3>2, UiLeavesQueue, ApartSame
    <3>. QED BY <3>1, <3>2
  <2>2. ASSUME NEW t \in Drawer, DrawStep(t) PROVE FramesApart'
    <3>1. CASE Pop(t)
      BY <3>1, ApartPop
    <3>2. CASE PushIfEmpty(t) /\ queue' # queue
      BY <3>2, ApartPush
    <3>3. CASE ~Pop(t) /\ queue' = queue
      <4>1. draw \in [Drawer -> DrawState]
        BY DEF FrameInv, FrameBase
      <4>2. built' = built /\ \A u \in Drawer \ {t} : draw'[u] = draw[u]
        BY <2>2, <4>1, DrawLeavesQueue, OneMoves
      <4>3. draw'[t].pc \in HasFrame => draw[t].pc \in HasFrame /\ draw'[t].frame = draw[t].frame
        BY <2>2, <3>3, <4>1, DrawHands
      <4>. QED BY <3>3, <4>2, <4>3, ApartSame
    <3>. QED BY <2>2, <3>1, <3>2, <3>3, DrawLeavesQueue
  <2>. QED BY <2>1, <2>2, EitherMoves
<1>. QED BY <1>1, <1>2, FramesInOrder, PTL DEF FrameSpec

-----------------------------------------------------------------------------
(* Every step of the pipeline is one of FrameLine, or none                   *)

\* The frames in some of the threads' hands, after a step of one of them.
LEMMA HandsSame ==
  ASSUME NEW CONSTANT S,
         \A u \in Drawer : /\ draw'[u].pc \in S <=> draw[u].pc \in S
                           /\ draw[u].pc \in S => draw'[u].frame = draw[u].frame
  PROVE  FramesAt(S)' = FramesAt(S)
<1>1. ASSUME NEW f, f \in FramesAt(S)' PROVE f \in FramesAt(S)
  <2>1. PICK u \in Drawer : draw'[u].pc \in S /\ f = draw'[u].frame
    BY <1>1 DEF FramesAt, At
  <2>2. draw[u].pc \in S /\ f = draw[u].frame
    BY <2>1
  <2>. QED BY <2>2 DEF FramesAt, At
<1>2. ASSUME NEW f, f \in FramesAt(S) PROVE f \in FramesAt(S)'
  <2>1. PICK u \in Drawer : draw[u].pc \in S /\ f = draw[u].frame
    BY <1>2 DEF FramesAt, At
  <2>2. draw'[u].pc \in S /\ f = draw'[u].frame
    BY <2>1
  <2>. QED BY <2>2 DEF FramesAt, At
<1>. QED BY <1>1, <1>2

LEMMA HandLeft ==
  ASSUME NEW CONSTANT S, S \subseteq HasFrame, HandsApart, NEW t \in Drawer,
         \A u \in Drawer \ {t} : draw'[u] = draw[u],
         draw[t].pc \in S, draw'[t].pc \notin S
  PROVE  /\ draw[t].frame \in FramesAt(S)
         /\ FramesAt(S)' = FramesAt(S) \ {draw[t].frame}
<1>1. draw[t].frame \in FramesAt(S)
  BY DEF FramesAt, At
<1>2. ASSUME NEW f PROVE f \in FramesAt(S)' <=> f \in FramesAt(S) /\ f # draw[t].frame
  <2>1. ASSUME f \in FramesAt(S)' PROVE f \in FramesAt(S) /\ f # draw[t].frame
    <3>1. PICK u \in Drawer : draw'[u].pc \in S /\ f = draw'[u].frame
      BY <2>1 DEF FramesAt, At
    <3>2. u # t /\ draw'[u] = draw[u]
      BY <3>1
    <3>3. draw[u].frame # draw[t].frame
      BY <3>1, <3>2 DEF HandsApart
    <3>. QED BY <3>1, <3>2, <3>3 DEF FramesAt, At
  <2>2. ASSUME f \in FramesAt(S), f # draw[t].frame PROVE f \in FramesAt(S)'
    <3>1. PICK u \in Drawer : draw[u].pc \in S /\ f = draw[u].frame
      BY <2>2 DEF FramesAt, At
    <3>2. u # t /\ draw'[u] = draw[u]
      BY <2>2, <3>1
    <3>. QED BY <3>1, <3>2 DEF FramesAt, At
  <2>. QED BY <2>1, <2>2
<1>. QED BY <1>1, <1>2

LEMMA HandTaken ==
  ASSUME NEW CONSTANT S, NEW t \in Drawer,
         \A u \in Drawer \ {t} : draw'[u] = draw[u],
         draw[t].pc \notin S, draw'[t].pc \in S
  PROVE  FramesAt(S)' = FramesAt(S) \cup {draw'[t].frame}
<1>1. ASSUME NEW f
      PROVE  f \in FramesAt(S)' <=> f \in FramesAt(S) \/ f = draw'[t].frame
  <2>1. ASSUME f \in FramesAt(S)' PROVE f \in FramesAt(S) \/ f = draw'[t].frame
    <3>1. PICK u \in Drawer : draw'[u].pc \in S /\ f = draw'[u].frame
      BY <2>1 DEF FramesAt, At
    <3>2. u # t => draw'[u] = draw[u]
      OBVIOUS
    <3>. QED BY <3>1, <3>2 DEF FramesAt, At
  <2>2. ASSUME f \in FramesAt(S) PROVE f \in FramesAt(S)'
    <3>1. PICK u \in Drawer : draw[u].pc \in S /\ f = draw[u].frame
      BY <2>2 DEF FramesAt, At
    <3>2. u # t /\ draw'[u] = draw[u]
      BY <3>1
    <3>. QED BY <3>1, <3>2 DEF FramesAt, At
  <2>3. draw'[t].frame \in FramesAt(S)'
    BY DEF FramesAt, At
  <2>. QED BY <2>1, <2>2, <2>3
<1>. QED BY <1>1

\* There are no more frames in hands than hands.
LEMMA HandsCounted ==
  ASSUME NEW CONSTANT S
  PROVE  /\ Cardinality(FramesAt(S)) \in Nat
         /\ Cardinality(FramesAt(S)) <= Cardinality(At(S))
<1>1. At(S) \subseteq Drawer
  BY DEF At
<1>2. IsFiniteSet(At(S)) /\ Cardinality(At(S)) \in Nat
  BY <1>1, CountFinite
<1> DEFINE frame == [t \in At(S) |-> draw[t].frame]
<1>3. frame \in Surjection(At(S), FramesAt(S))
  BY DEF FramesAt, Surjection
<1>4. IsFiniteSet(FramesAt(S)) /\ Cardinality(FramesAt(S)) <= Cardinality(At(S))
  BY <1>2, <1>3, FS_Surjection
<1>. QED BY <1>4, FS_CardinalityType

\* Who is about to push holds a place besides those of the frames being drawn,
\* and so does the animator with its continuation: a frame of theirs fits in.
LEMMA PlaceLeft ==
  ASSUME FrameInv, continuation \/ \E t \in Drawer : draw[t].pc = "push"
  PROVE  Line!HasPlace
<1> DEFINE D == At({"raster", "free"})
           P == At({"raster", "free", "push"})
<1>1. /\ Cardinality(FramesAt({"raster", "free"})) \in Nat
      /\ Cardinality(FramesAt({"raster", "free"})) <= Cardinality(D)
  BY HandsCounted
<1>2. /\ D \subseteq Drawer /\ P \subseteq Drawer /\ D \subseteq P
  BY DEF At
<1>3. /\ Cardinality(D) \in Nat /\ Cardinality(P) \in Nat /\ IsFiniteSet(P)
      /\ Cardinality(D) <= Cardinality(P)
  BY <1>2, CountFinite, FS_Subset
<1>4. ASSUME NEW t \in Drawer, draw[t].pc = "push"
      PROVE  Cardinality(D) + 1 <= Cardinality(P)
  <2>1. t \in P /\ t \notin D
    BY <1>4 DEF At
  <2>2. Cardinality(D \cup {t}) = Cardinality(D) + 1
    BY <1>2, <2>1, CountAdd
  <2>3. D \cup {t} \in SUBSET P
    BY <1>2, <2>1
  <2>4. Cardinality(D \cup {t}) <= Cardinality(P)
    BY <1>3, <2>3, FS_Subset
  <2>. QED BY <2>2, <2>4
<1>5. /\ empty \in Nat /\ Len(queue) \in Nat /\ Depth \in Nat
      /\ continuation \in BOOLEAN
      /\ empty + One(continuation) + Len(queue) + Cardinality(P) = Depth
  BY FrameAssumption DEF FrameInv, FrameBase, PlacesConserved
<1>. HIDE DEF D, P
<1>6. Len(queue) + Cardinality(D) < Depth
  <2>1. CASE continuation
    <3>1. One(continuation) = 1
      BY <2>1 DEF One
    <3>. QED BY <1>3, <1>5, <3>1
  <2>2. CASE \E t \in Drawer : draw[t].pc = "push"
    <3>1. Cardinality(D) + 1 <= Cardinality(P) /\ One(continuation) \in Nat
      BY <1>4, <2>2 DEF One
    <3>. QED BY <1>3, <1>5, <3>1
  <2>. QED BY <2>1, <2>2
<1>7. ASSUME NEW a \in Nat, NEW b \in Nat, NEW c \in Nat, NEW d \in Nat, a <= b, c + b < d
      PROVE  c + a < d
  BY <1>7
<1>8. Len(queue) + Cardinality(FramesAt({"raster", "free"})) < Depth
  BY <1>1, <1>3, <1>5, <1>6, <1>7
<1>9. \A S : Line!Cardinality(S) = Cardinality(S)
  BY DEF Line!Cardinality, Cardinality
<1>. QED BY <1>8, <1>9 DEF Line!HasPlace

LEMMA CommitSubmits ==
  ASSUME FrameInv, Commit
  PROVE  Line!Submit
<1>1. /\ queue' = Append(queue, built + 1) /\ built' = built + 1
      /\ draw' = draw /\ continuation
  BY DEF Commit, drawVars
<1>2. FramesAt({"raster", "free"})' = FramesAt({"raster", "free"})
  BY <1>1, HandsSame
<1>3. FramesAt({"again", "push"})' = FramesAt({"again", "push"})
  BY <1>1, HandsSame
<1>4. Line!HasPlace
  BY <1>1, PlaceLeft
<1>. QED BY <1>1, <1>2, <1>3, <1>4 DEF Line!Submit

LEMMA PopDraws ==
  ASSUME FrameInv, FramesApart, NEW t \in Drawer, Pop(t)
  PROVE  Line!Draw
<1>1. /\ queue \in Seq(1..MaxFrames) /\ queue # <<>>
      /\ queue' = Tail(queue) /\ built' = built /\ draw[t].pc = "pop"
      /\ draw \in [Drawer -> DrawState]
  BY PoppedExists DEF FrameInv, FrameBase, Pop, Doing
<1>2. /\ draw'[t].pc = "raster" /\ draw'[t].frame = Head(queue)
      /\ \A u \in Drawer \ {t} : draw'[u] = draw[u]
  BY <1>1 DEF Pop
<1>3. FramesAt({"raster", "free"})' = FramesAt({"raster", "free"}) \cup {Head(queue)}
  BY <1>1, <1>2, HandTaken
<1>4. FramesAt({"again", "push"})' = FramesAt({"again", "push"})
  BY <1>1, <1>2, HandsSame
<1>5. Head(queue) \notin FramesAt({"raster", "free"}) \cup FramesAt({"again", "push"})
  <2>1. Head(queue) = queue[1] /\ 1 \in 1..Len(queue)
    BY <1>1
  <2>2. ASSUME NEW u \in Drawer, draw[u].pc \in HasFrame PROVE Head(queue) # draw[u].frame
    BY <2>1, <2>2 DEF FramesApart, HandsOffQueue
  <2>. QED BY <2>2 DEF FramesAt, At, HasFrame
<1>. QED BY <1>1, <1>3, <1>4, <1>5 DEF Line!Draw

\* A step of a Draw that leaves its frame in its hands, or has none.
LEMMA HandsStutter ==
  ASSUME NEW t \in Drawer, \A u \in Drawer \ {t} : draw'[u] = draw[u],
         queue' = queue, built' = built,
         draw'[t].pc \in HasFrame => draw'[t].frame = draw[t].frame,
         \/ draw[t].pc \notin HasFrame /\ draw'[t].pc \notin HasFrame
         \/ draw[t].pc \in {"raster", "free"} /\ draw'[t].pc \in {"raster", "free"}
         \/ draw[t].pc \in {"again", "push"} /\ draw'[t].pc \in {"again", "push"}
  PROVE  UNCHANGED Line!lineVars
<1>1. FramesAt({"raster", "free"})' = FramesAt({"raster", "free"})
  BY HandsSame DEF HasFrame
<1>2. FramesAt({"again", "push"})' = FramesAt({"again", "push"})
  BY HandsSame DEF HasFrame
<1>. QED BY <1>1, <1>2 DEF Line!lineVars

LEMMA DrawImplements ==
  ASSUME FrameInv, FramesApart, NEW t \in Drawer, DrawStep(t), ~Pop(t)
  PROVE  [Line!LineNext]_(Line!lineVars)
<1> DEFINE f == draw[t].frame
           D == FramesAt({"raster", "free"})
           K == FramesAt({"again", "push"})
<1>0. draw \in [Drawer -> DrawState] /\ HandsApart
  BY DEF FrameInv, FrameBase, FramesApart
<1>1. \A u \in Drawer \ {t} : draw'[u] = draw[u]
  BY <1>0, OneMoves
<1>2. built' = built /\ (PushIfEmpty(t) \/ queue' = queue)
  BY DrawLeavesQueue
<1>3. draw'[t].pc \in HasFrame => draw'[t].frame = draw[t].frame
  BY <1>0, DrawHands
<1>4. {"raster", "free"} \subseteq HasFrame /\ {"again", "push"} \subseteq HasFrame
  BY DEF HasFrame
<1>5. CASE /\ queue' = queue
           /\ \/ draw[t].pc \notin HasFrame /\ draw'[t].pc \notin HasFrame
              \/ draw[t].pc = "raster" /\ draw'[t].pc = "free"
              \/ draw[t].pc = "again" /\ draw'[t].pc = "push"
  BY <1>1, <1>2, <1>3, <1>5, HandsStutter
<1>6. CASE draw[t].pc = "free" /\ draw'[t].pc \in {"again", "post"} /\ Free(t)
  <2>1. queue' = queue
    BY <1>6 DEF Free
  <2>2. f \in D /\ D' = D \ {f}
    BY <1>0, <1>1, <1>4, <1>6, HandLeft
  <2>3. CASE draw'[t].pc = "again"
    <3>1. K' = K \cup {f}
      <4>1. draw'[t].frame = f
        BY <1>3, <2>3 DEF HasFrame
      <4>. QED BY <1>1, <1>6, <2>3, <4>1, HandTaken
    <3>2. Line!Keep(f)
      BY <1>2, <2>1, <2>2, <3>1 DEF Line!Keep
    <3>. QED BY <2>2, <3>2 DEF Line!LineNext
  <2>4. CASE draw'[t].pc = "post"
    <3>1. K' = K
      BY <1>1, <1>6, <2>4, HandsSame
    <3>2. Line!Finish(f)
      BY <1>2, <2>1, <2>2, <3>1 DEF Line!Finish
    <3>. QED BY <2>2, <3>2 DEF Line!LineNext
  <2>. QED BY <1>6, <2>3, <2>4
<1>7. CASE draw[t].pc \in {"again", "push"} /\ draw'[t].pc = "post" /\ queue' = queue
  <2>1. f \in K /\ K' = K \ {f}
    BY <1>0, <1>1, <1>4, <1>7, HandLeft
  <2>2. D' = D
    BY <1>1, <1>7, HandsSame
  <2>3. Line!GiveUp(f)
    BY <1>2, <1>7, <2>1, <2>2 DEF Line!GiveUp
  <2>. QED BY <2>1, <2>3 DEF Line!LineNext
<1>8. CASE draw[t].pc = "push" /\ draw'[t].pc = "signal" /\ PushIfEmpty(t)
  <2>1. queue = <<>> /\ queue' = <<f>>
    <3>1. ASSUME Goes(t, "post") PROVE FALSE
      BY <1>0, <1>8, <3>1, DrawMoves
    <3>. QED BY <1>8, <3>1 DEF PushIfEmpty
  <2>2. f \in K /\ K' = K \ {f}
    BY <1>0, <1>1, <1>4, <1>8, HandLeft
  <2>3. D' = D
    BY <1>1, <1>8, HandsSame
  <2>4. Line!HasPlace
    BY <1>8, PlaceLeft
  <2>5. Line!Redraw(f)
    BY <1>2, <2>1, <2>2, <2>3, <2>4 DEF Line!Redraw
  <2>. QED BY <2>2, <2>5 DEF Line!LineNext
<1>9. CASE draw[t].pc = "push" /\ draw'[t].pc = "post" /\ PushIfEmpty(t)
  <2>1. queue' = queue
    <3>1. ASSUME Goes(t, "signal") PROVE FALSE
      BY <1>0, <1>9, <3>1, DrawMoves
    <3>. QED BY <1>9, <3>1 DEF PushIfEmpty
  <2>. QED BY <1>7, <1>9, <2>1
<1>10. ASSUME ProduceIfEmpty(t) PROVE queue' = queue
  BY <1>10 DEF ProduceIfEmpty
<1>11. draw[t].pc # "push" => queue' = queue
  BY <1>2 DEF PushIfEmpty, Doing
<1>12. \/ draw[t].pc \notin HasFrame /\ draw'[t].pc \notin HasFrame
       \/ draw[t].pc = "raster" /\ draw'[t].pc = "free"
       \/ draw[t].pc = "free" /\ draw'[t].pc \in {"again", "post"} /\ Free(t)
       \/ draw[t].pc = "again" /\ draw'[t].pc \in {"push", "post"} /\ ProduceIfEmpty(t)
       \/ draw[t].pc = "push" /\ draw'[t].pc \in {"signal", "post"} /\ PushIfEmpty(t)
  BY <1>0, DrawHands
<1>. HIDE DEF f, D, K
<1>. QED
  <2>1. CASE draw[t].pc \notin HasFrame /\ draw'[t].pc \notin HasFrame
    BY <1>4, <1>5, <1>11, <2>1
  <2>2. CASE draw[t].pc \in HasFrame
    BY <1>5, <1>6, <1>7, <1>8, <1>9, <1>10, <1>11, <1>12, <2>2
  <2>. QED BY <1>12, <2>1, <2>2 DEF HasFrame

\* The animator, the pipeline's semaphores and the threads that draw implement
\* one line of frames in which every step is indivisible.
THEOREM LineRefinement == FrameSpec => ImplementsFrameLine
<1>1. FrameInit => Line!LineInit
  BY DEF FrameInit, NotDrawing, Line!LineInit, FramesAt, At
<1>2. FrameInv /\ FramesApart /\ [FrameNext]_frameVars => [Line!LineNext]_(Line!lineVars)
  <2>. SUFFICES ASSUME FrameInv, FramesApart, [FrameNext]_frameVars
                PROVE  [Line!LineNext]_(Line!lineVars)
    OBVIOUS
  <2>1. CASE UiMoves
    <3>1. CASE Commit
      BY <3>1, CommitSubmits DEF Line!LineNext
    <3>2. CASE ~Commit
      <4>1. UNCHANGED <<queue, built, draw>>
        BY <2>1, <3>2, UiLeavesQueue
      <4>2. FramesAt({"raster", "free"})' = FramesAt({"raster", "free"})
        BY <4>1, HandsSame
      <4>3. FramesAt({"again", "push"})' = FramesAt({"again", "push"})
        BY <4>1, HandsSame
      <4>. QED BY <4>1, <4>2, <4>3 DEF Line!lineVars
    <3>. QED BY <3>1, <3>2
  <2>2. ASSUME NEW t \in Drawer, DrawStep(t) PROVE [Line!LineNext]_(Line!lineVars)
    <3>1. CASE Pop(t)
      BY <3>1, PopDraws DEF Line!LineNext
    <3>. QED BY <2>2, <3>1, DrawImplements
  <2>. QED BY <2>1, <2>2, EitherMoves
<1>. QED
  BY <1>1, <1>2, FramesInOrder, FramesKeepApart, PTL
     DEF FrameSpec, ImplementsFrameLine, Line!LineSpec

============================================================================
