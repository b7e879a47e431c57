--------------------------- MODULE SurfaceProofs ---------------------------
(* Proofs about Surfaces, for any term of a lease that outlasts the Draw     *)
(* that takes it out, and any number of views and frames.  Each step is      *)
(* judged by what it does to the raster tasks (QueueKeeps), to the calls of  *)
(* the platform thread (CallsKeep), and to the threads that draw.            *)
EXTENDS Surfaces, TLAPS

RasterTask == Draw \cup Setup \cup {Teardown}
IoTask == IoCreated \cup {IoDestroyed}
ThreadState == [pc : {"idle"} \cup DrawPc \cup CallPc,
                task : Draw \cup Create \cup {NoTask}, again : BOOLEAN]

Front == {"draw", "release", "preroll", "merge", "extend"}

LEMMA TaskKinds ==
  /\ \A x \in RasterTask : /\ x.job \in {"draw", "setup", "teardown"}
                           /\ x.job = "draw" => x \in Draw
                           /\ x.job = "setup" => x \in Setup /\ x.view \in 1..MaxViews
                           /\ x.job = "teardown" => x = Teardown
  /\ \A d \in Draw : d \in RasterTask /\ d.job = "draw"
  /\ Teardown \in RasterTask /\ Teardown.job = "teardown"
  /\ \A n \in 1..MaxViews : [job |-> "setup", view |-> n] \in RasterTask
BY DEF RasterTask, Draw, Setup, Teardown

LEMMA SeqFacts ==
  ASSUME NEW S, NEW s \in Seq(S), NEW x \in S
  PROVE  /\ Append(s, x) \in Seq(S) /\ Len(Append(s, x)) = Len(s) + 1 /\ Len(s) \in Nat
         /\ \A i \in 1..Len(s) : Append(s, x)[i] = s[i] /\ s[i] \in S
         /\ Append(s, x)[Len(s) + 1] = x
OBVIOUS

LEMMA OneElement ==
  ASSUME NEW S, NEW x \in S
  PROVE  <<x>> \in Seq(S)
OBVIOUS

LEMMA OneTaken ==
  ASSUME NEW x
  PROVE  Tail(<<x>>) = <<>> /\ Head(<<x>>) = x /\ <<x>> # <<>>
OBVIOUS

LEMMA TailFacts ==
  ASSUME NEW S, NEW s \in Seq(S), s # <<>>
  PROVE  /\ Head(s) \in S /\ Tail(s) \in Seq(S) /\ Len(Tail(s)) = Len(s) - 1
         /\ Len(s) \in Nat \ {0} /\ Head(s) = s[1]
         /\ \A i \in 1..Len(Tail(s)) : Tail(s)[i] = s[i + 1]
OBVIOUS

-----------------------------------------------------------------------------
(* The raster tasks                                                          *)

\* A Draw is queued behind the others.
LEMMA DrawQueued ==
  ASSUME rasterTasks \in Seq(RasterTask), TasksAreInOrder, NEW d \in Draw,
         rasterTasks' = Append(rasterTasks, d), same' = same,
         Queued("setup") => surface' = 0 /\ ~merged'
  PROVE  /\ rasterTasks' \in Seq(RasterTask) /\ TasksAreInOrder'
         /\ Queued("setup")' <=> Queued("setup")
         /\ Queued("teardown")' <=> Queued("teardown")
<1> DEFINE n == Len(rasterTasks)
<1>1. d \in RasterTask /\ d.job = "draw"
  BY TaskKinds
<1>2. /\ rasterTasks' \in Seq(RasterTask) /\ Len(rasterTasks') = n + 1 /\ n \in Nat
      /\ \A i \in 1..n : rasterTasks'[i] = rasterTasks[i]
      /\ rasterTasks'[n + 1] = d
  BY <1>1, SeqFacts
<1>3. \A i \in 1..n + 1 : rasterTasks'[i].job # "draw" => i \in 1..n
  BY <1>1, <1>2
<1>4. \A i \in 1..n : i \in 1..n + 1
  BY <1>2
<1>5. TasksAreInOrder'
  <2>1. ASSUME NEW i \in 1..n + 1, rasterTasks'[i].job = "setup"
        PROVE  /\ surface' = 0 /\ ~same' /\ ~merged'
               /\ \A j \in (1..n + 1) \ {i} : rasterTasks'[j].job # "setup"
    <3>1. i \in 1..n /\ rasterTasks[i].job = "setup"
      BY <1>2, <1>3, <2>1
    <3>2. Queued("setup") /\ ~same
      BY <3>1 DEF Queued, TasksAreInOrder
    <3>3. \A j \in 1..n \ {i} : rasterTasks[j].job # "setup"
      BY <3>1 DEF TasksAreInOrder
    <3>. QED BY <1>2, <1>3, <3>2, <3>3
  <2>2. ASSUME NEW i \in 1..n + 1, rasterTasks'[i].job = "teardown",
               NEW j \in i+1..n + 1
        PROVE  rasterTasks'[j].job = "draw"
    <3>1. i \in 1..n /\ rasterTasks[i].job = "teardown"
      BY <1>2, <1>3, <2>2
    <3>2. CASE j = n + 1
      BY <1>1, <1>2, <3>2
    <3>3. CASE j # n + 1
      <4>1. j \in i+1..n /\ j \in 1..n
        BY <1>2, <3>1, <3>3
      <4>. QED BY <1>2, <3>1, <4>1 DEF TasksAreInOrder
    <3>. QED BY <3>2, <3>3
  <2>. QED BY <1>2, <2>1, <2>2 DEF TasksAreInOrder
<1>6. \A job \in {"setup", "teardown"} : Queued(job)' <=> Queued(job)
  BY <1>2, <1>3, <1>4 DEF Queued
<1>. QED BY <1>2, <1>5, <1>6

\* The first task is taken.
LEMMA TaskTaken ==
  ASSUME rasterTasks \in Seq(RasterTask), TasksAreInOrder, rasterTasks # <<>>,
         rasterTasks' = Tail(rasterTasks), same' = same,
         Queued("setup") /\ Head(rasterTasks).job # "setup" => surface' = 0 /\ ~merged'
  PROVE  /\ rasterTasks' \in Seq(RasterTask) /\ TasksAreInOrder'
         /\ Head(rasterTasks) \in RasterTask
         /\ Queued("setup") <=> Head(rasterTasks).job = "setup" \/ Queued("setup")'
         /\ Queued("teardown") <=> Head(rasterTasks).job = "teardown" \/ Queued("teardown")'
         /\ Head(rasterTasks).job = "setup" =>
              ~Queued("setup")' /\ surface = 0 /\ ~same /\ ~merged
         /\ Head(rasterTasks).job = "teardown" =>
              ~Queued("setup")' /\ ~Queued("teardown")'
<1> DEFINE n == Len(rasterTasks)
<1>1. /\ Head(rasterTasks) \in RasterTask /\ rasterTasks' \in Seq(RasterTask)
      /\ Len(rasterTasks') = n - 1 /\ n \in Nat \ {0} /\ Head(rasterTasks) = rasterTasks[1]
      /\ \A i \in 1..n - 1 : rasterTasks'[i] = rasterTasks[i + 1]
  BY TailFacts
<1>2. \A i \in 1..n - 1 : i + 1 \in 1..n /\ i + 1 # 1
  BY <1>1
<1>3. \A i \in 1..n : i # 1 => i - 1 \in 1..n - 1 /\ rasterTasks'[i - 1] = rasterTasks[i]
  BY <1>1
<1>4. 1 \in 1..n
  BY <1>1
<1>5. \A job : Queued(job) <=> Head(rasterTasks).job = job \/ Queued(job)'
  BY <1>1, <1>2, <1>3, <1>4 DEF Queued
<1>6. Head(rasterTasks).job = "setup" =>
        ~Queued("setup")' /\ surface = 0 /\ ~same /\ ~merged
  BY <1>1, <1>2, <1>4 DEF Queued, TasksAreInOrder
<1>7. ASSUME Head(rasterTasks).job = "teardown"
      PROVE  ~Queued("setup")' /\ ~Queued("teardown")'
  <2>1. \A j \in 1+1..n : rasterTasks[j].job = "draw"
    BY <1>1, <1>4, <1>7 DEF TasksAreInOrder
  <2>2. \A i \in 1..n - 1 : rasterTasks'[i].job = "draw"
    BY <1>1, <2>1
  <2>. QED BY <1>1, <2>2 DEF Queued
<1>8. TasksAreInOrder'
  <2>1. ASSUME NEW i \in 1..n - 1, rasterTasks'[i].job = "setup"
        PROVE  /\ surface' = 0 /\ ~same' /\ ~merged'
               /\ \A j \in (1..n - 1) \ {i} : rasterTasks'[j].job # "setup"
    <3>1. i + 1 \in 1..n /\ rasterTasks[i + 1].job = "setup"
      BY <1>1, <1>2, <2>1
    <3>2. Queued("setup") /\ Queued("setup")' /\ ~same
      BY <1>1, <2>1, <3>1 DEF Queued, TasksAreInOrder
    <3>3. surface' = 0 /\ ~merged'
      BY <1>6, <3>2
    <3>4. \A j \in 1..n \ {i + 1} : rasterTasks[j].job # "setup"
      BY <3>1 DEF TasksAreInOrder
    <3>5. ASSUME NEW j \in (1..n - 1) \ {i} PROVE rasterTasks'[j].job # "setup"
      <4>1. j + 1 \in 1..n \ {i + 1} /\ rasterTasks'[j] = rasterTasks[j + 1]
        BY <1>1, <3>5
      <4>. QED BY <3>4, <4>1
    <3>. QED BY <3>2, <3>3, <3>5
  <2>2. ASSUME NEW i \in 1..n - 1, rasterTasks'[i].job = "teardown", NEW j \in i+1..n - 1
        PROVE  rasterTasks'[j].job = "draw"
    <3>1. /\ i + 1 \in 1..n /\ rasterTasks[i + 1].job = "teardown"
          /\ j + 1 \in (i + 1)+1..n /\ rasterTasks'[j] = rasterTasks[j + 1]
      BY <1>1, <2>2
    <3>. QED BY <3>1 DEF TasksAreInOrder
  <2>. QED BY <1>1, <2>1, <2>2 DEF TasksAreInOrder
<1>. QED BY <1>1, <1>5, <1>6, <1>7, <1>8

\* The queue is left alone.
LEMMA QueueAlone ==
  ASSUME TasksAreInOrder, UNCHANGED <<rasterTasks, same>>,
         Queued("setup") => surface' = 0 /\ ~merged'
  PROVE  /\ TasksAreInOrder'
         /\ Queued("setup")' <=> Queued("setup")
         /\ Queued("teardown")' <=> Queued("teardown")
<1>1. \A job : Queued(job)' <=> Queued(job)
  BY DEF Queued
<1>2. TasksAreInOrder'
  BY DEF TasksAreInOrder, Queued
<1>. QED BY <1>1, <1>2

\* Behind nothing but Draws there is room for a Setup, and for a Teardown
\* behind anything else that is not one.
LEMMA TaskPosted ==
  ASSUME rasterTasks \in Seq(RasterTask), TasksAreInOrder, ~Queued("teardown"),
         NEW x \in RasterTask, rasterTasks' = Append(rasterTasks, x),
         UNCHANGED <<same, merged, surface>>,
         x.job = "setup" => ~Queued("setup") /\ surface = 0 /\ ~same /\ ~merged
  PROVE  /\ rasterTasks' \in Seq(RasterTask) /\ TasksAreInOrder'
         /\ Queued("setup")' <=> Queued("setup") \/ x.job = "setup"
         /\ Queued("teardown")' <=> x.job = "teardown"
<1> DEFINE n == Len(rasterTasks)
<1>1. /\ rasterTasks' \in Seq(RasterTask) /\ Len(rasterTasks') = n + 1 /\ n \in Nat
      /\ \A i \in 1..n : rasterTasks'[i] = rasterTasks[i]
      /\ rasterTasks'[n + 1] = x
  BY SeqFacts
<1>2. \A i \in 1..n + 1 : i = n + 1 \/ i \in 1..n
  BY <1>1
<1>3. n + 1 \in 1..n + 1 /\ \A i \in 1..n : i \in 1..n + 1 /\ i # n + 1
  BY <1>1
<1>4. \A job : Queued(job)' <=> Queued(job) \/ x.job = job
  BY <1>1, <1>2, <1>3 DEF Queued
<1>5. TasksAreInOrder'
  <2>1. ASSUME NEW i \in 1..n + 1, rasterTasks'[i].job = "setup"
        PROVE  /\ surface' = 0 /\ ~same' /\ ~merged'
               /\ \A j \in (1..n + 1) \ {i} : rasterTasks'[j].job # "setup"
    <3>1. CASE i = n + 1
      BY <1>1, <1>2, <2>1, <3>1 DEF Queued
    <3>2. CASE i \in 1..n
      BY <1>1, <1>2, <2>1, <3>2 DEF TasksAreInOrder, Queued
    <3>. QED BY <1>2, <3>1, <3>2
  <2>2. ASSUME NEW i \in 1..n + 1, rasterTasks'[i].job = "teardown"
        PROVE  i = n + 1
    BY <1>1, <1>2, <2>2 DEF Queued
  <2>. QED BY <1>1, <2>1, <2>2 DEF TasksAreInOrder
<1>. QED BY <1>1, <1>4, <1>5

-----------------------------------------------------------------------------
(* The threads                                                               *)

\* A thread goes on.
LEMMA ThreadMoves ==
  ASSUME at \in [Thread -> ThreadState], NEW t \in Thread,
         NEW pc \in {"idle"} \cup DrawPc \cup CallPc, NEW again \in BOOLEAN,
         NEW task \in Draw \cup Create \cup {NoTask},
         \/ Goes(t, pc) /\ task = at[t].task
         \/ GoesAgain(t, pc, again) /\ task = at[t].task
         \/ Ends(t) /\ pc = "idle" /\ task = NoTask
         \/ at' = [at EXCEPT ![t] = [pc |-> pc, task |-> task, again |-> again]]
  PROVE  /\ at' \in [Thread -> ThreadState]
         /\ at'[t].pc = pc /\ at'[t].task = task
         /\ \A u \in Thread \ {t} : at'[u] = at[u]
<1>1. at[t] \in ThreadState
  OBVIOUS
<1>2. PICK s \in ThreadState : s.pc = pc /\ s.task = task /\ at' = [at EXCEPT ![t] = s]
  <2>1. CASE Goes(t, pc) /\ task = at[t].task
    <3>1. at' = [at EXCEPT ![t] = [at[t] EXCEPT !.pc = pc]]
      BY <2>1 DEF Goes
    <3>2. [at[t] EXCEPT !.pc = pc] \in ThreadState
      BY <1>1 DEF ThreadState
    <3>. QED BY <1>1, <2>1, <3>1, <3>2 DEF ThreadState
  <2>2. CASE GoesAgain(t, pc, again) /\ task = at[t].task
    <3>1. at' = [at EXCEPT ![t] = [at[t] EXCEPT !.pc = pc, !.again = again]]
      BY <2>2 DEF GoesAgain
    <3>2. [at[t] EXCEPT !.pc = pc, !.again = again] \in ThreadState
      BY <1>1 DEF ThreadState
    <3>. QED BY <1>1, <2>2, <3>1, <3>2 DEF ThreadState
  <2>3. CASE Ends(t) /\ pc = "idle" /\ task = NoTask
    BY <2>3 DEF Ends, Idle, ThreadState
  <2>4. CASE at' = [at EXCEPT ![t] = [pc |-> pc, task |-> task, again |-> again]]
    BY <2>4 DEF ThreadState
  <2>. QED BY <2>1, <2>2, <2>3, <2>4
<1>. QED BY <1>2

LEMMA ThreadGoes ==
  ASSUME at \in [Thread -> ThreadState], NEW t \in Thread,
         NEW pc \in {"idle"} \cup DrawPc \cup CallPc, Goes(t, pc)
  PROVE  /\ at' \in [Thread -> ThreadState]
         /\ at'[t].pc = pc /\ at'[t].task = at[t].task
         /\ \A u \in Thread \ {t} : at'[u] = at[u]
<1>1. at[t].task \in Draw \cup Create \cup {NoTask} /\ TRUE \in BOOLEAN
  BY DEF ThreadState
<1>. QED BY <1>1, ThreadMoves

Asks(t, pc, task) == at' = [at EXCEPT ![t].pc = pc, ![t].task = task]

LEMMA ThreadAsks ==
  ASSUME at \in [Thread -> ThreadState], NEW t \in Thread,
         NEW pc \in {"idle"} \cup DrawPc \cup CallPc,
         NEW task \in Draw \cup Create \cup {NoTask},
         Asks(t, pc, task)
  PROVE  /\ at' \in [Thread -> ThreadState]
         /\ at'[t].pc = pc /\ at'[t].task = task
         /\ \A u \in Thread \ {t} : at'[u] = at[u]
<1>1. at' = [at EXCEPT ![t] = [at[t] EXCEPT !.pc = pc, !.task = task]]
  BY DEF Asks
<1>2. at[t] \in ThreadState
  OBVIOUS
<1>3. [at[t] EXCEPT !.pc = pc, !.task = task] \in ThreadState
  BY <1>2 DEF ThreadState
<1>4. /\ [at[t] EXCEPT !.pc = pc, !.task = task].pc = pc
      /\ [at[t] EXCEPT !.pc = pc, !.task = task].task = task
  BY <1>2 DEF ThreadState
<1>. QED BY <1>1, <1>3, <1>4

LEMMA ThreadEnds ==
  ASSUME at \in [Thread -> ThreadState], NEW t \in Thread, Ends(t)
  PROVE  /\ at' \in [Thread -> ThreadState]
         /\ at'[t].pc = "idle" /\ at'[t].task = NoTask
         /\ \A u \in Thread \ {t} : at'[u] = at[u]
<1>1. TRUE \in BOOLEAN /\ NoTask \in Draw \cup Create \cup {NoTask}
      /\ "idle" \in {"idle"} \cup DrawPc \cup CallPc
  OBVIOUS
<1>. QED BY <1>1, ThreadMoves

\* A step of a Draw, or one that only queues, leaves the calls where they are.
LEMMA CallsKeep ==
  ASSUME CallsAreInOrder,
         UNCHANGED <<same, created, destroyed, surface, ioTasks, latch>>,
         Queued("setup")' => Queued("setup"),
         Queued("teardown")' <=> Queued("teardown"),
         merged' => merged \/ surface # 0,
         at'["platform"] = at["platform"] \/
           (at["platform"].pc \notin CallPc /\ at'["platform"].pc \notin CallPc),
         at["platform"].pc = "unmerge" => enabled' = enabled /\ merged' = merged
  PROVE  CallsAreInOrder'
<1>1. TornDown => TornDown'
  BY DEF TornDown
<1>2. at["platform"].pc \in CallPc => at'["platform"] = at["platform"]
  OBVIOUS
<1>3. /\ {"create", "setup", "createWait", "destroyWait", "unmerge"} \subseteq CallPc
      /\ WaitPc \subseteq CallPc
  BY DEF CallPc, WaitPc
<1>. HIDE DEF TornDown
<1>. QED BY <1>1, <1>2, <1>3 DEF CallsAreInOrder, WaitPc

\* What a step of a Draw, or an asked for Draw, has to show.
LEMMA DrawingKeeps ==
  ASSUME SurfaceInv,
         SurfaceTypeOK', LeaseMatchesQueues', DrawsAreApart',
         UNCHANGED <<same, created, destroyed, surface, ioTasks, latch>>,
         rasterTasks' = rasterTasks \/ \E d \in Draw : rasterTasks' = Append(rasterTasks, d),
         merged' => merged \/ surface # 0,
         at'["platform"] = at["platform"] \/
           (at["platform"].pc \notin CallPc /\ at'["platform"].pc \notin CallPc),
         at["platform"].pc = "unmerge" => enabled' = enabled /\ merged' = merged
  PROVE  SurfaceInv'
<1>1. rasterTasks \in Seq(RasterTask) /\ TasksAreInOrder /\ CallsAreInOrder
  BY DEF SurfaceInv, SurfaceTypeOK, RasterTask
<1>2. Queued("setup") => surface' = 0 /\ ~merged'
  BY <1>1 DEF TasksAreInOrder, Queued
<1>3. /\ TasksAreInOrder'
      /\ Queued("setup")' <=> Queued("setup")
      /\ Queued("teardown")' <=> Queued("teardown")
  BY <1>1, <1>2, QueueAlone, DrawQueued
<1>4. CallsAreInOrder'
  BY <1>1, <1>3, CallsKeep
<1>. QED BY <1>3, <1>4 DEF SurfaceInv

\* The steps of a Draw are no part of a call.
LEMMA NoCall ==
  /\ \A pc \in DrawPc : pc \notin CallPc
  /\ "idle" \notin CallPc /\ "idle" \notin DrawPc
BY DEF DrawPc, CallPc, WaitPc

LEMMA PrepareKeeps ==
  ASSUME SurfaceInv, NEW t \in Thread, Prepare(t)
  PROVE  SurfaceInv'
<1>. USE DEF Prepare, Doing, viewVars, waitVars, mergerVars
<1>1. SurfaceTypeOK /\ LeaseMatchesQueues /\ DrawsAreApart /\ at \in [Thread -> ThreadState]
  BY DEF SurfaceInv, SurfaceTypeOK, ThreadState
<1>2. /\ shown' \in BOOLEAN /\ shownBefore' \in BOOLEAN /\ layers' \in BOOLEAN
      /\ \E pc \in {"idle", "release", "preroll"} :
           \/ pc = "idle" /\ Ends(t)
           \/ pc # "idle" /\ Goes(t, pc) /\ ~GivesUp(t) /\ (pc = "release" => t = "raster")
  <2>1. CASE GivesUp(t) /\ Ends(t) /\ UNCHANGED embedderVars
    BY <1>1, <2>1 DEF embedderVars, SurfaceTypeOK
  <2>2. CASE ~GivesUp(t)
    BY <1>1, <2>2 DEF SurfaceTypeOK
  <2>. QED BY <2>1, <2>2
<1>. PICK pc \in {"idle", "release", "preroll"} :
        \/ pc = "idle" /\ Ends(t)
        \/ pc # "idle" /\ Goes(t, pc) /\ ~GivesUp(t) /\ (pc = "release" => t = "raster")
  BY <1>2
<1>3. /\ at' \in [Thread -> ThreadState] /\ at'[t].pc = pc
      /\ pc # "idle" => at'[t].task = at[t].task
      /\ \A u \in Thread \ {t} : at'[u] = at[u]
  <2>1. CASE pc = "idle" /\ Ends(t)
    BY <1>1, <2>1, ThreadEnds
  <2>2. CASE pc # "idle" /\ Goes(t, pc)
    BY <1>1, <2>2, ThreadGoes DEF DrawPc
  <2>. QED BY <2>1, <2>2
<1>4. SurfaceTypeOK'
  BY <1>1, <1>2, <1>3 DEF SurfaceTypeOK, ThreadState
<1>5. LeaseMatchesQueues'
  BY <1>1 DEF LeaseMatchesQueues, IsMerged
<1>6. DrawsAreApart'
  <2>1. pc # "idle" => surface # 0 /\ (IsMerged <=> t = "platform")
    BY <1>1, <1>2 DEF GivesUp, DrawsAreApart, IsMerged, SurfaceTypeOK
  <2>. QED BY <1>1, <1>2, <1>3, <2>1 DEF DrawsAreApart, Thread, DrawPc, LeaseMatchesQueues, IsMerged
<1>7. at'["platform"] = at["platform"] \/
        (at["platform"].pc \notin CallPc /\ at'["platform"].pc \notin CallPc)
  BY <1>2, <1>3, NoCall DEF Thread, DrawPc
<1>8. at["platform"].pc = "unmerge" => enabled' = enabled /\ merged' = merged
  OBVIOUS
<1>. QED BY <1>4, <1>5, <1>6, <1>7, <1>8, DrawingKeeps

LEMMA PrerollKeeps ==
  ASSUME SurfaceInv, NEW t \in Thread, Preroll(t)
  PROVE  SurfaceInv'
<1>. USE DEF Preroll, Doing, viewVars, waitVars, mergerVars
<1>1. SurfaceTypeOK /\ LeaseMatchesQueues /\ DrawsAreApart /\ at \in [Thread -> ThreadState]
  BY DEF SurfaceInv, SurfaceTypeOK, ThreadState
<1>2. PICK pc \in {"clean", "merge", "extend"} :
        /\ Goes(t, pc)
        /\ pc = "merge" => ~IsMerged
        /\ pc = "extend" => IsMerged
        /\ {shown', shownBefore'} \subseteq BOOLEAN
  BY <1>1 DEF SurfaceTypeOK
<1>3. /\ at' \in [Thread -> ThreadState]
      /\ at'[t].pc = pc /\ at'[t].task = at[t].task
      /\ \A u \in Thread \ {t} : at'[u] = at[u]
  BY <1>1, <1>2, ThreadGoes DEF DrawPc
<1>4. SurfaceTypeOK'
  BY <1>1, <1>2, <1>3 DEF SurfaceTypeOK, ThreadState
<1>5. LeaseMatchesQueues'
  BY <1>1 DEF LeaseMatchesQueues, IsMerged
<1>6. DrawsAreApart'
  <2>1. /\ t = "raster" => ~merged /\ ~same /\ ~IsMerged
        /\ t = "platform" => IsMerged
        /\ at[t].task \in Draw /\ surface # 0
    BY <1>1 DEF DrawsAreApart, LeaseMatchesQueues, IsMerged, Thread, DrawPc
  <2>. QED BY <1>1, <1>2, <1>3, <2>1 DEF DrawsAreApart, Thread, DrawPc
<1>7. at'["platform"] = at["platform"] \/
        (at["platform"].pc \notin CallPc /\ at'["platform"].pc \notin CallPc)
  BY <1>2, <1>3, NoCall DEF Thread, DrawPc
<1>. QED BY <1>4, <1>5, <1>6, <1>7, DrawingKeeps

LEMMA MergeKeeps ==
  ASSUME SurfaceInv, NEW t \in Thread, Merge(t)
  PROVE  SurfaceInv'
<1>. USE DEF Merge, Doing, viewVars, embedderVars, waitVars, mergerVars, MergeWithLease
<1>1. SurfaceTypeOK /\ LeaseMatchesQueues /\ DrawsAreApart /\ at \in [Thread -> ThreadState]
  BY DEF SurfaceInv, SurfaceTypeOK, ThreadState
<1>2. t = "raster" /\ ~merged /\ ~same /\ ~IsMerged /\ surface # 0 /\ at[t].task \in Draw
  BY <1>1 DEF DrawsAreApart, LeaseMatchesQueues, IsMerged, Thread, DrawPc
<1>3. /\ at' \in [Thread -> ThreadState]
      /\ at'[t].pc = "clean" /\ at'[t].task = at[t].task
      /\ \A u \in Thread \ {t} : at'[u] = at[u]
  <2>1. at[t].task \in Draw \cup Create \cup {NoTask} /\ "clean" \in DrawPc
    BY <1>2 DEF DrawPc
  <2>. QED BY <1>1, <2>1, ThreadMoves
<1>4. /\ UNCHANGED <<same, enabled, checkFailed>>
      /\ \/ merged' = merged /\ lease' = lease
         \/ merged' = TRUE /\ lease' = LeaseTerm
  BY <1>2
<1>5. SurfaceTypeOK'
  <2>1. merged' \in BOOLEAN
    BY <1>1, <1>4 DEF SurfaceTypeOK
  <2>2. lease' \in NoRecord..LeaseTerm
    BY <1>1, <1>4, LeaseAssumption DEF SurfaceTypeOK, NoRecord
  <2>. QED BY <1>1, <1>3, <1>4, <2>1, <2>2 DEF SurfaceTypeOK, ThreadState
<1>6. LeaseMatchesQueues'
  BY <1>1, <1>4, LeaseAssumption DEF LeaseMatchesQueues, IsMerged
<1>7. DrawsAreApart'
  BY <1>1, <1>2, <1>3, <1>4 DEF DrawsAreApart, Thread, DrawPc
<1>8. /\ at'["platform"] = at["platform"]
      /\ at["platform"].pc # "unmerge"
  <2>1. at["platform"].pc # "unmerge"
    BY <1>2 DEF SurfaceInv, CallsAreInOrder
  <2>. QED BY <1>2, <1>3, <2>1 DEF Thread
<1>. QED BY <1>2, <1>4, <1>5, <1>6, <1>7, <1>8, DrawingKeeps

LEMMA ExtendKeeps ==
  ASSUME SurfaceInv, NEW t \in Thread, Extend(t)
  PROVE  SurfaceInv'
<1>. USE DEF Extend, Doing, viewVars, waitVars, mergerVars, ExtendLeaseTo
<1>1. SurfaceTypeOK /\ LeaseMatchesQueues /\ DrawsAreApart /\ at \in [Thread -> ThreadState]
  BY DEF SurfaceInv, SurfaceTypeOK, ThreadState
<1>2. t = "platform" /\ (same \/ merged) /\ at[t].task \in Draw
  BY <1>1 DEF DrawsAreApart, Thread, DrawPc
<1>3. /\ at' \in [Thread -> ThreadState]
      /\ at'[t].pc = "clean" /\ at'[t].task = at[t].task
      /\ \A u \in Thread \ {t} : at'[u] = at[u]
  <2>1. /\ at[t].task \in Draw \cup Create \cup {NoTask} /\ "clean" \in DrawPc
        /\ (~shownBefore) \in BOOLEAN
    BY <1>2 DEF DrawPc
  <2>. QED BY <1>1, <2>1, ThreadMoves
<1>4. UNCHANGED <<same, merged, enabled, checkFailed>>
  OBVIOUS
<1>5. (lease' = LeaseTerm /\ ~same) \/ lease' = lease
  OBVIOUS
<1>6. SurfaceTypeOK'
  <2>1. layers' \in BOOLEAN
    BY <1>1 DEF SurfaceTypeOK
  <2>. QED BY <1>1, <1>3, <1>4, <1>5, <2>1, LeaseAssumption DEF SurfaceTypeOK, ThreadState, NoRecord
<1>7. LeaseMatchesQueues'
  BY <1>1, <1>2, <1>4, <1>5, LeaseAssumption DEF LeaseMatchesQueues, IsMerged
<1>8. DrawsAreApart'
  BY <1>1, <1>2, <1>3, <1>4, <1>5 DEF DrawsAreApart, Thread, DrawPc
<1>9. at["platform"].pc \notin CallPc /\ at'["platform"].pc \notin CallPc
  BY <1>2, <1>3, NoCall DEF DrawPc
<1>. QED BY <1>4, <1>6, <1>7, <1>8, <1>9, DrawingKeeps

LEMMA CleanKeeps ==
  ASSUME SurfaceInv, NEW t \in Thread, Clean(t)
  PROVE  SurfaceInv'
<1>. USE DEF Clean, Doing, viewVars, embedderVars, waitVars, mergerVars
<1>1. SurfaceTypeOK /\ LeaseMatchesQueues /\ DrawsAreApart /\ at \in [Thread -> ThreadState]
  BY DEF SurfaceInv, SurfaceTypeOK, ThreadState
<1>2. /\ at' \in [Thread -> ThreadState]
      /\ at'[t].pc = "lease" /\ at'[t].task = at[t].task
      /\ \A u \in Thread \ {t} : at'[u] = at[u]
  BY <1>1, ThreadGoes DEF DrawPc
<1>3. SurfaceTypeOK'
  BY <1>1, <1>2 DEF SurfaceTypeOK, ThreadState
<1>4. LeaseMatchesQueues'
  BY <1>1 DEF LeaseMatchesQueues, IsMerged
<1>5. DrawsAreApart'
  BY <1>1, <1>2 DEF DrawsAreApart, Thread, DrawPc
<1>6. at'["platform"] = at["platform"] \/
        (at["platform"].pc \notin CallPc /\ at'["platform"].pc \notin CallPc)
  BY <1>2, NoCall DEF Thread, DrawPc
<1>. QED BY <1>3, <1>4, <1>5, <1>6, DrawingKeeps

\* The raster thread gives back one term of a lease it took out itself, and
\* so never the last; the platform thread waits until it has.
LEMMA LeaseKeeps ==
  ASSUME SurfaceInv, NEW t \in Thread, Lease(t)
  PROVE  SurfaceInv'
<1>. USE DEF Lease, Doing, viewVars, embedderVars, waitVars, mergerVars
<1>1. SurfaceTypeOK /\ LeaseMatchesQueues /\ DrawsAreApart /\ at \in [Thread -> ThreadState]
  BY DEF SurfaceInv, SurfaceTypeOK, ThreadState
<1>2. Goes(t, "again") \/ Ends(t)
  OBVIOUS
<1>3. /\ at' \in [Thread -> ThreadState] /\ at'[t].pc \in {"again", "idle"}
      /\ at'[t].pc = "again" => at'[t].task = at[t].task
      /\ \A u \in Thread \ {t} : at'[u] = at[u]
  BY <1>1, <1>2, ThreadGoes, ThreadEnds DEF DrawPc
<1>4. \/ UNCHANGED mergerVars
      \/ /\ ~same /\ IsMerged /\ lease' = lease - 1
         /\ UNCHANGED <<same, enabled>>
         /\ \/ lease = 1 /\ merged' = FALSE /\ checkFailed' = ~merged
            \/ lease # 1 /\ UNCHANGED <<merged, checkFailed>>
  <2>. USE DEF DecrementLease, UnMergeNow
  <2>. PICK unmergedNow \in BOOLEAN : DecrementLease(unmergedNow)
    OBVIOUS
  <2>. QED OBVIOUS
<1>5. IsMerged /\ ~same => merged /\ lease > 0
  BY <1>1 DEF IsMerged, LeaseMatchesQueues
<1>6. lease \in NoRecord..LeaseTerm
  BY <1>1 DEF SurfaceTypeOK
<1>7. SurfaceTypeOK'
  <2>1. lease' \in NoRecord..LeaseTerm
    BY <1>4, <1>5, <1>6, LeaseAssumption DEF NoRecord
  <2>2. merged' \in BOOLEAN /\ checkFailed' \in BOOLEAN
    BY <1>1, <1>4 DEF SurfaceTypeOK
  <2>. QED BY <1>1, <1>3, <1>4, <2>1, <2>2 DEF SurfaceTypeOK, ThreadState
<1>8. LeaseMatchesQueues'
  <2>1. CASE UNCHANGED mergerVars
    BY <1>1, <2>1 DEF LeaseMatchesQueues, IsMerged
  <2>2. CASE ~same /\ IsMerged /\ lease = 1 /\ lease' = 0 /\ merged' = FALSE /\ ~checkFailed'
    BY <2>2 DEF LeaseMatchesQueues, IsMerged
  <2>3. CASE /\ ~same /\ IsMerged /\ lease # 1 /\ lease' = lease - 1
             /\ UNCHANGED <<merged, checkFailed>>
    <3>1. merged' /\ lease' > 0 /\ ~checkFailed'
      BY <1>1, <1>5, <1>6, <2>3, LeaseAssumption DEF NoRecord, LeaseMatchesQueues
    <3>. QED BY <3>1 DEF LeaseMatchesQueues, IsMerged
  <2>4. lease = 1 => lease - 1 = 0
    OBVIOUS
  <2>. QED BY <1>4, <1>5, <2>1, <2>2, <2>3, <2>4
<1>9. t = "raster" => merged' = merged
  <2>1. t = "raster" /\ merged => lease = LeaseTerm
    BY <1>1 DEF DrawsAreApart
  <2>. QED BY <1>4, <1>5, <2>1, LeaseAssumption
<1>10. merged' => merged
  BY <1>4
<1>11. DrawsAreApart'
  <2>1. CASE t = "raster"
    BY <1>1, <1>3, <1>4, <1>9, <2>1 DEF DrawsAreApart, Thread, DrawPc
  <2>2. CASE t = "platform"
    <3>1. at["raster"].pc = "idle"
      BY <2>2 DEF TailIsShort
    <3>. QED BY <1>1, <1>3, <1>4, <1>10, <2>2, <3>1 DEF DrawsAreApart, Thread, DrawPc
  <2>. QED BY <2>1, <2>2 DEF Thread
<1>12. at'["platform"] = at["platform"] \/
        (at["platform"].pc \notin CallPc /\ at'["platform"].pc \notin CallPc)
  BY <1>3, NoCall DEF Thread, DrawPc
<1>13. at["platform"].pc = "unmerge" => enabled' = enabled /\ merged' = merged
  BY <1>4, <1>9 DEF Thread
<1>. QED BY <1>4, <1>7, <1>8, <1>10, <1>11, <1>12, <1>13, DrawingKeeps

LEMMA ResubmitKeeps ==
  ASSUME SurfaceInv, NEW t \in Thread, Resubmit(t)
  PROVE  SurfaceInv'
<1>. USE DEF Resubmit, Doing, viewVars, embedderVars, waitVars, mergerVars
<1>1. SurfaceTypeOK /\ LeaseMatchesQueues /\ DrawsAreApart /\ at \in [Thread -> ThreadState]
  BY DEF SurfaceInv, SurfaceTypeOK, ThreadState
<1>2. /\ at' \in [Thread -> ThreadState] /\ at'[t].pc = "idle"
      /\ \A u \in Thread \ {t} : at'[u] = at[u]
  BY <1>1, ThreadEnds
<1>3. [at[t].task EXCEPT !.resized = FALSE] \in Draw
  BY <1>1 DEF DrawsAreApart, DrawPc, Draw
<1>4. PICK d \in Draw : rasterTasks' = Append(rasterTasks, d)
  BY <1>3
<1>5. rasterTasks' \in Seq(RasterTask)
  <2>1. d \in RasterTask /\ rasterTasks \in Seq(RasterTask)
    BY <1>1, TaskKinds DEF SurfaceTypeOK, RasterTask
  <2>. QED BY <1>4, <2>1, SeqFacts
<1>6. SurfaceTypeOK'
  BY <1>1, <1>2, <1>5 DEF SurfaceTypeOK, ThreadState, RasterTask
<1>7. LeaseMatchesQueues'
  BY <1>1 DEF LeaseMatchesQueues, IsMerged
<1>8. DrawsAreApart'
  BY <1>1, <1>2 DEF DrawsAreApart, Thread, DrawPc
<1>9. at'["platform"] = at["platform"] \/
        (at["platform"].pc \notin CallPc /\ at'["platform"].pc \notin CallPc)
  BY <1>2, NoCall DEF Thread, DrawPc
<1>. QED BY <1>4, <1>6, <1>7, <1>8, <1>9, DrawingKeeps

LEMMA ReleaseLayersKeeps ==
  ASSUME SurfaceInv, ReleaseLayers
  PROVE  SurfaceInv'
<1>. USE DEF ReleaseLayers, Doing, viewVars, waitVars, mergerVars
<1>1. SurfaceTypeOK /\ LeaseMatchesQueues /\ DrawsAreApart /\ at \in [Thread -> ThreadState]
  BY DEF SurfaceInv, SurfaceTypeOK, ThreadState
<1>2. /\ at' \in [Thread -> ThreadState]
      /\ at'["raster"].pc = "preroll" /\ at'["raster"].task = at["raster"].task
      /\ at'["platform"] = at["platform"]
  BY <1>1, ThreadGoes DEF DrawPc, Thread
<1>3. SurfaceTypeOK'
  BY <1>1, <1>2 DEF SurfaceTypeOK, ThreadState
<1>4. LeaseMatchesQueues'
  BY <1>1 DEF LeaseMatchesQueues, IsMerged
<1>5. DrawsAreApart'
  BY <1>1, <1>2 DEF DrawsAreApart, Thread, DrawPc
<1>. QED BY <1>2, <1>3, <1>4, <1>5, DrawingKeeps

LEMMA OnAnimatorDrawKeeps ==
  ASSUME SurfaceInv, OnAnimatorDraw
  PROVE  SurfaceInv'
<1>. USE DEF OnAnimatorDraw, viewVars, embedderVars, waitVars, mergerVars
<1>1. SurfaceTypeOK /\ LeaseMatchesQueues /\ DrawsAreApart
  BY DEF SurfaceInv
<1>2. PICK d \in Draw : rasterTasks' = Append(rasterTasks, d)
  OBVIOUS
<1>3. rasterTasks' \in Seq(RasterTask)
  <2>1. d \in RasterTask /\ rasterTasks \in Seq(RasterTask)
    BY <1>1, TaskKinds DEF SurfaceTypeOK, RasterTask
  <2>. QED BY <1>2, <2>1, SeqFacts
<1>4. SurfaceTypeOK'
  BY <1>1, <1>3, SurfaceAssumption DEF SurfaceTypeOK, RasterTask
<1>5. LeaseMatchesQueues' /\ DrawsAreApart'
  BY <1>1 DEF LeaseMatchesQueues, IsMerged, DrawsAreApart
<1>. QED BY <1>2, <1>4, <1>5, DrawingKeeps

\* A Draw is taken on the thread that may draw now.
LEMMA RunDrawKeeps ==
  ASSUME SurfaceInv, NEW t \in Thread, RunDraw(t)
  PROVE  SurfaceInv'
<1>. USE DEF RunDraw, Takes, Doing, viewVars, embedderVars, waitVars, mergerVars
<1>1. /\ SurfaceTypeOK /\ LeaseMatchesQueues /\ DrawsAreApart /\ TasksAreInOrder
      /\ CallsAreInOrder /\ at \in [Thread -> ThreadState]
      /\ rasterTasks \in Seq(RasterTask)
  BY DEF SurfaceInv, SurfaceTypeOK, ThreadState, RasterTask
<1>2. Queued("setup") => surface' = 0 /\ ~merged'
  BY <1>1 DEF TasksAreInOrder, Queued
<1>3. /\ rasterTasks' \in Seq(RasterTask) /\ TasksAreInOrder'
      /\ Head(rasterTasks) \in RasterTask
      /\ Queued("setup")' <=> Queued("setup")
      /\ Queued("teardown")' <=> Queued("teardown")
  BY <1>1, <1>2, TaskTaken
<1>4. Head(rasterTasks) \in Draw
  BY <1>3, TaskKinds
<1>5. /\ at' \in [Thread -> ThreadState]
      /\ at'[t].pc = "draw" /\ at'[t].task \in Draw
      /\ \A u \in Thread \ {t} : at'[u] = at[u]
  BY <1>1, <1>4, ThreadMoves DEF DrawPc
<1>6. SurfaceTypeOK'
  BY <1>1, <1>3, <1>5 DEF SurfaceTypeOK, ThreadState, RasterTask
<1>7. LeaseMatchesQueues'
  BY <1>1 DEF LeaseMatchesQueues, IsMerged
<1>8. DrawsAreApart'
  <2>1. t = "raster" => ~same /\ ~merged
    BY DEF RasterLoop
  <2>2. t = "platform" => same \/ merged
    BY DEF RasterLoop
  <2>. QED BY <1>1, <1>5, <2>1, <2>2 DEF DrawsAreApart, Thread, DrawPc
<1>9. at'["platform"] = at["platform"] \/
        (at["platform"].pc \notin CallPc /\ at'["platform"].pc \notin CallPc)
  BY <1>5, NoCall DEF Thread, DrawPc
<1>10. CallsAreInOrder'
  BY <1>1, <1>3, <1>9, CallsKeep
<1>. QED BY <1>3, <1>6, <1>7, <1>8, <1>10 DEF SurfaceInv

\* A queued Setup is run by the raster thread, on no surface.
LEMMA RunSetupKeeps ==
  ASSUME SurfaceInv, NEW t \in Thread, RunSetup(t)
  PROVE  SurfaceInv'
<1>. USE DEF RunSetup, SetUp, SetEnabled, Takes, embedderVars, waitVars
<1>1. /\ SurfaceTypeOK /\ LeaseMatchesQueues /\ DrawsAreApart /\ TasksAreInOrder
      /\ CallsAreInOrder /\ rasterTasks \in Seq(RasterTask)
  BY DEF SurfaceInv, SurfaceTypeOK, RasterTask
<1>2. /\ rasterTasks' \in Seq(RasterTask) /\ TasksAreInOrder'
      /\ Head(rasterTasks) \in RasterTask
      /\ Queued("setup") /\ ~Queued("setup")'
      /\ Queued("teardown")' <=> Queued("teardown")
      /\ surface = 0 /\ ~same /\ ~merged
  BY <1>1, TaskTaken
<1>3. surface' \in 1..MaxViews
  BY <1>2, TaskKinds
<1>4. SurfaceTypeOK'
  BY <1>1, <1>2, <1>3, SurfaceAssumption DEF SurfaceTypeOK, RasterTask
<1>5. LeaseMatchesQueues'
  BY <1>1 DEF LeaseMatchesQueues, IsMerged
<1>6. DrawsAreApart'
  BY <1>1, <1>3 DEF DrawsAreApart, Thread, DrawPc
<1>7. CallsAreInOrder'
  <2>1. ~TornDown
    BY <1>2 DEF TornDown
  <2>2. at["platform"].pc # "unmerge" /\ ~destroyed
    BY <1>1, <1>2 DEF CallsAreInOrder, TornDown
  <2>. HIDE DEF TornDown
  <2>. QED BY <1>1, <1>2, <2>1, <2>2 DEF CallsAreInOrder, WaitPc
<1>. QED BY <1>2, <1>4, <1>5, <1>6, <1>7 DEF SurfaceInv

-----------------------------------------------------------------------------
(* The calls                                                                 *)

\* What a step of the platform thread's calls has to show, if it leaves the
\* raster tasks and the drawing threads alone.
LEMMA CallMoves ==
  ASSUME SurfaceInv, NEW pc \in {"idle"} \cup CallPc, at["platform"].pc \notin DrawPc,
         at' \in [Thread -> ThreadState], at'["platform"].pc = pc,
         at'["raster"] = at["raster"],
         UNCHANGED <<same, merged, lease, surface, hasMerger>>
  PROVE  DrawsAreApart'
<1>1. pc \notin DrawPc /\ DrawsAreApart
  BY NoCall DEF SurfaceInv
<1>. QED BY <1>1 DEF DrawsAreApart, Thread, DrawPc

LEMMA OnPlatformViewCreatedKeeps ==
  ASSUME SurfaceInv, OnPlatformViewCreated
  PROVE  SurfaceInv'
<1>. USE DEF OnPlatformViewCreated, DisableThreadMergerIfNeeded, SetEnabled, Doing,
         embedderVars, waitVars, mergerVars
<1>1. /\ SurfaceTypeOK /\ LeaseMatchesQueues /\ TasksAreInOrder /\ CallsAreInOrder
      /\ at \in [Thread -> ThreadState]
  BY DEF SurfaceInv, SurfaceTypeOK, ThreadState
<1>2. /\ at' \in [Thread -> ThreadState] /\ at'["platform"].pc = "create"
      /\ at'["raster"] = at["raster"]
  BY <1>1, ThreadGoes DEF CallPc, Thread
<1>3. /\ UNCHANGED <<same, merged, lease, checkFailed>>
      /\ enabled' = FALSE \/ enabled' = enabled
  OBVIOUS
<1>4. SurfaceTypeOK'
  <2>1. enabled' \in BOOLEAN
    BY <1>1, <1>3 DEF SurfaceTypeOK
  <2>2. created' \in 0..MaxViews
    BY <1>1, SurfaceAssumption DEF SurfaceTypeOK
  <2>. QED BY <1>1, <1>2, <1>3, <2>1, <2>2 DEF SurfaceTypeOK, ThreadState
<1>5. LeaseMatchesQueues'
  BY <1>1, <1>3 DEF LeaseMatchesQueues, IsMerged
<1>6. DrawsAreApart'
  BY <1>2, <1>3, NoCall, CallMoves DEF CallPc
<1>7. TasksAreInOrder'
  BY <1>1, <1>3 DEF TasksAreInOrder
<1>8. CallsAreInOrder'
  <2>1. TornDown /\ created' > 0 /\ ioTasks = <<>>
    BY <1>1 DEF CallsAreInOrder, WaitPc, SurfaceTypeOK
  <2>2. TornDown' /\ (Queued("teardown")' <=> Queued("teardown")) /\ ~Queued("teardown")
    BY <1>3, <2>1 DEF TornDown, Queued
  <2>. HIDE DEF TornDown
  <2>. QED BY <1>2, <2>1, <2>2 DEF CallsAreInOrder, WaitPc
<1>. QED BY <1>4, <1>5, <1>6, <1>7, <1>8 DEF SurfaceInv

LEMMA CreatedAsksIoKeeps ==
  ASSUME SurfaceInv, CreatedAsksIo
  PROVE  SurfaceInv'
<1>. USE DEF CreatedAsksIo, Doing, viewVars, embedderVars, mergerVars
<1>1. /\ SurfaceTypeOK /\ LeaseMatchesQueues /\ TasksAreInOrder /\ CallsAreInOrder
      /\ at \in [Thread -> ThreadState]
  BY DEF SurfaceInv, SurfaceTypeOK, ThreadState
<1>A. PICK post \in BOOLEAN : post = (RasterLoop = "raster")
  OBVIOUS
<1>B. PICK task \in Create : task = [job |-> "create", post |-> post]
  BY DEF Create
<1>C. PICK io \in IoCreated : io = [job |-> "created", post |-> post]
  BY DEF IoCreated
<1>2. /\ at' \in [Thread -> ThreadState] /\ at'["platform"].pc = "createWait"
      /\ at'["platform"].task = task
      /\ at'["raster"] = at["raster"]
  <2>1. Asks("platform", "createWait", task)
    BY <1>A, <1>B DEF Asks
  <2>2. /\ "createWait" \in {"idle"} \cup DrawPc \cup CallPc /\ "platform" \in Thread
        /\ task \in Draw \cup Create \cup {NoTask}
    BY DEF CallPc, WaitPc, Thread
  <2>3. /\ at' \in [Thread -> ThreadState] /\ at'["platform"].pc = "createWait"
        /\ at'["platform"].task = task
        /\ \A u \in Thread \ {"platform"} : at'[u] = at[u]
    BY <1>1, <2>1, <2>2, ThreadAsks
  <2>. QED BY <2>3 DEF Thread
<1>3. TornDown /\ ioTasks = <<>> /\ ~destroyed /\ created > 0
  BY <1>1 DEF CallsAreInOrder, WaitPc, CallPc
<1>4. ioTasks' = <<io>> /\ ~latch'
  BY <1>A, <1>C, <1>3
<1>5. SurfaceTypeOK'
  <2>1. ioTasks' \in Seq(IoCreated \cup {IoDestroyed})
    BY <1>4, OneElement
  <2>. QED BY <1>1, <1>2, <2>1 DEF SurfaceTypeOK, ThreadState
<1>6. LeaseMatchesQueues'
  BY <1>1 DEF LeaseMatchesQueues, IsMerged
<1>7. DrawsAreApart'
  BY <1>2, NoCall, CallMoves DEF CallPc, WaitPc
<1>8. TasksAreInOrder'
  BY <1>1 DEF TasksAreInOrder
<1>9. CallsAreInOrder'
  <2>1. TornDown' /\ (Queued("teardown")' <=> Queued("teardown"))
    BY <1>3 DEF TornDown, Queued
  <2>2. post => ~same
    BY <1>A DEF RasterLoop
  <2>3. task.post = post
    BY <1>B
  <2>. HIDE DEF TornDown
  <2>. QED BY <1>2, <1>3, <1>4, <1>C, <2>1, <2>2, <2>3 DEF CallsAreInOrder, WaitPc
<1>. QED BY <1>5, <1>6, <1>7, <1>8, <1>9 DEF SurfaceInv

LEMMA CreatedReturnsKeeps ==
  ASSUME SurfaceInv, CreatedReturns
  PROVE  SurfaceInv'
<1>. USE DEF CreatedReturns, Doing, viewVars, embedderVars, waitVars, mergerVars
<1>1. /\ SurfaceTypeOK /\ LeaseMatchesQueues /\ TasksAreInOrder /\ CallsAreInOrder
      /\ at \in [Thread -> ThreadState]
  BY DEF SurfaceInv, SurfaceTypeOK, ThreadState
<1>2. /\ at' \in [Thread -> ThreadState] /\ at'["raster"] = at["raster"]
      /\ \/ at["platform"].task.post /\ at'["platform"].pc = "idle"
         \/ ~at["platform"].task.post /\ at'["platform"].pc = "setup"
  <2>1. CASE at["platform"].task.post
    BY <1>1, <2>1, ThreadEnds DEF Thread
  <2>2. CASE ~at["platform"].task.post
    BY <1>1, <2>2, ThreadGoes DEF Thread, CallPc
  <2>. QED BY <2>1, <2>2
<1>3. SurfaceTypeOK'
  BY <1>1, <1>2 DEF SurfaceTypeOK, ThreadState
<1>4. LeaseMatchesQueues'
  BY <1>1 DEF LeaseMatchesQueues, IsMerged
<1>5. DrawsAreApart'
  <2>1. at["platform"].pc \notin DrawPc /\ at'["platform"].pc \in {"idle"} \cup CallPc
    BY <1>2 DEF DrawPc, CallPc
  <2>. QED BY <1>2, <2>1, CallMoves
<1>6. TasksAreInOrder'
  BY <1>1 DEF TasksAreInOrder
<1>7. CallsAreInOrder'
  <2>1. /\ ioTasks = <<>> /\ ~Queued("teardown") /\ ~destroyed /\ created > 0
        /\ at["platform"].task.post \/ TornDown
    BY <1>1 DEF CallsAreInOrder, CallPc, WaitPc
  <2>2. (TornDown' <=> TornDown) /\ (Queued("teardown")' <=> Queued("teardown"))
    BY DEF TornDown, Queued
  <2>. HIDE DEF TornDown
  <2>. QED BY <1>2, <2>1, <2>2 DEF CallsAreInOrder, WaitPc
<1>. QED BY <1>3, <1>4, <1>5, <1>6, <1>7 DEF SurfaceInv

LEMMA CreatedSetsUpKeeps ==
  ASSUME SurfaceInv, CreatedSetsUp
  PROVE  SurfaceInv'
<1>. USE DEF CreatedSetsUp, SetUp, SetEnabled, Doing, embedderVars, waitVars
<1>1. /\ SurfaceTypeOK /\ LeaseMatchesQueues /\ DrawsAreApart /\ TasksAreInOrder
      /\ CallsAreInOrder /\ at \in [Thread -> ThreadState]
  BY DEF SurfaceInv, SurfaceTypeOK, ThreadState
<1>2. /\ at' \in [Thread -> ThreadState] /\ at'["platform"].pc = "idle"
      /\ at'["raster"] = at["raster"]
  BY <1>1, ThreadEnds DEF Thread
<1>3. SurfaceTypeOK'
  BY <1>1, <1>2 DEF SurfaceTypeOK, ThreadState
<1>4. LeaseMatchesQueues'
  BY <1>1 DEF LeaseMatchesQueues, IsMerged
<1>5. DrawsAreApart'
  <2>1. surface = 0 /\ created > 0
    BY <1>1 DEF CallsAreInOrder, CallPc, TornDown
  <2>. QED BY <1>1, <1>2, <2>1 DEF DrawsAreApart, Thread, DrawPc, SurfaceTypeOK
<1>6. TornDown /\ ioTasks = <<>> /\ ~destroyed /\ created > 0
  BY <1>1 DEF CallsAreInOrder, CallPc, WaitPc
<1>7. \A job : Queued(job)' <=> Queued(job)
  BY DEF Queued
<1>8. TasksAreInOrder'
  BY <1>1, <1>6 DEF TasksAreInOrder, TornDown, Queued
<1>9. CallsAreInOrder'
  <2>1. ~Queued("teardown")'
    BY <1>6, <1>7 DEF TornDown
  <2>. QED BY <1>2, <1>6, <2>1 DEF CallsAreInOrder, CallPc, WaitPc
<1>. QED BY <1>3, <1>4, <1>5, <1>8, <1>9 DEF SurfaceInv

LEMMA OnPlatformViewDestroyedKeeps ==
  ASSUME SurfaceInv, OnPlatformViewDestroyed
  PROVE  SurfaceInv'
<1>. USE DEF OnPlatformViewDestroyed, DisableThreadMergerIfNeeded, SetEnabled, Doing,
         viewVars, embedderVars, waitVars, mergerVars
<1>1. /\ SurfaceTypeOK /\ LeaseMatchesQueues /\ TasksAreInOrder /\ CallsAreInOrder
      /\ at \in [Thread -> ThreadState]
  BY DEF SurfaceInv, SurfaceTypeOK, ThreadState
<1>2. /\ at' \in [Thread -> ThreadState] /\ at'["platform"].pc = "destroy"
      /\ at'["raster"] = at["raster"]
  BY <1>1, ThreadGoes DEF CallPc, Thread
<1>3. /\ UNCHANGED <<same, merged, lease, checkFailed>>
      /\ enabled' = FALSE \/ enabled' = enabled
  OBVIOUS
<1>4. SurfaceTypeOK'
  <2>1. enabled' \in BOOLEAN
    BY <1>1, <1>3 DEF SurfaceTypeOK
  <2>. QED BY <1>1, <1>2, <1>3, <2>1 DEF SurfaceTypeOK, ThreadState
<1>5. LeaseMatchesQueues'
  BY <1>1, <1>3 DEF LeaseMatchesQueues, IsMerged
<1>6. DrawsAreApart'
  BY <1>2, <1>3, NoCall, CallMoves DEF CallPc
<1>7. TasksAreInOrder'
  BY <1>1, <1>3 DEF TasksAreInOrder
<1>8. CallsAreInOrder'
  <2>1. ioTasks = <<>> /\ ~Queued("teardown") /\ created > 0
    BY <1>1 DEF CallsAreInOrder, WaitPc
  <2>2. Queued("teardown")' <=> Queued("teardown")
    BY DEF Queued
  <2>. QED BY <1>2, <2>1, <2>2 DEF CallsAreInOrder, WaitPc
<1>. QED BY <1>4, <1>5, <1>6, <1>7, <1>8 DEF SurfaceInv

LEMMA DestroyedReturnsKeeps ==
  ASSUME SurfaceInv, DestroyedReturns
  PROVE  SurfaceInv'
<1>. USE DEF DestroyedReturns, DestroyedLatch, Doing, waitVars, mergerVars
<1>1. /\ SurfaceTypeOK /\ LeaseMatchesQueues /\ TasksAreInOrder /\ CallsAreInOrder
      /\ at \in [Thread -> ThreadState]
  BY DEF SurfaceInv, SurfaceTypeOK, ThreadState
<1>2. /\ at' \in [Thread -> ThreadState] /\ at'["platform"].pc = "idle"
      /\ at'["raster"] = at["raster"]
  BY <1>1, ThreadEnds DEF Thread
<1>3. SurfaceTypeOK'
  BY <1>1, <1>2 DEF SurfaceTypeOK, ThreadState
<1>4. LeaseMatchesQueues'
  BY <1>1 DEF LeaseMatchesQueues, IsMerged
<1>5. DrawsAreApart'
  BY <1>2, CallMoves DEF DrawPc
<1>6. TasksAreInOrder'
  BY <1>1 DEF TasksAreInOrder
<1>7. CallsAreInOrder'
  <2>1. TornDown /\ ioTasks = <<>> /\ created > 0
    BY <1>1 DEF CallsAreInOrder, CallPc, WaitPc
  <2>2. TornDown' /\ ~Queued("teardown")'
    BY <2>1 DEF TornDown, Queued
  <2>. HIDE DEF TornDown
  <2>. QED BY <1>2, <2>1, <2>2 DEF CallsAreInOrder, CallPc, WaitPc
<1>. QED BY <1>3, <1>4, <1>5, <1>6, <1>7 DEF SurfaceInv

\* The IO thread answers a call that waits: it queues the Setup a creation
\* asked for, and signals the latch.
LEMMA RunIoTaskKeeps ==
  ASSUME SurfaceInv, RunIoTask
  PROVE  SurfaceInv'
<1>. USE DEF RunIoTask, viewVars, embedderVars, mergerVars
<1>1. /\ SurfaceTypeOK /\ LeaseMatchesQueues /\ DrawsAreApart /\ TasksAreInOrder
      /\ CallsAreInOrder /\ rasterTasks \in Seq(RasterTask)
  BY DEF SurfaceInv, SurfaceTypeOK, RasterTask
<1>2. /\ TornDown /\ ~latch /\ ~destroyed /\ created > 0
      /\ \/ /\ at["platform"].pc = "createWait"
            /\ ioTasks = <<[job |-> "created", post |-> at["platform"].task.post]>>
         \/ at["platform"].pc = "destroyWait" /\ ioTasks = <<IoDestroyed>>
  BY <1>1 DEF CallsAreInOrder, CallPc, WaitPc
<1>3. ioTasks' = <<>> /\ latch' = TRUE
  <2>1. PICK x : ioTasks = <<x>>
    BY <1>2
  <2>. QED BY <2>1, OneTaken
<1>4. LeaseMatchesQueues' /\ DrawsAreApart'
  BY <1>1 DEF LeaseMatchesQueues, IsMerged, DrawsAreApart
<1>5. CASE at["platform"].pc = "createWait" /\ at["platform"].task.post
  <2>1. /\ ~same
        /\ rasterTasks' = Append(rasterTasks, [job |-> "setup", view |-> created])
    BY <1>1, <1>2, <1>5 DEF CallsAreInOrder
  <2>2. PICK x \in RasterTask : x.job = "setup" /\ rasterTasks' = Append(rasterTasks, x)
    <3>1. created \in 1..MaxViews
      BY <1>1, <1>2 DEF SurfaceTypeOK
    <3>2. /\ [job |-> "setup", view |-> created] \in RasterTask
          /\ [job |-> "setup", view |-> created].job = "setup"
      BY <3>1, TaskKinds
    <3>. QED BY <2>1, <3>2
  <2>3. /\ rasterTasks' \in Seq(RasterTask) /\ TasksAreInOrder'
        /\ ~Queued("teardown")'
    BY <1>1, <1>2, <2>1, <2>2, TaskPosted DEF TornDown
  <2>4. SurfaceTypeOK'
    BY <1>1, <1>3, <2>3 DEF SurfaceTypeOK, RasterTask
  <2>5. CallsAreInOrder'
    BY <1>1, <1>2, <1>3, <1>5, <2>3 DEF CallsAreInOrder, WaitPc
  <2>. QED BY <1>4, <2>3, <2>4, <2>5 DEF SurfaceInv
<1>6. CASE ~(at["platform"].pc = "createWait" /\ at["platform"].task.post)
  <2>1. ~(Head(ioTasks).job = "created" /\ Head(ioTasks).post)
    BY <1>2, <1>6 DEF IoDestroyed
  <2>2. rasterTasks' = rasterTasks
    BY <2>1
  <2>3. SurfaceTypeOK' /\ TasksAreInOrder'
    BY <1>1, <1>3, <2>2 DEF SurfaceTypeOK, TasksAreInOrder
  <2>4. TornDown' /\ ~Queued("teardown")'
    BY <1>2, <2>2 DEF TornDown, Queued
  <2>5. CallsAreInOrder'
    <3>. HIDE DEF TornDown
    <3>. QED BY <1>1, <1>2, <1>3, <1>6, <2>4 DEF CallsAreInOrder, WaitPc
  <2>. QED BY <1>4, <2>3, <2>5 DEF SurfaceInv
<1>. QED BY <1>5, <1>6

\* Teardown, on whichever thread: until the threads are unmerged, if they are.
LEMMA TearDownMoves ==
  ASSUME SurfaceInv, NEW t \in Thread, TearDown(t), latch' \in BOOLEAN,
         UNCHANGED <<embedderVars, drawn>>,
         rasterTasks' \in Seq(RasterTask), ~Queued("setup")', ~Queued("teardown")',
         TasksAreInOrder',
         ioTasks = <<>>, ~destroyed, ~latch', created > 0,
         at[t].pc \in {"idle", "destroy"}, at["platform"].pc \notin DrawPc,
         at["raster"].pc \in Front => t = "raster" /\ at["raster"].pc = "idle",
         t = "platform" => same \/ merged,
         t = "raster" => ~same /\ ~merged /\ at["platform"].pc = "destroyWait"
  PROVE  SurfaceInv'
<1>. USE DEF TearDown, SetEnabled, embedderVars
<1>1. /\ SurfaceTypeOK /\ LeaseMatchesQueues /\ DrawsAreApart
      /\ at \in [Thread -> ThreadState]
  BY DEF SurfaceInv, SurfaceTypeOK, ThreadState
<1>2. /\ UNCHANGED <<same, merged, lease, checkFailed, created, destroyed, hasMerger>>
      /\ enabled' = TRUE /\ surface' = 0
  OBVIOUS
<1>3. IsMerged <=> same \/ merged
  BY <1>1 DEF LeaseMatchesQueues, IsMerged
<1>4. /\ at' \in [Thread -> ThreadState]
      /\ \A u \in Thread \ {t} : at'[u] = at[u]
      /\ \/ t = "platform" /\ at'[t].pc = "unmerge" /\ ioTasks' = <<>>
         \/ t = "raster" /\ at'[t].pc = "idle" /\ ioTasks' = <<IoDestroyed>>
  <2>1. CASE t = "platform"
    <3>1. Goes(t, "unmerge") /\ ioTasks' = ioTasks
      BY <1>3, <2>1
    <3>. QED BY <1>1, <2>1, <3>1, ThreadGoes DEF CallPc
  <2>2. CASE t = "raster"
    <3>1. Ends(t) /\ ioTasks' = <<IoDestroyed>>
      BY <1>3, <2>2 DEF AfterTeardown
    <3>. QED BY <1>1, <2>2, <3>1, ThreadEnds
  <2>. QED BY <2>1, <2>2 DEF Thread
<1>. HIDE DEF TearDown
<1>5. SurfaceTypeOK'
  <2>1. ioTasks' \in Seq(IoCreated \cup {IoDestroyed})
    <3>1. <<>> \in Seq(IoCreated \cup {IoDestroyed})
      OBVIOUS
    <3>. QED BY <1>4, <3>1, OneElement
  <2>2. surface' \in 0..MaxViews
    BY <1>2, SurfaceAssumption
  <2>. QED BY <1>1, <1>2, <1>4, <2>1, <2>2 DEF SurfaceTypeOK, ThreadState, RasterTask
<1>6. LeaseMatchesQueues'
  BY <1>1, <1>2 DEF LeaseMatchesQueues, IsMerged
<1>7. DrawsAreApart'
  BY <1>1, <1>2, <1>4 DEF DrawsAreApart, Thread, DrawPc, Front
<1>8. CallsAreInOrder'
  <2>1. CASE t = "platform"
    BY <1>2, <1>4, <2>1 DEF CallsAreInOrder, WaitPc
  <2>2. CASE t = "raster"
    <3>1. TornDown' /\ at'["platform"] = at["platform"]
      BY <1>2, <1>4, <2>2 DEF TornDown, Thread
    <3>. QED BY <1>2, <1>4, <2>2, <3>1 DEF CallsAreInOrder, WaitPc
  <2>. QED BY <2>1, <2>2 DEF Thread
<1>. QED BY <1>5, <1>6, <1>7, <1>8 DEF SurfaceInv

\* Only the raster thread runs a posted Teardown: the platform thread waits.
LEMMA RunTeardownKeeps ==
  ASSUME SurfaceInv, NEW t \in Thread, RunTeardown(t)
  PROVE  SurfaceInv'
<1>. USE DEF RunTeardown, Takes, Doing
<1>1. /\ SurfaceTypeOK /\ DrawsAreApart /\ TasksAreInOrder /\ CallsAreInOrder
      /\ rasterTasks \in Seq(RasterTask)
  BY DEF SurfaceInv, SurfaceTypeOK, RasterTask
<1>2. same' = same /\ merged' = merged /\ surface' = 0
  BY DEF TearDown, SetEnabled
<1>3. Queued("setup") => ~merged'
  BY <1>1, <1>2 DEF TasksAreInOrder, Queued
<1>4. /\ rasterTasks' \in Seq(RasterTask) /\ TasksAreInOrder'
      /\ Queued("teardown") /\ ~Queued("setup")' /\ ~Queued("teardown")'
  BY <1>1, <1>2, <1>3, TaskTaken
<1>5. /\ at["platform"].pc = "destroyWait"
      /\ ioTasks = <<>> /\ ~latch /\ ~destroyed /\ created > 0
  BY <1>1, <1>4 DEF CallsAreInOrder, TornDown, WaitPc, CallPc
<1>6. t = "raster" /\ ~same /\ ~merged
  BY <1>5 DEF RasterLoop, Thread
<1>7. latch' \in BOOLEAN /\ ~latch' /\ UNCHANGED <<embedderVars, drawn>>
  BY <1>1, <1>5 DEF SurfaceTypeOK
<1>8. at["raster"].pc = "idle" /\ TearDown(t)
  BY <1>6
<1>9. at["platform"].pc \notin DrawPc /\ at["raster"].pc \notin Front
  BY <1>5, <1>8 DEF DrawPc, Front
<1>. HIDE DEF RunTeardown
<1>. QED BY <1>4, <1>5, <1>6, <1>7, <1>8, <1>9, TearDownMoves

LEMMA DestroyedTearsDownKeeps ==
  ASSUME SurfaceInv, DestroyedTearsDown
  PROVE  SurfaceInv'
<1>. USE DEF DestroyedTearsDown, Doing
<1>1. /\ SurfaceTypeOK /\ LeaseMatchesQueues /\ DrawsAreApart /\ TasksAreInOrder
      /\ CallsAreInOrder
      /\ at \in [Thread -> ThreadState] /\ rasterTasks \in Seq(RasterTask)
  BY DEF SurfaceInv, SurfaceTypeOK, ThreadState, RasterTask
<1>2. /\ ioTasks = <<>> /\ ~destroyed /\ created > 0 /\ ~Queued("teardown")
  BY <1>1 DEF CallsAreInOrder, CallPc, WaitPc
<1>3. CASE RasterLoop = "platform" /\ TearDown("platform") /\ UNCHANGED rasterTasks
  <2>1. same \/ merged
    BY <1>3 DEF RasterLoop
  <2>2. ~Queued("setup") /\ at["raster"].pc \notin Front
    BY <1>1, <2>1 DEF TasksAreInOrder, Queued, DrawsAreApart, Front
  <2>3. TasksAreInOrder' /\ ~Queued("setup")' /\ ~Queued("teardown")'
    BY <1>1, <1>2, <1>3, <2>2 DEF TasksAreInOrder, Queued
  <2>. QED BY <1>1, <1>2, <1>3, <2>1, <2>2, <2>3, TearDownMoves DEF Thread, DrawPc
<1>4. CASE /\ RasterLoop = "raster" /\ rasterTasks' = Append(rasterTasks, Teardown)
           /\ Goes("platform", "destroyWait")
           /\ UNCHANGED <<mergerVars, viewVars, ioTasks>>
  <2>. USE DEF mergerVars, viewVars, embedderVars
  <2>1. /\ at' \in [Thread -> ThreadState] /\ at'["platform"].pc = "destroyWait"
        /\ at'["raster"] = at["raster"]
    BY <1>1, <1>4, ThreadGoes DEF Thread, CallPc, WaitPc
  <2>2. /\ rasterTasks' \in Seq(RasterTask) /\ TasksAreInOrder' /\ Queued("teardown")'
    <3>1. Teardown \in RasterTask /\ Teardown.job = "teardown"
      BY TaskKinds
    <3>2. UNCHANGED <<same, merged, surface>> /\ rasterTasks' = Append(rasterTasks, Teardown)
      BY <1>4
    <3>. QED BY <1>1, <1>2, <3>1, <3>2, TaskPosted
  <2>3. SurfaceTypeOK'
    BY <1>1, <1>4, <2>1, <2>2 DEF SurfaceTypeOK, ThreadState, RasterTask
  <2>4. LeaseMatchesQueues'
    BY <1>1, <1>4 DEF LeaseMatchesQueues, IsMerged
  <2>5. DrawsAreApart'
    BY <1>4, <2>1, CallMoves DEF DrawPc, CallPc, WaitPc
  <2>6. CallsAreInOrder'
    BY <1>2, <1>4, <2>1, <2>2 DEF CallsAreInOrder, WaitPc
  <2>. QED BY <2>2, <2>3, <2>4, <2>5, <2>6 DEF SurfaceInv
<1>. QED BY <1>3, <1>4

\* The rest of Teardown, which only the platform thread comes to: a lease is
\* running, so the queues can be given back.
LEMMA UnmergeKeeps ==
  ASSUME SurfaceInv, NEW t \in Thread, Unmerge(t)
  PROVE  SurfaceInv'
<1>. USE DEF Unmerge, Doing, viewVars, embedderVars
<1>1. /\ SurfaceTypeOK /\ LeaseMatchesQueues /\ DrawsAreApart /\ TasksAreInOrder
      /\ CallsAreInOrder /\ at \in [Thread -> ThreadState]
  BY DEF SurfaceInv, SurfaceTypeOK, ThreadState
<1>2. t = "platform"
  BY <1>1 DEF DrawsAreApart, Thread, DrawPc
<1>3. /\ surface = 0 /\ ~Queued("setup") /\ (same \/ merged) /\ enabled /\ ~latch
      /\ ioTasks = <<>> /\ ~Queued("teardown") /\ ~destroyed /\ created > 0
  BY <1>1, <1>2 DEF CallsAreInOrder, CallPc, WaitPc
<1>4. /\ UNCHANGED <<same, enabled>> /\ ~merged' /\ ~checkFailed'
      /\ merged' \in BOOLEAN /\ checkFailed' \in BOOLEAN
      /\ lease' = lease \/ lease' = NoRecord
      /\ ~same => lease' = NoRecord
  <2>1. CASE same
    <3>1. UNCHANGED mergerVars
      BY <1>3, <2>1 DEF UnMergeNowIfLastOne
    <3>. QED BY <1>1, <2>1, <3>1
         DEF mergerVars, DrawsAreApart, LeaseMatchesQueues, SurfaceTypeOK
  <2>2. CASE ~same
    BY <1>3, <2>2 DEF UnMergeNowIfLastOne, UnMergeNow
  <2>. QED BY <2>1, <2>2
<1>5. /\ at' \in [Thread -> ThreadState] /\ at'["platform"].pc = "destroyWait"
      /\ at'["raster"] = at["raster"] /\ ioTasks' = <<IoDestroyed>>
  <2>1. Goes("platform", "destroyWait") /\ ioTasks' = <<IoDestroyed>>
    BY <1>2, <1>3 DEF AfterTeardown
  <2>. QED BY <1>1, <2>1, ThreadGoes DEF Thread, CallPc, WaitPc
<1>6. SurfaceTypeOK'
  <2>1. ioTasks' \in Seq(IoCreated \cup {IoDestroyed})
    BY <1>5, OneElement
  <2>2. lease' \in NoRecord..LeaseTerm
    BY <1>1, <1>4, LeaseAssumption DEF SurfaceTypeOK, NoRecord
  <2>. QED BY <1>1, <1>4, <1>5, <2>1, <2>2 DEF SurfaceTypeOK, ThreadState
<1>7. LeaseMatchesQueues'
  BY <1>4 DEF LeaseMatchesQueues, IsMerged, NoRecord
<1>8. DrawsAreApart'
  BY <1>1, <1>2, <1>3, <1>4, <1>5 DEF DrawsAreApart, Thread, DrawPc
<1>9. TasksAreInOrder'
  BY <1>1, <1>3 DEF TasksAreInOrder, Queued
<1>10. CallsAreInOrder'
  <2>1. TornDown'
    BY <1>3, <1>4 DEF TornDown, Queued
  <2>. QED BY <1>3, <1>5, <2>1 DEF CallsAreInOrder, WaitPc
<1>. QED BY <1>6, <1>7, <1>8, <1>9, <1>10 DEF SurfaceInv

-----------------------------------------------------------------------------
LEMMA SurfaceStart == SurfaceInit => SurfaceInv
<1> SUFFICES ASSUME SurfaceInit PROVE SurfaceInv
  OBVIOUS
<1>. USE DEF SurfaceInit, MergerInit
<1>1. \A t \in Thread : at[t].pc = "idle"
  BY DEF Idle
<1>2. rasterTasks = <<>> /\ ioTasks = <<>> /\ \A job : ~Queued(job)
  BY DEF Queued
<1>3. SurfaceTypeOK
  <2>1. /\ rasterTasks \in Seq(Draw \cup Setup \cup {Teardown})
        /\ ioTasks \in Seq(IoCreated \cup {IoDestroyed})
    BY <1>2
  <2>2. at \in [Thread -> ThreadState]
    BY DEF Idle, ThreadState
  <2>3. lease \in NoRecord..LeaseTerm
    BY LeaseAssumption DEF NoRecord
  <2>4. created \in 0..MaxViews /\ surface \in 0..MaxViews /\ drawn \in 0..MaxDraws
    BY SurfaceAssumption
  <2>. QED BY <2>1, <2>2, <2>3, <2>4 DEF SurfaceTypeOK, ThreadState
<1>4. LeaseMatchesQueues
  BY DEF LeaseMatchesQueues, IsMerged, NoRecord
<1>5. DrawsAreApart
  BY <1>1 DEF DrawsAreApart, Thread, DrawPc
<1>6. TasksAreInOrder
  BY <1>2 DEF TasksAreInOrder
<1>7. CallsAreInOrder
  BY <1>1, <1>2 DEF CallsAreInOrder, CallPc, WaitPc, TornDown, Thread
<1>. QED BY <1>3, <1>4, <1>5, <1>6, <1>7 DEF SurfaceInv

LEMMA NothingMoves ==
  ASSUME SurfaceInv, UNCHANGED surfaceVars
  PROVE  SurfaceInv'
BY DEF surfaceVars, mergerVars, viewVars, embedderVars, waitVars, SurfaceInv, SurfaceTypeOK,
   LeaseMatchesQueues, IsMerged, DrawsAreApart, TasksAreInOrder, CallsAreInOrder, TornDown,
   Queued

LEMMA SurfaceStep ==
  ASSUME SurfaceInv, [SurfaceNext]_surfaceVars
  PROVE  SurfaceInv'
<1>1. ASSUME NEW t \in Thread, ThreadStep(t) PROVE SurfaceInv'
  <2>1. CASE DrawStep(t)
    BY <2>1, PrepareKeeps, PrerollKeeps, MergeKeeps, ExtendKeeps, CleanKeeps, LeaseKeeps,
       ResubmitKeeps DEF DrawStep
  <2>. QED BY <1>1, <2>1, RunSetupKeeps, RunTeardownKeeps, RunDrawKeeps, UnmergeKeeps
       DEF ThreadStep
<1>2. CASE CallStep
  BY <1>2, CreatedAsksIoKeeps, CreatedReturnsKeeps, CreatedSetsUpKeeps,
     DestroyedTearsDownKeeps, DestroyedReturnsKeeps DEF CallStep
<1>. QED BY <1>1, <1>2, OnPlatformViewCreatedKeeps, OnPlatformViewDestroyedKeeps,
     OnAnimatorDrawKeeps, ReleaseLayersKeeps, RunIoTaskKeeps, NothingMoves DEF SurfaceNext

\* The inductive invariant (shell.cc:964-1098, rasterizer.cc:130-170, 215-275):
\* at every step of the two calls it is known what is queued for the other
\* threads and which of them draws.
THEOREM SurfacesInOrder == SurfaceSpec => []SurfaceInv
<1>1. SurfaceInv /\ [SurfaceNext]_surfaceVars => SurfaceInv'
  BY SurfaceStep
<1>. QED BY <1>1, SurfaceStart, PTL DEF SurfaceSpec

\* What follows from the invariant.
LEMMA WhatIsKnown ==
  ASSUME SurfaceInv
  PROVE  DestroyIsFinal /\ UnmergedWhenDestroyed /\ LatchOutlivesTasks
<1>. USE DEF SurfaceInv
<1>1. \A i \in 1..Len(rasterTasks) :
        /\ rasterTasks[i] \in RasterTask
        /\ rasterTasks[i].job \in {"draw", "setup", "teardown"}
  <2>1. rasterTasks \in Seq(RasterTask)
    BY DEF SurfaceTypeOK, RasterTask
  <2>2. \A i \in 1..Len(rasterTasks) : rasterTasks[i] \in RasterTask
    BY <2>1
  <2>. QED BY <2>2, TaskKinds
<1>2. DestroyIsFinal
  <2>1. ASSUME destroyed
        PROVE  surface = 0 /\ ioTasks = <<>> /\ ~Queued("setup") /\ ~Queued("teardown")
    BY <2>1 DEF CallsAreInOrder, TornDown, CallPc
  <2>. QED BY <1>1, <2>1 DEF DestroyIsFinal, Queued
<1>3. UnmergedWhenDestroyed
  BY DEF UnmergedWhenDestroyed, CallsAreInOrder, TornDown, LeaseMatchesQueues
<1>4. LatchOutlivesTasks
  <2>1. ASSUME ioTasks # <<>> \/ Queued("teardown")
        PROVE  at["platform"].pc \in WaitPc /\ ~latch
    BY <2>1 DEF CallsAreInOrder, TornDown, WaitPc
  <2>2. (\E i \in 1..Len(rasterTasks) : rasterTasks[i] = Teardown) => Queued("teardown")
    BY DEF Queued, Teardown
  <2>. QED BY <2>1, <2>2 DEF LatchOutlivesTasks
<1>. QED BY <1>2, <1>3, <1>4

\* Once OnPlatformViewDestroyed has returned there is no surface, and nothing
\* that is queued gives the rasterizer one (shell.cc:1066-1072).
THEOREM DestroysAreFinal == SurfaceSpec => []DestroyIsFinal
BY SurfacesInOrder, WhatIsKnown, PTL

\* Teardown unmerges the threads: no lease outlives its view (shell.cc:1091-1093).
THEOREM DestroysUnmerge == SurfaceSpec => []UnmergedWhenDestroyed
BY SurfacesInOrder, WhatIsKnown, PTL

\* No FML_CHECK of the merger fails: whatever draws, merges, ends a lease or
\* tears down, its leases and the task queues agree
\* (shared_thread_merger.cc:29, 37-42).
THEOREM LeasesMatchQueues == SurfaceSpec => []LeaseMatchesQueues
<1>1. SurfaceInv => LeaseMatchesQueues
  BY DEF SurfaceInv
<1>. QED BY <1>1, SurfacesInOrder, PTL

\* No task signals a latch whose call has returned: the latch is on the
\* platform thread's stack (shell.cc:975-984, 1066-1090).
THEOREM LatchesOutliveTasks == SurfaceSpec => []LatchOutlivesTasks
BY SurfacesInOrder, WhatIsKnown, PTL

=============================================================================
