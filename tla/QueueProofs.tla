---------------------------- MODULE QueueProofs ----------------------------
(***************************************************************************)
(* Proofs about the task queues.  NoLostWakeup is judged loop by loop: an  *)
(* action either leaves a loop no new task and its timer alone             *)
(* (StillAwake), or it arms the loop's timer (WokenIsArmed).  Which of the *)
(* two it is depends on who is merged into whom (MergesAreFlat) and, at    *)
(* the end of a vsync task, on which loop can be running it (VsyncInv).    *)
(***************************************************************************)
EXTENDS TaskQueues, FiniteSetTheorems, WellFoundedInduction, TLAPS

\* A non-empty set of numbers has a least element.
LEMMA LeastNumber ==
    ASSUME NEW T \in SUBSET Nat, T # {}
    PROVE  \E j \in T : \A i \in T : j <= i
<1>1. PICK j \in T : \A i \in T : ~(<<i, j>> \in OpToRel(<, Nat))
  BY WFMin, NatLessThanWellFounded
<1>2. ASSUME NEW i \in T PROVE j <= i
  <2>1. ~(i < j)
    BY <1>1 DEF OpToRel
  <2> QED BY <2>1
<1> QED BY <1>2

Numbered(S) == \A t, u \in S : t.order = u.order => t = u

\* The first of some tasks, numbered as they were posted, is one of them and
\* none is due before it.
LEMMA TopIsFirst ==
    ASSUME NEW S \in SUBSET Task, S # {}, Numbered(S)
    PROVE  Top(S) \in S /\ \A t \in S : Top(S).due <= t.due
<1> DEFINE dues == {t.due : t \in S}
<1>1. dues \in SUBSET Nat /\ dues # {}
  BY DEF Task
<1>2. PICK d \in dues : \A e \in dues : d <= e
  BY <1>1, LeastNumber
<1> DEFINE firsts == {t \in S : t.due = d}
           orders == {t.order : t \in firsts}
<1>3. orders \in SUBSET Nat /\ orders # {}
  BY <1>2 DEF Task
<1>4. PICK o \in orders : \A e \in orders : o <= e
  BY <1>3, LeastNumber
<1>5. PICK t \in firsts : t.order = o
  BY <1>4
<1>6. ASSUME NEW u \in S PROVE u = t \/ Before(t, u)
  <2>1. t \in Task /\ u \in Task /\ t \in S /\ t.due = d
    BY <1>5
  <2>2. t.due \in Nat /\ u.due \in Nat /\ t.order \in Nat /\ u.order \in Nat
    BY <2>1 DEF Task
  <2>3. t.due <= u.due
    BY <1>2, <2>1
  <2>4. CASE u.due = t.due
    <3>1. t.order <= u.order
      BY <1>4, <1>5, <2>1, <2>4
    <3>2. t.order = u.order => t = u
      BY <2>1 DEF Numbered
    <3> QED BY <2>2, <2>4, <3>1, <3>2 DEF Before
  <2> QED BY <2>2, <2>3, <2>4 DEF Before
<1>7. Top(S) \in S /\ \A u \in S : u = Top(S) \/ Before(Top(S), u)
  BY <1>5, <1>6 DEF Top
<1>8. ASSUME NEW u \in S PROVE Top(S).due <= u.due
  <2>1. Top(S).due \in Nat /\ u.due \in Nat
    BY <1>7 DEF Task
  <2> QED BY <1>7, <2>1 DEF Before
<1> QED BY <1>7, <1>8

-----------------------------------------------------------------------------
(* The inductive invariant                                                   *)

\* Tasks are numbered as they are posted, and only finitely many are waiting.
TasksNumbered ==
  /\ IsFiniteSet(tasks)
  /\ Numbered(tasks)
  /\ \A t \in tasks : t.order < order

Running(x) == loop[x].pc = "run"

\* A vsync task is of a UI queue and runs on the one loop that queue has.
VsyncInv ==
  /\ \A x \in Queue : Running(x) => loop[x].task \in Task
  /\ \A t \in tasks : t.job = "vsync" => t.queue \in UiQueue
  /\ \A x \in Queue : Running(x) /\ loop[x].task.job = "vsync" =>
        /\ loop[x].task.queue \in UiQueue
        /\ x = LoopToWake(loop[x].task.queue)

QueueInv == QueueTypeOK /\ MergesAreFlat /\ NoLostWakeup /\ PausedForVsync
              /\ TasksNumbered /\ VsyncInv

AwakeFor(q) ==
  \A t \in Pending(q) : loop[q].pc = "idle" => wake[q] # Never /\ wake[q] <= t.due

LEMMA AwakeForAll == NoLostWakeup <=> \A q \in Queue : AwakeFor(q)
BY DEF NoLostWakeup, AwakeFor

\* Whatever is pending is a waiting task.
LEMMA PendingAreTasks ==
    ASSUME NEW q \in Queue, QueueTypeOK, TasksNumbered
    PROVE  Pending(q) \in SUBSET Task /\ Pending(q) \subseteq tasks /\ Numbered(Pending(q))
<1>1. Pending(q) \subseteq tasks
  BY DEF Pending, Offered
<1> QED BY <1>1 DEF QueueTypeOK, TasksNumbered, Numbered

\* Woken arms the timer of q for its first task and touches no other timer.
LEMMA WokenIsArmed ==
    ASSUME NEW q \in Queue, NEW w \in [Queue -> Nat \cup {Never}],
           Pending(q)' \in SUBSET Task, Numbered(Pending(q)')
    PROVE  /\ Woken(w, q) \in [Queue -> Nat \cup {Never}]
           /\ \A r \in Queue \ {q} : Woken(w, q)[r] = w[r]
           /\ \A t \in Pending(q)' : Woken(w, q)[q] # Never /\ Woken(w, q)[q] <= t.due
<1> DEFINE S == Pending(q)'
<1>1. CASE S = {}
  BY <1>1 DEF Woken
<1>2. CASE S # {}
  <2>1. Top(S) \in S /\ \A t \in S : Top(S).due <= t.due
    BY <1>2, TopIsFirst
  <2>2. Top(S).due \in Nat
    BY <2>1 DEF Task
  <2>3. Woken(w, q) = [w EXCEPT ![q] = Top(S).due]
    BY <1>2 DEF Woken
  <2> HIDE DEF S
  <2>4. Woken(w, q)[q] = Top(S).due /\ Top(S).due # Never
    BY <2>2, <2>3 DEF Never
  <2> QED BY <2>1, <2>2, <2>3, <2>4 DEF S
<1> QED BY <1>1, <1>2

\* A loop that gets no new task and keeps its timer needs no waking.
LEMMA StillAwake ==
    ASSUME NEW r \in Queue, NoLostWakeup, Pending(r)' \subseteq Pending(r),
           wake'[r] = wake[r], loop'[r].pc = "idle" => loop[r].pc = "idle"
    PROVE  AwakeFor(r)'
BY DEF AwakeFor, NoLostWakeup

-----------------------------------------------------------------------------
(* Tasks come                                                                *)

\* A new task wakes the loop that will run it; no other loop gets a task.
LEMMA RegisterTaskWakes ==
    ASSUME QueueInv, NEW q \in Queue, NEW due \in Nat, NEW grade \in Grade,
           NEW job \in {"other", "vsync"}, RegisterTask(q, due, grade, job)
    PROVE  /\ tasks' \in SUBSET Task /\ order' \in Nat
           /\ wake' \in [Queue -> Nat \cup {Never}]
           /\ TasksNumbered' /\ NoLostWakeup' /\ MergesAreFlat'
<1> USE QueueAssumption
<1> DEFINE new == [queue |-> q, order |-> order, due |-> due, grade |-> grade, job |-> job]
           x   == LoopToWake(q)
<1>1. new \in Task /\ tasks' = tasks \cup {new} /\ order' = order + 1
  BY DEF RegisterTask, Task, QueueInv, QueueTypeOK
<1>2. order \in Nat /\ tasks \in SUBSET Task
  BY DEF QueueInv, QueueTypeOK
<1>3. tasks' \in SUBSET Task /\ order' \in Nat
  BY <1>1, <1>2
<1>4. TasksNumbered'
  <2>1. IsFiniteSet(tasks')
    BY <1>1, FS_AddElement DEF QueueInv, TasksNumbered
  <2>2. ASSUME NEW t \in tasks PROVE t.order \in Nat /\ t.order < order
    BY <1>2 DEF Task, QueueInv, TasksNumbered
  <2>3. new.order = order
    OBVIOUS
  <2>4. \A t \in tasks' : t.order < order'
    BY <1>1, <1>2, <2>2, <2>3
  <2>5. Numbered(tasks')
    BY <1>1, <1>2, <2>2, <2>3 DEF Numbered, QueueInv, TasksNumbered
  <2> QED BY <2>1, <2>4, <2>5 DEF TasksNumbered
<1>5. MergesAreFlat'
  BY DEF RegisterTask, QueueInv, MergesAreFlat
<1>6. x \in Queue
  BY DEF LoopToWake, QueueInv, QueueTypeOK
<1>7. \A r \in Queue : Pending(r)' \in SUBSET Task /\ Numbered(Pending(r)')
  <2>1. ASSUME NEW r \in Queue PROVE Pending(r)' \subseteq tasks'
    BY DEF Pending, Offered
  <2> QED BY <1>3, <1>4, <2>1 DEF TasksNumbered, Numbered
<1>8. wake \in [Queue -> Nat \cup {Never}] /\ wake' = Woken(wake, x)
  BY DEF RegisterTask, QueueInv, QueueTypeOK
<1>9. wake' \in [Queue -> Nat \cup {Never}]
  BY <1>6, <1>7, <1>8, WokenIsArmed
<1>10. ASSUME NEW r \in Queue PROVE AwakeFor(r)'
  <2>1. CASE r = x
    BY <1>6, <1>7, <1>8, <2>1, WokenIsArmed DEF AwakeFor
  <2>2. CASE r # x
    <3>1. wake'[r] = wake[r]
      BY <1>6, <1>7, <1>8, <2>2, WokenIsArmed
    <3>2. q \notin {r} \cup ownerOf[r] \/ subsumedBy[r] # kUnmerged
      BY <2>2 DEF LoopToWake, QueueInv, MergesAreFlat
    <3>3. \A p \in Queue : p # q => Offered(p)' = Offered(p)
      BY <1>1 DEF Offered, RegisterTask
    <3>4. ownerOf[r] \subseteq Queue
      BY DEF QueueInv, QueueTypeOK
    <3>5. Pending(r)' = Pending(r)
      <4>1. subsumedBy' = subsumedBy /\ ownerOf' = ownerOf
        BY DEF RegisterTask
      <4>2. CASE subsumedBy[r] # kUnmerged
        BY <4>1, <4>2 DEF Pending
      <4>3. CASE subsumedBy[r] = kUnmerged
        <5>1. \A p \in {r} \cup ownerOf[r] : Offered(p)' = Offered(p)
          BY <3>2, <3>3, <3>4, <4>3
        <5> QED BY <4>1, <5>1 DEF Pending
      <4> QED BY <4>2, <4>3
    <3>6. loop' = loop
      BY DEF RegisterTask
    <3> QED BY <3>1, <3>5, <3>6, StillAwake DEF QueueInv
  <2> QED BY <2>1, <2>2
<1>11. NoLostWakeup'
  BY <1>10 DEF NoLostWakeup, AwakeFor
<1> QED BY <1>3, <1>4, <1>5, <1>9, <1>11

LEMMA PostTaskKeeps ==
    ASSUME QueueInv, NEW q \in Queue, PostTask(q)
    PROVE  QueueInv'
<1> USE QueueAssumption
<1>1. PICK delay \in Delay, grade \in Grade :
         RegisterTask(q, now + delay, grade, "other") /\ UNCHANGED firing
  BY DEF PostTask
<1>2. now + delay \in Nat
  BY DEF QueueInv, QueueTypeOK
<1>3. /\ tasks' \in SUBSET Task /\ order' \in Nat
      /\ wake' \in [Queue -> Nat \cup {Never}]
      /\ TasksNumbered' /\ NoLostWakeup' /\ MergesAreFlat'
  BY <1>1, <1>2, RegisterTaskWakes
<1>4. UNCHANGED <<subsumedBy, ownerOf, pauses, loop, now, firing>>
  BY <1>1 DEF RegisterTask
<1>5. QueueTypeOK'
  BY <1>3, <1>4 DEF QueueInv, QueueTypeOK
<1>6. \A r \in Queue : VsyncTasks(r)' = VsyncTasks(r) /\ VsyncRunning(r)' = VsyncRunning(r)
  BY <1>1, <1>4 DEF VsyncTasks, VsyncRunning, RegisterTask
<1>7. PausedForVsync'
  BY <1>4, <1>6 DEF QueueInv, PausedForVsync
<1>8. VsyncInv'
  BY <1>1, <1>4 DEF QueueInv, VsyncInv, RegisterTask, LoopToWake, Running
<1> QED BY <1>3, <1>5, <1>7, <1>8 DEF QueueInv

\* What the pauses are counted with is finite; a queue's vsync task runs on
\* one loop at most.
LEMMA VsyncCounts ==
    ASSUME QueueInv, NEW q \in Queue
    PROVE  /\ IsFiniteSet(VsyncTasks(q)) /\ IsFiniteSet(VsyncRunning(q))
           /\ IsFiniteSet(firing \cap {q})
           /\ VsyncRunning(q) = {} \/ VsyncRunning(q) = {LoopToWake(q)}
<1>1. IsFiniteSet(VsyncTasks(q))
  <2>1. VsyncTasks(q) \subseteq tasks
    BY DEF VsyncTasks
  <2> QED BY <2>1, FS_Subset DEF QueueInv, TasksNumbered
<1>2. VsyncRunning(q) = {} \/ VsyncRunning(q) = {LoopToWake(q)}
  BY DEF VsyncRunning, QueueInv, VsyncInv, Running
<1>3. IsFiniteSet({LoopToWake(q)}) /\ IsFiniteSet({})
  BY FS_Singleton, FS_EmptySet
<1>4. firing \cap {q} = {} \/ firing \cap {q} = {q}
  OBVIOUS
<1>5. IsFiniteSet({q})
  BY FS_Singleton
<1> QED BY <1>1, <1>2, <1>3, <1>4, <1>5

LEMMA FireCallbackKeeps ==
    ASSUME QueueInv, NEW q \in UiQueue, FireCallback(q)
    PROVE  QueueInv'
<1> USE QueueAssumption
<1>1. UNCHANGED <<tasks, order, subsumedBy, ownerOf, wake, loop, now>>
  BY DEF FireCallback
<1>2. q \in Queue /\ q \notin firing /\ firing' = firing \cup {q}
      /\ pauses' = [pauses EXCEPT ![q] = @ + 1] /\ pauses \in [Queue -> Nat]
  BY DEF FireCallback, QueueInv, QueueTypeOK
<1>3. QueueTypeOK'
  <2>1. pauses' \in [Queue -> Nat]
    BY <1>2
  <2> QED BY <1>1, <1>2, <2>1 DEF QueueInv, QueueTypeOK
<1>4. NoLostWakeup'
  <2>1. ASSUME NEW r \in Queue PROVE Pending(r)' \subseteq Pending(r)
    <3>1. \A p \in Queue : Offered(p)' \subseteq Offered(p)
      BY <1>1, <1>2 DEF Offered
    <3>2. ownerOf[r] \subseteq Queue
      BY DEF QueueInv, QueueTypeOK
    <3> QED BY <1>1, <3>1, <3>2 DEF Pending
  <2>2. \A r \in Queue : AwakeFor(r)'
    BY <1>1, <2>1, StillAwake DEF QueueInv
  <2> QED BY <2>2 DEF NoLostWakeup, AwakeFor
<1>5. PausedForVsync'
  <2>1. ASSUME NEW r \in Queue
        PROVE  pauses'[r] = Cardinality(firing' \cap {r}) + Cardinality(VsyncTasks(r)')
                              + Cardinality(VsyncRunning(r)')
    <3>1. VsyncTasks(r)' = VsyncTasks(r) /\ VsyncRunning(r)' = VsyncRunning(r)
      BY <1>1 DEF VsyncTasks, VsyncRunning
    <3>2. pauses[r] = Cardinality(firing \cap {r}) + Cardinality(VsyncTasks(r))
                        + Cardinality(VsyncRunning(r))
      BY DEF QueueInv, PausedForVsync
    <3>3. CASE r = q
      <4>1. firing \cap {r} = {} /\ firing' \cap {r} = {q}
        BY <1>2, <3>3
      <4>2. Cardinality({}) = 0 /\ Cardinality({q}) = 1
        BY FS_EmptySet, FS_Singleton
      <4>3. Cardinality(VsyncTasks(r)) \in Nat /\ Cardinality(VsyncRunning(r)) \in Nat
        BY VsyncCounts, FS_CardinalityType
      <4>4. pauses'[r] = pauses[r] + 1
        BY <1>2, <3>3
      <4>5. Cardinality(VsyncTasks(r)') = Cardinality(VsyncTasks(r))
            /\ Cardinality(VsyncRunning(r)') = Cardinality(VsyncRunning(r))
        BY <3>1
      <4>6. Cardinality(firing \cap {r}) = 0 /\ Cardinality(firing' \cap {r}) = 1
        BY <4>1, <4>2
      <4> QED BY <3>2, <4>3, <4>4, <4>5, <4>6
    <3>4. CASE r # q
      <4>1. firing' \cap {r} = firing \cap {r} /\ pauses'[r] = pauses[r]
        BY <1>2, <3>4
      <4> QED BY <3>1, <3>2, <4>1
    <3> QED BY <3>3, <3>4
  <2> QED BY <2>1 DEF PausedForVsync
<1>6. MergesAreFlat' /\ TasksNumbered' /\ VsyncInv'
  BY <1>1 DEF QueueInv, MergesAreFlat, TasksNumbered, VsyncInv, LoopToWake, Running
<1> QED BY <1>3, <1>4, <1>5, <1>6 DEF QueueInv

LEMMA PostVsyncKeeps ==
    ASSUME QueueInv, NEW q \in UiQueue, PostVsync(q)
    PROVE  QueueInv'
<1> USE QueueAssumption
<1>1. /\ q \in Queue /\ q \in firing /\ firing' = firing \ {q} /\ now \in Nat
      /\ RegisterTask(q, now, "unspecified", "vsync")
  BY DEF PostVsync, QueueInv, QueueTypeOK
<1>2. /\ tasks' \in SUBSET Task /\ order' \in Nat
      /\ wake' \in [Queue -> Nat \cup {Never}]
      /\ TasksNumbered' /\ NoLostWakeup' /\ MergesAreFlat'
  BY <1>1, RegisterTaskWakes DEF Grade
<1>3. UNCHANGED <<subsumedBy, ownerOf, pauses, loop, now>>
  BY <1>1 DEF RegisterTask
<1>4. QueueTypeOK'
  BY <1>1, <1>2, <1>3 DEF QueueInv, QueueTypeOK
<1> DEFINE new == [queue |-> q, order |-> order, due |-> now,
                   grade |-> "unspecified", job |-> "vsync"]
<1>5. tasks' = tasks \cup {new}
  BY <1>1 DEF RegisterTask
<1>6. new \notin tasks
  <2>1. \A t \in tasks : t.order \in Nat /\ t.order < order
    BY DEF QueueInv, QueueTypeOK, Task, TasksNumbered
  <2>2. new.order = order
    OBVIOUS
  <2> HIDE DEF new
  <2> QED BY <2>1, <2>2 DEF QueueInv, QueueTypeOK
<1>7. PausedForVsync'
  <2>1. ASSUME NEW r \in Queue
        PROVE  pauses'[r] = Cardinality(firing' \cap {r}) + Cardinality(VsyncTasks(r)')
                              + Cardinality(VsyncRunning(r)')
    <3>1. VsyncRunning(r)' = VsyncRunning(r)
      BY <1>3 DEF VsyncRunning
    <3>2. pauses[r] = Cardinality(firing \cap {r}) + Cardinality(VsyncTasks(r))
                        + Cardinality(VsyncRunning(r))
      BY DEF QueueInv, PausedForVsync
    <3>3. CASE r = q
      <4>1. firing \cap {r} = {q} /\ firing' \cap {r} = {}
        BY <1>1, <3>3
      <4>2. Cardinality({}) = 0 /\ Cardinality({q}) = 1
        BY FS_EmptySet, FS_Singleton
      <4>3. VsyncTasks(r)' = VsyncTasks(r) \cup {new} /\ new \notin VsyncTasks(r)
        BY <1>5, <1>6, <3>3 DEF VsyncTasks
      <4>4. IsFiniteSet(VsyncTasks(r))
        BY VsyncCounts
      <4>5. Cardinality(VsyncTasks(r)') = Cardinality(VsyncTasks(r)) + 1
        BY <4>3, <4>4, FS_AddElement
      <4>6. Cardinality(VsyncTasks(r)) \in Nat /\ Cardinality(VsyncRunning(r)) \in Nat
        BY VsyncCounts, FS_CardinalityType
      <4> QED BY <1>3, <3>1, <3>2, <4>1, <4>2, <4>5, <4>6
    <3>4. CASE r # q
      <4>1. firing' \cap {r} = firing \cap {r}
        BY <1>1, <3>4
      <4>2. VsyncTasks(r)' = VsyncTasks(r)
        BY <1>5, <3>4 DEF VsyncTasks
      <4> QED BY <1>3, <3>1, <3>2, <4>1, <4>2
    <3> QED BY <3>3, <3>4
  <2> QED BY <2>1 DEF PausedForVsync
<1>8. VsyncInv'
  BY <1>3, <1>5 DEF QueueInv, VsyncInv, LoopToWake, Running
<1> QED BY <1>2, <1>4, <1>7, <1>8 DEF QueueInv

-----------------------------------------------------------------------------
(* Queues are merged and given back                                          *)

\* Neither changes what the pauses are counted with.
LEMMA SameCounts ==
    ASSUME QueueInv, UNCHANGED <<tasks, order, pauses, firing, loop, now>>
    PROVE  PausedForVsync' /\ TasksNumbered'
<1>1. \A q \in Queue : VsyncTasks(q)' = VsyncTasks(q) /\ VsyncRunning(q)' = VsyncRunning(q)
  BY DEF VsyncTasks, VsyncRunning
<1>2. PausedForVsync'
  BY <1>1 DEF QueueInv, PausedForVsync
<1>3. TasksNumbered'
  BY DEF QueueInv, TasksNumbered
<1> QED BY <1>2, <1>3

\* The owner is woken for the tasks it gets; the subsumed loop has none left.
LEMMA MergeKeeps ==
    ASSUME QueueInv, NEW owner \in Queue, NEW subsumed \in Queue, Merge(owner, subsumed)
    PROVE  QueueInv'
<1> USE QueueAssumption
<1>1. /\ UNCHANGED <<tasks, order, pauses, firing, loop, now>>
      /\ owner # subsumed /\ subsumedBy[owner] = kUnmerged /\ subsumedBy[subsumed] = kUnmerged
      /\ ownerOf[subsumed] = {}
      /\ ownerOf' = [ownerOf EXCEPT ![owner] = @ \cup {subsumed}]
      /\ subsumedBy' = [subsumedBy EXCEPT ![subsumed] = owner]
      /\ wake' = Woken(wake, owner)
  BY DEF Merge, MayMerge
<1>2. /\ subsumedBy \in [Queue -> Queue \cup {kUnmerged}]
      /\ ownerOf \in [Queue -> SUBSET Queue]
      /\ wake \in [Queue -> Nat \cup {Never}]
      /\ tasks \in SUBSET Task
  BY DEF QueueInv, QueueTypeOK
<1>3. Pending(owner)' \in SUBSET Task /\ Numbered(Pending(owner)')
  <2>1. Pending(owner)' \subseteq tasks'
    BY DEF Pending, Offered
  <2> QED BY <1>1, <1>2, <2>1 DEF QueueInv, TasksNumbered, Numbered
<1>4. QueueTypeOK'
  <2>1. wake' \in [Queue -> Nat \cup {Never}]
    BY <1>1, <1>2, <1>3, WokenIsArmed
  <2> QED BY <1>1, <1>2, <2>1 DEF QueueInv, QueueTypeOK
<1>5. MergesAreFlat'
  <2>1. ASSUME NEW p \in Queue, NEW q \in Queue
        PROVE  /\ q \in ownerOf'[p] <=> subsumedBy'[q] = p
               /\ q \in ownerOf'[p] => subsumedBy'[p] = kUnmerged /\ ownerOf'[q] = {}
    <3>1. /\ q \in ownerOf[p] <=> subsumedBy[q] = p
          /\ q \in ownerOf[p] => subsumedBy[p] = kUnmerged /\ ownerOf[q] = {}
          /\ subsumed \in ownerOf[p] <=> subsumedBy[subsumed] = p
          /\ owner \in ownerOf[p] <=> subsumedBy[owner] = p
      BY DEF QueueInv, MergesAreFlat
    <3> QED BY <1>1, <1>2, <3>1
  <2> QED BY <2>1 DEF MergesAreFlat
<1>6. NoLostWakeup'
  <2>1. ASSUME NEW r \in Queue PROVE AwakeFor(r)'
    <3>1. CASE r = owner
      BY <1>1, <1>2, <1>3, <3>1, WokenIsArmed DEF AwakeFor
    <3>2. CASE r # owner
      <4>1. wake'[r] = wake[r]
        BY <1>1, <1>2, <1>3, <3>2, WokenIsArmed
      <4>2. \A p \in Queue : Offered(p)' = Offered(p)
        BY <1>1 DEF Offered
      <4>3. ownerOf'[r] = ownerOf[r] /\ ownerOf[r] \subseteq Queue
        BY <1>1, <1>2, <3>2
      <4>4. subsumedBy'[r] = kUnmerged => subsumedBy[r] = kUnmerged
        BY <1>1, <1>2
      <4>5. Pending(r)' \subseteq Pending(r)
        BY <4>2, <4>3, <4>4 DEF Pending
      <4> QED BY <1>1, <4>1, <4>5, StillAwake DEF QueueInv
    <3> QED BY <3>1, <3>2
  <2> QED BY <2>1 DEF NoLostWakeup, AwakeFor
<1>7. VsyncInv'
  <2>1. ASSUME NEW x \in Queue, Running(x), loop[x].task.job = "vsync"
        PROVE  x = LoopToWake(loop[x].task.queue)'
    <3>1. x = LoopToWake(loop[x].task.queue) /\ loop[x].task.queue \in Queue
      BY <2>1 DEF QueueInv, VsyncInv
    <3>2. loop[subsumed].task.job = "other"
      BY DEF Merge, InHandler
    <3>3. loop[x].task.queue # subsumed
      BY <1>1, <2>1, <3>1, <3>2 DEF LoopToWake
    <3>4. subsumedBy'[loop[x].task.queue] = subsumedBy[loop[x].task.queue]
      BY <1>1, <1>2, <3>1, <3>3
    <3> QED BY <1>1, <3>1, <3>4 DEF LoopToWake
  <2> QED BY <1>1, <2>1 DEF QueueInv, VsyncInv, Running
<1>8. PausedForVsync' /\ TasksNumbered'
  BY <1>1, SameCounts
<1> QED BY <1>4, <1>5, <1>6, <1>7, <1>8 DEF QueueInv

\* Both loops are woken; no vsync task of the queue is under way.
LEMMA UnmergeKeeps ==
    ASSUME QueueInv, NEW owner \in Queue, NEW subsumed \in Queue, Unmerge(owner, subsumed)
    PROVE  QueueInv'
<1> USE QueueAssumption
<1>1. /\ UNCHANGED <<tasks, order, pauses, firing, loop, now>>
      /\ subsumed \in ownerOf[owner] /\ subsumedBy[owner] = kUnmerged
      /\ ownerOf' = [ownerOf EXCEPT ![owner] = @ \ {subsumed}]
      /\ subsumedBy' = [subsumedBy EXCEPT ![subsumed] = kUnmerged]
      /\ wake' = Woken(Woken(wake, owner), subsumed)
  BY DEF Unmerge, WokenByUnmerge
<1>2. /\ subsumedBy \in [Queue -> Queue \cup {kUnmerged}]
      /\ ownerOf \in [Queue -> SUBSET Queue]
      /\ wake \in [Queue -> Nat \cup {Never}]
      /\ tasks \in SUBSET Task
  BY DEF QueueInv, QueueTypeOK
<1>3. subsumedBy[subsumed] = owner /\ ownerOf[subsumed] = {} /\ owner # subsumed
  BY <1>1, <1>2 DEF QueueInv, MergesAreFlat
<1>4. \A r \in Queue : Pending(r)' \in SUBSET Task /\ Numbered(Pending(r)')
  <2>1. ASSUME NEW r \in Queue PROVE Pending(r)' \subseteq tasks'
    BY DEF Pending, Offered
  <2> QED BY <1>1, <1>2, <2>1 DEF QueueInv, TasksNumbered, Numbered
<1> DEFINE first == Woken(wake, owner)
<1>5. /\ first \in [Queue -> Nat \cup {Never}]
      /\ \A r \in Queue \ {owner} : first[r] = wake[r]
      /\ \A t \in Pending(owner)' : first[owner] # Never /\ first[owner] <= t.due
  BY <1>2, <1>4, WokenIsArmed
<1>6. /\ wake' \in [Queue -> Nat \cup {Never}]
      /\ \A r \in Queue \ {subsumed} : wake'[r] = first[r]
      /\ \A t \in Pending(subsumed)' : wake'[subsumed] # Never /\ wake'[subsumed] <= t.due
  <2> HIDE DEF first
  <2>1. wake' = Woken(first, subsumed)
    BY <1>1 DEF first
  <2> QED BY <1>4, <1>5, <2>1, WokenIsArmed
<1>7. QueueTypeOK'
  BY <1>1, <1>2, <1>6 DEF QueueInv, QueueTypeOK
<1>8. MergesAreFlat'
  <2>1. ASSUME NEW p \in Queue, NEW q \in Queue
        PROVE  /\ q \in ownerOf'[p] <=> subsumedBy'[q] = p
               /\ q \in ownerOf'[p] => subsumedBy'[p] = kUnmerged /\ ownerOf'[q] = {}
    <3>1. /\ q \in ownerOf[p] <=> subsumedBy[q] = p
          /\ q \in ownerOf[p] => subsumedBy[p] = kUnmerged /\ ownerOf[q] = {}
      BY DEF QueueInv, MergesAreFlat
    <3> QED BY <1>1, <1>2, <1>3, <3>1
  <2> QED BY <2>1 DEF MergesAreFlat
<1>9. NoLostWakeup'
  <2>1. ASSUME NEW r \in Queue PROVE AwakeFor(r)'
    <3>1. CASE r = owner
      BY <1>3, <1>5, <1>6, <3>1 DEF AwakeFor
    <3>2. CASE r = subsumed
      BY <1>6, <3>2 DEF AwakeFor
    <3>3. CASE r # owner /\ r # subsumed
      <4>1. wake'[r] = wake[r]
        BY <1>5, <1>6, <3>3
      <4>2. \A p \in Queue : Offered(p)' = Offered(p)
        BY <1>1 DEF Offered
      <4>3. ownerOf'[r] = ownerOf[r] /\ ownerOf[r] \subseteq Queue
        BY <1>1, <1>2, <3>3
      <4>4. subsumedBy'[r] = subsumedBy[r]
        BY <1>1, <1>2, <3>3
      <4>5. Pending(r)' \subseteq Pending(r)
        BY <4>2, <4>3, <4>4 DEF Pending
      <4> QED BY <1>1, <4>1, <4>5, StillAwake DEF QueueInv
    <3> QED BY <3>1, <3>2, <3>3
  <2> QED BY <2>1 DEF NoLostWakeup, AwakeFor
<1>10. VsyncInv'
  <2>1. ASSUME NEW x \in Queue, Running(x), loop[x].task.job = "vsync"
        PROVE  x = LoopToWake(loop[x].task.queue)'
    <3>1. /\ x = LoopToWake(loop[x].task.queue)
          /\ loop[x].task.queue \in Queue /\ loop[x].task.queue \in UiQueue
      BY <2>1 DEF QueueInv, VsyncInv
    <3>2. loop[x].task.queue # subsumed
      <4>1. SUFFICES ASSUME loop[x].task.queue = subsumed PROVE FALSE
        OBVIOUS
      <4>2. x = owner /\ subsumed \in UiQueue
        BY <1>2, <1>3, <3>1, <4>1 DEF LoopToWake
      <4>3. InHandler(owner)
        BY <4>2 DEF Unmerge
      <4> QED BY <2>1, <4>2, <4>3 DEF InHandler, Running
    <3>3. subsumedBy'[loop[x].task.queue] = subsumedBy[loop[x].task.queue]
      BY <1>1, <1>2, <3>1, <3>2
    <3> QED BY <1>1, <3>1, <3>3 DEF LoopToWake
  <2> QED BY <1>1, <2>1 DEF QueueInv, VsyncInv, Running
<1>11. PausedForVsync' /\ TasksNumbered'
  BY <1>1, SameCounts
<1> QED BY <1>7, <1>8, <1>9, <1>10, <1>11 DEF QueueInv

-----------------------------------------------------------------------------
(* The loops run                                                             *)

LEMMA OnEventFiredKeeps ==
    ASSUME QueueInv, NEW q \in Queue, OnEventFired(q)
    PROVE  QueueInv'
<1>1. /\ UNCHANGED <<tasks, order, subsumedBy, ownerOf, pauses, firing, now>>
      /\ wake' = [wake EXCEPT ![q] = Never]
      /\ loop' = [loop EXCEPT ![q] = [pc |-> "flush", from |-> now, task |-> NoTask]]
      /\ loop[q].pc = "idle"
  BY DEF OnEventFired
<1>2. wake \in [Queue -> Nat \cup {Never}] /\ loop \in [Queue -> Loop] /\ now \in Nat
  BY DEF QueueInv, QueueTypeOK
<1>3. \A r \in Queue : Pending(r)' = Pending(r)
  BY <1>1 DEF Pending, Offered
<1>4. QueueTypeOK'
  <2>1. wake' \in [Queue -> Nat \cup {Never}]
    BY <1>1, <1>2
  <2>2. loop' \in [Queue -> Loop]
    BY <1>1, <1>2 DEF Loop
  <2> QED BY <1>1, <2>1, <2>2 DEF QueueInv, QueueTypeOK
<1>5. NoLostWakeup'
  <2>1. ASSUME NEW r \in Queue PROVE AwakeFor(r)'
    <3>1. CASE r = q
      BY <1>1, <1>2, <3>1 DEF AwakeFor
    <3>2. CASE r # q
      <4>1. wake'[r] = wake[r] /\ loop'[r] = loop[r]
        BY <1>1, <1>2, <3>2
      <4> QED BY <1>3, <4>1, StillAwake DEF QueueInv
    <3> QED BY <3>1, <3>2
  <2> QED BY <2>1 DEF NoLostWakeup, AwakeFor
<1>6. \A r \in Queue : Running(r)' <=> Running(r)
  BY <1>1, <1>2 DEF Running
<1>7. \A r \in Queue : Running(r) => loop'[r] = loop[r]
  BY <1>1, <1>2 DEF Running
<1>8. VsyncInv'
  BY <1>1, <1>6, <1>7 DEF QueueInv, VsyncInv, LoopToWake
<1>9. PausedForVsync'
  <2>1. \A r \in Queue : VsyncTasks(r)' = VsyncTasks(r)
    BY <1>1 DEF VsyncTasks
  <2>2. \A r \in Queue : VsyncRunning(r)' = VsyncRunning(r)
    BY <1>6, <1>7 DEF VsyncRunning, Running
  <2> QED BY <1>1, <2>1, <2>2 DEF QueueInv, PausedForVsync
<1>10. MergesAreFlat' /\ TasksNumbered'
  BY <1>1 DEF QueueInv, MergesAreFlat, TasksNumbered
<1> QED BY <1>4, <1>5, <1>8, <1>9, <1>10 DEF QueueInv

\* The loop takes the first of its tasks, or sleeps with its timer armed.
LEMMA GetNextTaskToRunKeeps ==
    ASSUME QueueInv, NEW q \in Queue, GetNextTaskToRun(q)
    PROVE  QueueInv'
<1> USE QueueAssumption
<1> DEFINE top   == Top(Pending(q))
           taken == Pending(q) # {} /\ top.due <= loop[q].from
<1>1. /\ UNCHANGED <<order, subsumedBy, ownerOf, pauses, firing, now>>
      /\ loop[q].pc = "flush"
      /\ wake' = IF Pending(q) # {} THEN [wake EXCEPT ![q] = top.due] ELSE wake
      /\ tasks' = IF taken THEN tasks \ {top} ELSE tasks
      /\ loop' = [loop EXCEPT ![q] = IF taken THEN [@ EXCEPT !.pc = "run", !.task = top]
                                    ELSE Asleep]
  BY DEF GetNextTaskToRun
<1>2. /\ wake \in [Queue -> Nat \cup {Never}] /\ loop \in [Queue -> Loop]
      /\ tasks \in SUBSET Task
      /\ subsumedBy \in [Queue -> Queue \cup {kUnmerged}]
      /\ ownerOf \in [Queue -> SUBSET Queue]
  BY DEF QueueInv, QueueTypeOK
<1>3. Pending(q) # {} => /\ top \in Pending(q) /\ top \in tasks /\ top \in Task
                         /\ \A t \in Pending(q) : top.due <= t.due
  BY PendingAreTasks, TopIsFirst DEF QueueInv
<1>4. taken => /\ top.queue \in {q} \cup ownerOf[q] /\ subsumedBy[q] = kUnmerged
               /\ top.queue \in Queue
  BY <1>2, <1>3 DEF Pending, Offered
<1>5. taken => q = LoopToWake(top.queue)
  BY <1>4 DEF LoopToWake, QueueInv, MergesAreFlat
<1> HIDE DEF top
<1>6. QueueTypeOK'
  <2>1. wake' \in [Queue -> Nat \cup {Never}]
    BY <1>1, <1>2, <1>3 DEF Task
  <2>2. loop' \in [Queue -> Loop]
    BY <1>1, <1>2, <1>3 DEF Loop, Asleep
  <2>3. tasks' \in SUBSET Task
    BY <1>1, <1>2
  <2> QED BY <1>1, <2>1, <2>2, <2>3 DEF QueueInv, QueueTypeOK
<1>7. \A r \in Queue : Pending(r)' \subseteq Pending(r)
  <2>1. \A p \in Queue : Offered(p)' \subseteq Offered(p)
    BY <1>1 DEF Offered
  <2> QED BY <1>1, <1>2, <2>1 DEF Pending
<1>8. NoLostWakeup'
  <2>1. ASSUME NEW r \in Queue PROVE AwakeFor(r)'
    <3>1. CASE r = q
      <4>1. ASSUME NEW t \in Pending(q)', loop'[q].pc = "idle"
            PROVE  wake'[q] # Never /\ wake'[q] <= t.due
        <5>1. t \in Pending(q)
          BY <1>7, <4>1
        <5>2. wake'[q] = top.due
          BY <1>1, <1>2, <5>1
        <5>3. top.due \in Nat /\ top.due <= t.due
          BY <1>3, <5>1 DEF Task
        <5> QED BY <5>2, <5>3 DEF Never
      <4> QED BY <3>1, <4>1 DEF AwakeFor
    <3>2. CASE r # q
      <4>1. wake'[r] = wake[r] /\ loop'[r] = loop[r]
        BY <1>1, <1>2, <3>2
      <4> QED BY <1>7, <4>1, StillAwake DEF QueueInv
    <3> QED BY <3>1, <3>2
  <2> QED BY <2>1 DEF NoLostWakeup, AwakeFor
<1>9. taken => loop'[q].pc = "run" /\ loop'[q].task = top
  BY <1>1, <1>2 DEF Loop
<1>10. ~taken => loop'[q].pc = "idle"
  BY <1>1, <1>2 DEF Asleep
<1>11. \A r \in Queue \ {q} : loop'[r] = loop[r]
  BY <1>1, <1>2
<1>12. VsyncInv'
  <2>1. \A x \in Queue : Running(x)' => loop'[x].task \in Task
    BY <1>3, <1>9, <1>10, <1>11 DEF QueueInv, VsyncInv, Running
  <2>2. \A t \in tasks' : t.job = "vsync" => t.queue \in UiQueue
    BY <1>1 DEF QueueInv, VsyncInv
  <2>3. ASSUME NEW x \in Queue, loop'[x].pc = "run", loop'[x].task.job = "vsync"
        PROVE  loop'[x].task.queue \in UiQueue /\ x = LoopToWake(loop'[x].task.queue)
    <3>1. CASE x = q
      BY <1>3, <1>5, <1>9, <1>10, <2>3, <3>1 DEF QueueInv, VsyncInv
    <3>2. CASE x # q
      BY <1>11, <2>3, <3>2 DEF QueueInv, VsyncInv, Running
    <3> QED BY <3>1, <3>2
  <2> QED BY <1>1, <2>1, <2>2, <2>3 DEF VsyncInv, Running, LoopToWake
<1>13. TasksNumbered'
  <2>1. IsFiniteSet(tasks')
    BY <1>1, FS_RemoveElement DEF QueueInv, TasksNumbered
  <2> QED BY <1>1, <2>1 DEF QueueInv, TasksNumbered, Numbered
<1>14. PausedForVsync'
  <2>1. ASSUME NEW r \in Queue
        PROVE  Cardinality(VsyncTasks(r)') + Cardinality(VsyncRunning(r)')
                 = Cardinality(VsyncTasks(r)) + Cardinality(VsyncRunning(r))
    <3>1. CASE taken /\ top.job = "vsync" /\ top.queue = r
      <4>1. VsyncTasks(r)' = VsyncTasks(r) \ {top} /\ top \in VsyncTasks(r)
        BY <1>1, <1>3, <3>1 DEF VsyncTasks
      <4>2. VsyncRunning(r) = {}
        BY <1>1, <1>5, <3>1, VsyncCounts DEF VsyncRunning
      <4>3. VsyncRunning(r)' = {q}
        <5>1. q \in VsyncRunning(r)'
          BY <1>9, <3>1 DEF VsyncRunning
        <5>2. ASSUME NEW x \in VsyncRunning(r)', x # q PROVE FALSE
          BY <1>11, <4>2, <5>2 DEF VsyncRunning
        <5> QED BY <5>1, <5>2
      <4>4. Cardinality(VsyncTasks(r) \ {top}) = Cardinality(VsyncTasks(r)) - 1
            /\ Cardinality(VsyncTasks(r)) \in Nat
        BY <4>1, VsyncCounts, FS_RemoveElement, FS_CardinalityType
      <4>5. Cardinality(VsyncRunning(r)) = 0 /\ Cardinality(VsyncRunning(r)') = 1
        BY <4>2, <4>3, FS_EmptySet, FS_Singleton
      <4> QED BY <4>1, <4>4, <4>5
    <3>2. CASE ~(taken /\ top.job = "vsync" /\ top.queue = r)
      <4>1. VsyncTasks(r)' = VsyncTasks(r)
        BY <1>1, <3>2 DEF VsyncTasks
      <4>2. VsyncRunning(r)' = VsyncRunning(r)
        <5>1. q \notin VsyncRunning(r)'
          BY <1>9, <1>10, <3>2 DEF VsyncRunning
        <5>2. q \notin VsyncRunning(r)
          BY <1>1 DEF VsyncRunning
        <5> QED BY <1>11, <5>1, <5>2 DEF VsyncRunning
      <4> QED BY <4>1, <4>2
    <3> QED BY <3>1, <3>2
  <2>2. ASSUME NEW r \in Queue
        PROVE  /\ Cardinality(VsyncTasks(r)) \in Nat /\ Cardinality(VsyncRunning(r)) \in Nat
               /\ Cardinality(firing \cap {r}) \in Nat
               /\ Cardinality(VsyncTasks(r)') \in Nat /\ Cardinality(VsyncRunning(r)') \in Nat
    <3>1. IsFiniteSet(VsyncTasks(r)')
      <4>1. VsyncTasks(r)' \subseteq tasks'
        BY DEF VsyncTasks
      <4> QED BY <1>13, <4>1, FS_Subset DEF TasksNumbered
    <3>2. IsFiniteSet(VsyncRunning(r)')
      <4>1. VsyncRunning(r)' \subseteq {LoopToWake(r)'}
        BY <1>12 DEF VsyncRunning, VsyncInv, Running
      <4> QED BY <4>1, FS_Subset, FS_Singleton
    <3> QED BY <3>1, <3>2, VsyncCounts, FS_CardinalityType
  <2>3. \A r \in Queue :
          pauses[r] = Cardinality(firing \cap {r}) + Cardinality(VsyncTasks(r))
                        + Cardinality(VsyncRunning(r))
    BY DEF QueueInv, PausedForVsync
  <2>4. ASSUME NEW r \in Queue
        PROVE  pauses[r] = Cardinality(firing \cap {r}) + Cardinality(VsyncTasks(r)')
                             + Cardinality(VsyncRunning(r)')
    BY <2>1, <2>2, <2>3
  <2> QED BY <1>1, <2>4 DEF PausedForVsync
<1>15. MergesAreFlat'
  BY <1>1 DEF QueueInv, MergesAreFlat
<1> QED BY <1>6, <1>8, <1>12, <1>13, <1>14, <1>15 DEF QueueInv

\* What every task does as it returns.
LEMMA BackToTheLoop ==
    ASSUME QueueInv, NEW q \in Queue, TaskReturns(q)
    PROVE  /\ UNCHANGED <<tasks, order, subsumedBy, ownerOf, firing, now>>
           /\ loop' \in [Queue -> Loop]
           /\ loop[q].pc = "run" /\ loop'[q].pc = "flush"
           /\ \A r \in Queue \ {q} : loop'[r] = loop[r]
           /\ VsyncInv' /\ TasksNumbered' /\ MergesAreFlat'
<1>1. /\ UNCHANGED <<tasks, order, subsumedBy, ownerOf, firing, now>>
      /\ loop[q].pc = "run"
      /\ loop' = [loop EXCEPT ![q].pc = "flush", ![q].task = NoTask]
  BY DEF TaskReturns
<1>2. loop \in [Queue -> Loop]
  BY DEF QueueInv, QueueTypeOK
<1>3. loop' \in [Queue -> Loop]
  BY <1>1, <1>2 DEF Loop
<1>4. loop'[q].pc = "flush"
  BY <1>1, <1>2 DEF Loop
<1>5. \A r \in Queue \ {q} : loop'[r] = loop[r]
  BY <1>1, <1>2
<1>6. VsyncInv'
  BY <1>1, <1>4, <1>5 DEF QueueInv, VsyncInv, Running, LoopToWake
<1>7. TasksNumbered' /\ MergesAreFlat'
  BY <1>1 DEF QueueInv, TasksNumbered, MergesAreFlat
<1> QED BY <1>1, <1>3, <1>4, <1>5, <1>6, <1>7

\* At the end of a vsync task the queue's Dart events are offered again: to
\* the queue's own loop, which is woken, or to the loop that ran the task.
LEMMA TaskReturnsKeeps ==
    ASSUME QueueInv, NEW q \in Queue, TaskReturns(q)
    PROVE  QueueInv'
<1> USE QueueAssumption
<1>1. /\ UNCHANGED <<tasks, order, subsumedBy, ownerOf, firing, now>>
      /\ loop' \in [Queue -> Loop]
      /\ loop[q].pc = "run" /\ loop'[q].pc = "flush"
      /\ \A r \in Queue \ {q} : loop'[r] = loop[r]
      /\ VsyncInv' /\ TasksNumbered' /\ MergesAreFlat'
  BY BackToTheLoop
<1>2. \A r \in Queue : VsyncTasks(r)' = VsyncTasks(r)
  BY <1>1 DEF VsyncTasks
<1>3. \A r \in Queue : VsyncRunning(r)' = VsyncRunning(r) \ {q}
  BY <1>1 DEF VsyncRunning
<1>4. CASE loop[q].task.job = "other" /\ UNCHANGED <<pauses, wake>>
  <2>1. \A r \in Queue : VsyncRunning(r)' = VsyncRunning(r)
    BY <1>3, <1>4 DEF VsyncRunning
  <2>2. PausedForVsync'
    BY <1>1, <1>2, <1>4, <2>1 DEF QueueInv, PausedForVsync
  <2>3. QueueTypeOK'
    BY <1>1, <1>4 DEF QueueInv, QueueTypeOK
  <2>4. \A r \in Queue : Pending(r)' = Pending(r)
    BY <1>1, <1>4 DEF Pending, Offered
  <2>5. \A r \in Queue : loop'[r].pc = "idle" => loop[r].pc = "idle"
    BY <1>1
  <2>6. \A r \in Queue : AwakeFor(r)'
    BY <1>4, <2>4, <2>5, StillAwake DEF QueueInv
  <2>7. NoLostWakeup'
    BY <2>6 DEF NoLostWakeup, AwakeFor
  <2> QED BY <1>1, <2>2, <2>3, <2>7 DEF QueueInv
<1>5. CASE loop[q].task.job = "vsync"
           /\ \E p \in Queue : p = loop[q].task.queue /\ ResumeSecondarySource(p)
  <2>1. PICK p \in Queue : p = loop[q].task.queue /\ ResumeSecondarySource(p)
    BY <1>5
  <2>2. q = LoopToWake(p)
    BY <1>1, <1>5, <2>1 DEF QueueInv, VsyncInv, Running
  <2>3. /\ pauses \in [Queue -> Nat] /\ wake \in [Queue -> Nat \cup {Never}]
        /\ tasks \in SUBSET Task /\ ownerOf \in [Queue -> SUBSET Queue]
        /\ pauses' = [pauses EXCEPT ![p] = @ - 1] /\ wake' = Woken(wake, p)
    BY <2>1 DEF QueueInv, QueueTypeOK, ResumeSecondarySource
  <2>4. VsyncRunning(p) = {q} /\ VsyncRunning(p)' = {}
    <3>1. q \in VsyncRunning(p)
      BY <1>1, <1>5, <2>1 DEF VsyncRunning
    <3> QED BY <1>3, <2>2, <3>1, VsyncCounts
  <2>5. \A r \in Queue \ {p} : VsyncRunning(r)' = VsyncRunning(r)
    BY <1>3, <2>1 DEF VsyncRunning
  <2>6. pauses[p] = Cardinality(firing \cap {p}) + Cardinality(VsyncTasks(p)) + 1
    <3>1. Cardinality(VsyncRunning(p)) = 1
      BY <2>4, FS_Singleton
    <3> QED BY <3>1 DEF QueueInv, PausedForVsync
  <2>7. Cardinality(firing \cap {p}) \in Nat /\ Cardinality(VsyncTasks(p)) \in Nat
    BY VsyncCounts, FS_CardinalityType
  <2>8. pauses'[p] = Cardinality(firing \cap {p}) + Cardinality(VsyncTasks(p))
    BY <2>3, <2>6, <2>7
  <2>9. pauses' \in [Queue -> Nat]
    BY <2>3, <2>7, <2>8
  <2>10. PausedForVsync'
    <3>1. ASSUME NEW r \in Queue
          PROVE  pauses'[r] = Cardinality(firing \cap {r}) + Cardinality(VsyncTasks(r))
                                + Cardinality(VsyncRunning(r)')
      <4>1. CASE r = p
        <5>1. Cardinality(VsyncRunning(p)') = 0
          BY <2>4, FS_EmptySet
        <5> QED BY <2>7, <2>8, <4>1, <5>1
      <4>2. CASE r # p
        <5>1. VsyncRunning(r)' = VsyncRunning(r) /\ pauses'[r] = pauses[r]
          BY <2>3, <2>5, <4>2
        <5> QED BY <5>1 DEF QueueInv, PausedForVsync
      <4> QED BY <4>1, <4>2
    <3> QED BY <1>1, <1>2, <3>1 DEF PausedForVsync
  <2>11. \A r \in Queue : Pending(r)' \in SUBSET Task /\ Numbered(Pending(r)')
    <3>1. ASSUME NEW r \in Queue PROVE Pending(r)' \subseteq tasks
      BY <1>1 DEF Pending, Offered
    <3> QED BY <2>3, <3>1 DEF QueueInv, TasksNumbered, Numbered
  <2>12. QueueTypeOK'
    <3>1. wake' \in [Queue -> Nat \cup {Never}]
      BY <2>3, <2>11, WokenIsArmed
    <3> QED BY <1>1, <2>9, <3>1 DEF QueueInv, QueueTypeOK
  <2>13. ASSUME NEW r \in Queue PROVE AwakeFor(r)'
    <3>1. CASE r = q
      BY <1>1, <3>1 DEF AwakeFor
    <3>2. CASE r = p
      BY <2>3, <2>11, <3>2, WokenIsArmed DEF AwakeFor
    <3>3. CASE r # q /\ r # p
      <4>1. wake'[r] = wake[r] /\ loop'[r] = loop[r]
        BY <1>1, <2>3, <2>11, <3>3, WokenIsArmed
      <4>2. p \notin {r} \cup ownerOf[r]
        BY <2>2, <3>3 DEF LoopToWake, QueueInv, MergesAreFlat
      <4>3. \A s \in Queue \ {p} : Offered(s)' = Offered(s)
        BY <1>1, <2>3 DEF Offered
      <4>4. Pending(r)' = Pending(r)
        <5>1. \A s \in {r} \cup ownerOf[r] : Offered(s)' = Offered(s)
          BY <2>3, <4>2, <4>3
        <5>2. subsumedBy' = subsumedBy /\ ownerOf' = ownerOf
          BY <1>1
        <5>3. CASE subsumedBy[r] # kUnmerged
          BY <5>2, <5>3 DEF Pending
        <5>4. CASE subsumedBy[r] = kUnmerged
          BY <5>1, <5>2, <5>4 DEF Pending
        <5> QED BY <5>3, <5>4
      <4> QED BY <4>1, <4>4, StillAwake DEF QueueInv
    <3> QED BY <3>1, <3>2, <3>3
  <2>14. NoLostWakeup'
    BY <2>13 DEF NoLostWakeup, AwakeFor
  <2> QED BY <1>1, <2>10, <2>12, <2>14 DEF QueueInv
<1> QED BY <1>4, <1>5 DEF TaskReturns

\* Time passing changes nothing of this, and neither does a stutter.
LEMMA NothingMoves ==
    ASSUME QueueInv, now' \in Nat,
           UNCHANGED <<tasks, order, subsumedBy, ownerOf, pauses, firing, wake, loop>>
    PROVE  QueueInv'
<1>1. \A q \in Queue : /\ VsyncTasks(q)' = VsyncTasks(q)
                       /\ VsyncRunning(q)' = VsyncRunning(q)
                       /\ Pending(q)' = Pending(q)
  BY DEF VsyncTasks, VsyncRunning, Pending, Offered
<1>2. QueueTypeOK'
  BY DEF QueueInv, QueueTypeOK
<1>3. PausedForVsync'
  BY <1>1 DEF QueueInv, PausedForVsync
<1>4. NoLostWakeup'
  BY <1>1 DEF QueueInv, NoLostWakeup
<1>5. MergesAreFlat' /\ TasksNumbered' /\ VsyncInv'
  BY DEF QueueInv, MergesAreFlat, TasksNumbered, VsyncInv, LoopToWake, Running
<1> QED BY <1>2, <1>3, <1>4, <1>5 DEF QueueInv

-----------------------------------------------------------------------------
(* The theorems                                                              *)

LEMMA QueueInvInit == QueueInit => QueueInv
<1> SUFFICES ASSUME QueueInit PROVE QueueInv
  OBVIOUS
<1> USE QueueAssumption DEF QueueInit
<1>1. QueueTypeOK
  BY DEF QueueTypeOK, Asleep, Loop, Never
<1>2. \A q \in Queue : /\ VsyncTasks(q) = {} /\ VsyncRunning(q) = {}
                       /\ firing \cap {q} = {} /\ Pending(q) = {}
  BY DEF VsyncTasks, VsyncRunning, Asleep, Pending, Offered
<1>3. PausedForVsync
  <2>1. Cardinality({}) = 0
    BY FS_EmptySet
  <2>2. ASSUME NEW q \in Queue
        PROVE  pauses[q] = Cardinality(firing \cap {q}) + Cardinality(VsyncTasks(q))
                             + Cardinality(VsyncRunning(q))
    <3>1. pauses[q] = 0 /\ Cardinality(firing \cap {q}) = 0
          /\ Cardinality(VsyncTasks(q)) = 0 /\ Cardinality(VsyncRunning(q)) = 0
      BY <1>2, <2>1
    <3> QED BY <3>1
  <2> QED BY <2>2 DEF PausedForVsync
<1>4. MergesAreFlat /\ NoLostWakeup
  BY <1>2 DEF MergesAreFlat, NoLostWakeup
<1>5. TasksNumbered /\ VsyncInv
  BY FS_EmptySet DEF TasksNumbered, Numbered, VsyncInv, Running, Asleep
<1> QED BY <1>1, <1>3, <1>4, <1>5 DEF QueueInv

LEMMA QueueInvNext == QueueInv /\ [QueueNext]_queueVars => QueueInv'
<1> SUFFICES ASSUME QueueInv, [QueueNext]_queueVars PROVE QueueInv'
  OBVIOUS
<1> USE QueueAssumption
<1>1. ASSUME NEW q \in Queue, PostTask(q) PROVE QueueInv'
  BY <1>1, PostTaskKeeps
<1>2. ASSUME NEW q \in Queue, LoopStep(q) PROVE QueueInv'
  BY <1>2, OnEventFiredKeeps, GetNextTaskToRunKeeps, TaskReturnsKeeps DEF LoopStep
<1>3. ASSUME NEW q \in UiQueue, FireCallback(q) \/ PostVsync(q) PROVE QueueInv'
  BY <1>3, FireCallbackKeeps, PostVsyncKeeps
<1>4. ASSUME NEW m \in MergePair, Merge(m[1], m[2]) \/ Unmerge(m[1], m[2]) PROVE QueueInv'
  <2>1. m[1] \in Queue /\ m[2] \in Queue
    OBVIOUS
  <2> QED BY <1>4, <2>1, MergeKeeps, UnmergeKeeps
<1>5. CASE Tick \/ UNCHANGED queueVars
  <2>1. now' \in Nat
    BY <1>5 DEF Tick, queueVars, QueueInv, QueueTypeOK
  <2> QED BY <1>5, <2>1, NothingMoves DEF Tick, queueVars
<1> QED BY <1>1, <1>2, <1>3, <1>4, <1>5 DEF QueueNext

\* The inductive invariant holds in every reachable state.
THEOREM QueueCorrect == QueueSpec => []QueueInv
BY QueueInvInit, QueueInvNext, PTL DEF QueueSpec

\* The variables of MessageLoopTaskQueues and of the loops keep their types;
\* the count of pauses never goes below zero.
THEOREM QueueTyping == QueueSpec => []QueueTypeOK
<1>1. QueueInv => QueueTypeOK
  BY DEF QueueInv
<1> QED BY <1>1, QueueCorrect, PTL

\* Merge and Unmerge keep what the header promises (a queue owns, is owned, or
\* neither), whichever pairs of queues they are asked to merge.
THEOREM MergesStayFlat == QueueSpec => []MergesAreFlat
<1>1. QueueInv => MergesAreFlat
  BY DEF QueueInv
<1> QED BY <1>1, QueueCorrect, PTL

\* No loop sleeps past a task it is to run, for any number of queues, merged in
\* any way, and any number of tasks.
THEOREM LoopsAreWoken == QueueSpec => []NoLostWakeup
<1>1. QueueInv => NoLostWakeup
  BY DEF QueueInv
<1> QED BY <1>1, QueueCorrect, PTL

\* The Dart events of a queue are held exactly while a vsync callback of it is
\* on its way, whichever loop runs its tasks meanwhile.
THEOREM PausesAreVsyncs == QueueSpec => []PausedForVsync
<1>1. QueueInv => PausedForVsync
  BY DEF QueueInv
<1> QED BY <1>1, QueueCorrect, PTL
=============================================================================
