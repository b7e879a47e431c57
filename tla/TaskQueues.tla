---------------------------- MODULE TaskQueues ----------------------------
(* The task queues of the engine's threads: fml::MessageLoopTaskQueues and  *)
(* the loops that drain them, src/engine/src/flutter/fml.  Every operation   *)
(* of MessageLoopTaskQueues holds queue_mutex_ from end to end, so each is   *)
(* one step.  A queue may be merged into another: the owner's loop then runs *)
(* the tasks of both, and the subsumed queue's own loop finds nothing to do. *)
(*                                                                           *)
(* What is hard here is the waking: a loop sleeps until the time it was last *)
(* told to wake at, every change of a queue has to tell the loop that will   *)
(* run it, and which loop that is changes under the feet of both threads.    *)
EXTENDS Integers, FiniteSets

CONSTANTS Queue,      \* the task queues, one per thread; each names its loop
          UiQueue,    \* those on which vsync callbacks and Dart events run
          kUnmerged,  \* stands for no queue
          MergePair,  \* <<owner, subsumed>>: who may be merged into whom
          Delay,      \* how far in the future a task may be posted
          MaxTasks,   \* bound: how many tasks are ever posted
          MaxTime     \* bound: how far the clock goes

ASSUME QueueAssumption ==
  /\ kUnmerged \notin Queue
  /\ UiQueue \subseteq Queue
  /\ MergePair \subseteq Queue \X Queue
  /\ Delay \subseteq Nat
  /\ MaxTasks \in Nat
  /\ MaxTime \in Nat

VARIABLES
  tasks,       \* the tasks in the task sources of all queues
  order,       \* order_: how many tasks have been posted
  subsumedBy,  \* the queue each queue is merged into
  ownerOf,     \* the queues merged into each queue
  pauses,      \* secondary_pause_requests_ of each task source
  firing,      \* queues whose vsync callback is between its pause and its post
  wake,        \* the time each loop's timer is armed for
  loop,        \* what each loop is doing
  now          \* the clock

queueVars == <<tasks, order, subsumedBy, ownerOf, pauses, firing, wake, loop, now>>

Never == -1    \* a timer that is not armed

Grade == {"unspecified", "dartEventLoop"}

\* DelayedTask.  A vsync task resumes the Dart events of its queue at its end.
Task == [queue : Queue, order : Nat, due : Nat, grade : Grade, job : {"other", "vsync"}]

NoTask == [queue |-> kUnmerged]

\* A loop sleeps, is about to ask for the next task, or runs one.  from is
\* the time FlushTasks read when it began.
Loop == [pc : {"idle", "flush", "run"}, from : Nat, task : Task \cup {NoTask}]

Asleep == [pc |-> "idle", from |-> 0, task |-> NoTask]

QueueInit ==
  /\ tasks = {}
  /\ order = 0
  /\ subsumedBy = [q \in Queue |-> kUnmerged]
  /\ ownerOf = [q \in Queue |-> {}]
  /\ pauses = [q \in Queue |-> 0]
  /\ firing = {}
  /\ wake = [q \in Queue |-> Never]
  /\ loop = [q \in Queue |-> Asleep]
  /\ now = 0

-----------------------------------------------------------------------------
(* Looking at the queues                                                     *)

\* The tasks a task source offers: Dart events only while nobody holds them.
Offered(q) ==
  {t \in tasks : t.queue = q /\ (t.grade = "dartEventLoop" => pauses[q] = 0)}

\* A subsumed queue never has pending tasks; an owner counts those it owns.
Pending(q) ==
  IF subsumedBy[q] # kUnmerged
  THEN {}
  ELSE UNION {Offered(p) : p \in {q} \cup ownerOf[q]}

Before(t, u) == t.due < u.due \/ (t.due = u.due /\ t.order < u.order)

Top(S) == CHOOSE t \in S : \A u \in S : u = t \/ Before(t, u)

\* Arms the timer of q for the first task it then has, if it has one.
Woken(w, q) ==
  IF Pending(q)' # {} THEN [w EXCEPT ![q] = Top(Pending(q)').due] ELSE w

-----------------------------------------------------------------------------
(* The operations                                                            *)

\* Slip: a task wakes the loop of its own queue, merged or not.
LoopToWakeOwn(q) == q

\* The loop that will run a task of q.
LoopToWake(q) == IF subsumedBy[q] # kUnmerged THEN subsumedBy[q] ELSE q

RegisterTask(q, due, grade, job) ==
  /\ tasks' = tasks \cup {[queue |-> q, order |-> order, due |-> due,
                           grade |-> grade, job |-> job]}
  /\ order' = order + 1
  /\ UNCHANGED <<subsumedBy, ownerOf, pauses, loop, now>>
  /\ wake' = Woken(wake, LoopToWake(q))

\* Bound: tasks already promised are counted.
RoomToPost == order + Cardinality(firing) < MaxTasks

\* Any thread posts a task to any queue; the Dart VM posts its events to a
\* UI queue.
PostTask(q) ==
  \E delay \in Delay, grade \in Grade :
    /\ RoomToPost /\ now + delay <= MaxTime
    /\ grade = "dartEventLoop" => q \in UiQueue
    /\ RegisterTask(q, now + delay, grade, "other")
    /\ UNCHANGED firing

\* A vsync callback holds back the Dart events of its UI queue ...
FireCallback(q) ==
  /\ q \notin firing /\ RoomToPost
  /\ firing' = firing \cup {q}
  /\ pauses' = [pauses EXCEPT ![q] = @ + 1]
  /\ UNCHANGED <<tasks, order, subsumedBy, ownerOf, wake, loop, now>>

\* ... and then posts the task that will build the frame.
PostVsync(q) ==
  /\ q \in firing
  /\ firing' = firing \ {q}
  /\ RegisterTask(q, now, "unspecified", "vsync")

\* The thread of loop q is outside the loop or in a task that is no vsync
\* callback: where the callers of Merge and Unmerge are.
InHandler(q) == loop[q].pc = "idle" \/ (loop[q].pc = "run" /\ loop[q].task.job = "other")

\* Slip: nobody asks whether the owner is itself owned.
MayMergeInChain(owner, subsumed) ==
  /\ ownerOf[subsumed] = {}
  /\ subsumedBy[subsumed] = kUnmerged

MayMerge(owner, subsumed) ==
  /\ subsumedBy[owner] = kUnmerged
  /\ ownerOf[subsumed] = {}
  /\ subsumedBy[subsumed] = kUnmerged

\* Called by a task on the thread about to be subsumed.
Merge(owner, subsumed) ==
  /\ owner # subsumed
  /\ loop[subsumed].pc = "run" /\ InHandler(subsumed)
  /\ MayMerge(owner, subsumed)
  /\ ownerOf' = [ownerOf EXCEPT ![owner] = @ \cup {subsumed}]
  /\ subsumedBy' = [subsumedBy EXCEPT ![subsumed] = owner]
  /\ UNCHANGED <<tasks, order, pauses, firing, loop, now>>
  /\ wake' = Woken(wake, owner)

\* Slip: only the owner is woken.
WokenByUnmergeOwner(owner, subsumed) == Woken(wake, owner)

WokenByUnmerge(owner, subsumed) == Woken(Woken(wake, owner), subsumed)

\* A UI queue is given back by the platform thread, a raster queue by
\* whichever thread ends the last lease.
Unmerge(owner, subsumed) ==
  /\ subsumed \in UiQueue => InHandler(owner)
  /\ subsumed \in ownerOf[owner]
  /\ subsumedBy[owner] = kUnmerged
  /\ ownerOf' = [ownerOf EXCEPT ![owner] = @ \ {subsumed}]
  /\ subsumedBy' = [subsumedBy EXCEPT ![subsumed] = kUnmerged]
  /\ UNCHANGED <<tasks, order, pauses, firing, loop, now>>
  /\ wake' = WokenByUnmerge(owner, subsumed)

-----------------------------------------------------------------------------
(* The loops                                                                 *)

\* The timer goes off and is drained; FlushTasks reads the clock.
OnEventFired(q) ==
  /\ loop[q].pc = "idle"
  /\ wake[q] # Never /\ wake[q] <= now
  /\ wake' = [wake EXCEPT ![q] = Never]
  /\ loop' = [loop EXCEPT ![q] = [pc |-> "flush", from |-> now, task |-> NoTask]]
  /\ UNCHANGED <<tasks, order, subsumedBy, ownerOf, pauses, firing, now>>

\* The timer is armed before the task is taken, for the task that is taken.
GetNextTaskToRun(q) ==
  LET top == Top(Pending(q))
      taken == Pending(q) # {} /\ top.due <= loop[q].from
  IN /\ loop[q].pc = "flush"
     /\ wake' = IF Pending(q) # {} THEN [wake EXCEPT ![q] = top.due] ELSE wake
     /\ tasks' = IF taken THEN tasks \ {top} ELSE tasks
     /\ loop' = [loop EXCEPT ![q] = IF taken THEN [@ EXCEPT !.pc = "run", !.task = top]
                                    ELSE Asleep]
     /\ UNCHANGED <<order, subsumedBy, ownerOf, pauses, firing, now>>

\* Slips: the Dart events stay held; they are let go twice.
ResumeSecondaryForgotten(q) == UNCHANGED <<pauses, wake>>
ResumeSecondaryTwice(q) == /\ pauses' = [pauses EXCEPT ![q] = @ - 2]
                           /\ wake' = Woken(wake, q)

ResumeSecondarySource(q) ==
  /\ pauses' = [pauses EXCEPT ![q] = @ - 1]
  /\ wake' = Woken(wake, q)

\* A task returns.  A vsync task first lets the Dart events go.
TaskReturns(q) ==
  /\ loop[q].pc = "run"
  /\ loop' = [loop EXCEPT ![q].pc = "flush", ![q].task = NoTask]
  /\ UNCHANGED <<tasks, order, subsumedBy, ownerOf, firing, now>>
  /\ \/ /\ loop[q].task.job = "other"
        /\ UNCHANGED <<pauses, wake>>
     \/ /\ loop[q].task.job = "vsync"
        /\ \E p \in Queue : p = loop[q].task.queue /\ ResumeSecondarySource(p)

Tick ==
  /\ now < MaxTime
  /\ now' = now + 1
  /\ UNCHANGED <<tasks, order, subsumedBy, ownerOf, pauses, firing, wake, loop>>

LoopStep(q) == OnEventFired(q) \/ GetNextTaskToRun(q) \/ TaskReturns(q)

QueueNext ==
  \/ \E q \in Queue : PostTask(q) \/ LoopStep(q)
  \/ \E q \in UiQueue : FireCallback(q) \/ PostVsync(q)
  \/ \E m \in MergePair : Merge(m[1], m[2]) \/ Unmerge(m[1], m[2])
  \/ Tick

QueueSpec == QueueInit /\ [][QueueNext]_queueVars

\* Timers go off, loops run and tasks return; who posts and merges is free.
QueueFairSpec ==
  /\ QueueSpec
  /\ \A q \in Queue : WF_queueVars(LoopStep(q))
  /\ \A q \in UiQueue : WF_queueVars(PostVsync(q))
  /\ WF_queueVars(Tick)

-----------------------------------------------------------------------------
(* Properties                                                                *)

\* The variables keep their types.
QueueTypeOK ==
  /\ tasks \in SUBSET Task
  /\ order \in Nat
  /\ subsumedBy \in [Queue -> Queue \cup {kUnmerged}]
  /\ ownerOf \in [Queue -> SUBSET Queue]
  /\ pauses \in [Queue -> Nat]
  /\ firing \in SUBSET UiQueue
  /\ wake \in [Queue -> Nat \cup {Never}]
  /\ loop \in [Queue -> Loop]
  /\ now \in Nat

\* message_loop_task_queues.h:107-120: a queue owns others, or is owned by
\* one, or neither; who owns and who is owned agree.
MergesAreFlat ==
  \A p, q \in Queue :
    /\ q \in ownerOf[p] <=> subsumedBy[q] = p
    /\ q \in ownerOf[p] => subsumedBy[p] = kUnmerged /\ ownerOf[q] = {}

\* No wake-up is lost: a loop asleep with a task it is to run, its own or of
\* a queue merged into it, has its timer armed for that task or earlier,
\* whatever was posted, merged, unmerged, paused and resumed meanwhile.
NoLostWakeup ==
  \A q \in Queue : \A t \in Pending(q) :
    loop[q].pc = "idle" => wake[q] # Never /\ wake[q] <= t.due

VsyncTasks(q) == {t \in tasks : t.job = "vsync" /\ t.queue = q}

VsyncRunning(q) == {l \in Queue : loop[l].pc = "run" /\ loop[l].task.job = "vsync"
                                    /\ loop[l].task.queue = q}

\* Each pause of a queue's Dart events is a vsync callback on its way: about
\* to post, posted, or running on whichever loop.  So they are neither held
\* for ever nor let go while a frame is to be built (task_source.cc:94-101).
PausedForVsync ==
  \A q \in Queue :
    pauses[q] = Cardinality(firing \cap {q}) + Cardinality(VsyncTasks(q))
                + Cardinality(VsyncRunning(q))

\* Whatever is posted, merged and unmerged, the queues run dry in the end
\* (MaxTasks bounds what is posted): no task is left on a queue no loop runs.
QueuesDrain == tasks # {} ~> tasks = {}
=============================================================================
