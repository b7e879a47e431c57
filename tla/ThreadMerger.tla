--------------------------- MODULE ThreadMerger ---------------------------
(* fml::RasterThreadMerger and the fml::SharedThreadMerger behind it: the    *)
(* lease under which the platform thread runs the raster thread's tasks.     *)
(* Each operation holds the merger's mutex from end to end and is one step.  *)
(* One engine holds the merger (mergers shared by spawned engines are left   *)
(* out), so there is at most one lease record.                               *)
EXTENDS Integers

CONSTANT LeaseTerm    \* kDefaultMergedLeaseDuration: frames before the lease ends

\* A lease outlasts the end of the Draw that takes it out (10 in the code).
ASSUME LeaseAssumption == LeaseTerm \in Nat /\ LeaseTerm >= 2

VARIABLES
  same,       \* TaskQueuesAreSame(): one queue serves as both, from the start
  merged,     \* the queues are merged, as MessageLoopTaskQueues sees it
  lease,      \* lease_term_by_caller_ of the engine's merger
  enabled,    \* enabled_
  checkFailed \* an FML_CHECK failed: the process is gone

mergerVars == <<same, merged, lease, enabled, checkFailed>>

NoRecord == -1

MergerInit ==
  /\ same \in BOOLEAN
  /\ merged = FALSE
  /\ lease = NoRecord
  /\ enabled = TRUE
  /\ checkFailed = FALSE

\* What the merger believes: some lease has a term left.
IsMerged == same \/ lease > 0

SetEnabled(b) == enabled' = b /\ UNCHANGED <<same, merged, lease, checkFailed>>

MergeWithLease ==
  \/ /\ ~enabled \/ IsMerged
     /\ UNCHANGED mergerVars
  \/ /\ enabled /\ ~IsMerged
     /\ IF merged
        THEN checkFailed' = TRUE /\ UNCHANGED <<merged, lease>>
        ELSE merged' = TRUE /\ lease' = LeaseTerm /\ UNCHANGED checkFailed
     /\ UNCHANGED <<same, enabled>>

ExtendLeaseTo ==
  /\ lease' = IF enabled /\ ~same THEN LeaseTerm ELSE lease
  /\ UNCHANGED <<same, merged, enabled, checkFailed>>

\* UnMergeNowUnSafe, once no term is left: the queues must be merged.
UnMergeNow ==
  /\ merged' = FALSE
  /\ checkFailed' = ~merged
  /\ UNCHANGED <<same, enabled>>

\* Slip: nobody asks whether a lease is running.
DecrementLeaseAnyway(unmergedNow) ==
  /\ lease' = lease - 1
  /\ unmergedNow = (lease = 1)
  /\ IF lease = 1 THEN UnMergeNow ELSE UNCHANGED <<same, merged, enabled, checkFailed>>

\* unmergedNow tells the caller that the lease has ended.
DecrementLease(unmergedNow) ==
  \/ /\ same \/ ~IsMerged \/ ~enabled
     /\ ~unmergedNow
     /\ UNCHANGED mergerVars
  \/ /\ ~same /\ IsMerged /\ enabled
     /\ lease' = lease - 1
     /\ unmergedNow = (lease = 1)
     /\ IF lease = 1 THEN UnMergeNow ELSE UNCHANGED <<same, merged, enabled, checkFailed>>

\* Slips: the record stays; the queues stay merged.
UnMergeNowIfLastOneKeeps == UNCHANGED lease /\ UnMergeNow
UnMergeNowIfLastOneForgets == lease' = NoRecord /\ UNCHANGED <<same, merged, enabled, checkFailed>>

\* The engine goes: its record is erased, and the queues are given back.
UnMergeNowIfLastOne ==
  \/ (same \/ ~enabled) /\ UNCHANGED mergerVars
  \/ ~same /\ enabled /\ lease' = NoRecord /\ UnMergeNow
=============================================================================
