---------------------------- MODULE MCTaskQueues ----------------------------
(* Small instances of TaskQueues: a platform, a raster and a UI queue.       *)
EXTENDS TaskQueues

CONSTANTS platform, raster, ui

\* The pairs the engine merges, dynamic thread merging and the merged UI
\* thread, and one that would make a chain.
Merges == {<<platform, raster>>, <<platform, ui>>, <<raster, ui>>}
=============================================================================
