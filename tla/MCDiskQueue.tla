---------------------------- MODULE MCDiskQueue ----------------------------
(* Model-checking instance of DiskQueue, bounded in its cfgs.             *)
(*   MCDiskQueue.cfg: five events, two frames per segment (so that a       *)
(*     position can lie inside a segment) and four process starts.        *)
(*   MCDiskQueueLoss.cfg: three events, one frame per segment (every event *)
(*     rolls the writer) and three starts, enough for a segment written    *)
(*     after one restart to be judged by the position persisted before it. *)
EXTENDS DiskQueue
=============================================================================
