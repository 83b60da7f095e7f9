---------------------------- MODULE MCSnapshotQueue ----------------------------
(* Two observers of a queue with two planes of one length and two policies, *)
(* so that a job on one plane is in flight while the other is read; two     *)
(* jobs, so that a plane has a writer and a later one; one snapshot each,   *)
(* so that the second finds the budget spent.                               *)
EXTENDS SnapshotQueue
=============================================================================
