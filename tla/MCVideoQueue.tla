---------------------------- MODULE MCVideoQueue ----------------------------
(* Two videos: one the scheduler makes and one of a video:daily run. *)
EXTENDS VideoQueue

CONSTANTS g1, s1, d1, t1, v1, v2

MCOwn == [d \in {d1} |-> v2]
MCSlot == [v \in {v1, v2} |-> v]
=============================================================================
