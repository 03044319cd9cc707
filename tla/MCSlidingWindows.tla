-------------------------- MODULE MCSlidingWindows --------------------------
(* SlidingWindows for TLC: two streams of one session and one of another,   *)
(* served by two workers.                                                   *)
EXTENDS SlidingWindows

CONSTANTS t1, t2, t3, s1, s2

SessionOfStream == [t \in Stream |-> IF t = t3 THEN s2 ELSE s1]
=============================================================================
