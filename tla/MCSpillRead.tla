---------------------------- MODULE MCSpillRead ----------------------------
(* The small instance of SpillRead: one point of two blocks, read by every *)
(* restore.                                                                 *)
EXTENDS SpillRead, TLC

MCTwo == [k1 |-> 2]
MCKeys == {"k1"}
=============================================================================
