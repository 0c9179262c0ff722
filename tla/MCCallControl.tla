---------------------------- MODULE MCCallControl ----------------------------
(* Small instances of CallControl for TLC: every task and timer is of one  *)
(* Call-ID, since different Call-IDs share none of the maps' entries.      *)
EXTENDS CallControl, TLC

CONSTANTS c1, b1

MCSessions == Tasks \cup Timers
MCCallOf == [x \in Tasks \cup Timers |-> c1]
MCBoxOf == [c \in Calls |-> b1]
Symmetry == Permutations(Tasks) \cup Permutations(Timers)
=============================================================================
