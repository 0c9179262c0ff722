---------------------------- MODULE MCConference ----------------------------
(* Two calls to one room: t1, t2 and t3 handle datagrams of c1, t4 of c2 *)
EXTENDS Conference

CONSTANTS c1, c2, r1, t1, t2, t3, t4

MCTasks == {t1, t2, t3, t4}
MCRoomOf == [c \in Calls |-> r1]
MCCallOf == [t \in Tasks |-> IF t # t4 THEN c1 ELSE c2]
=============================================================================
