--------------------------- MODULE MCCallResolves ---------------------------
(* Three calls: c1's callee is registered and has a mailbox, c2's has only  *)
(* the mailbox and c3's has neither.  Tasks t3 and t4 handle c2 and c3,     *)
(* everything else is of c1.                                                *)
EXTENDS CallControl

CONSTANTS c1, c2, c3, b1, t3, t4

MCSessions == Tasks \cup Timers
MCCallOf ==
    [x \in Tasks \cup Timers |-> CASE x = t3 -> c2 [] x = t4 -> c3 [] OTHER -> c1]
MCBoxOf == [c \in Calls |-> b1]
=============================================================================
