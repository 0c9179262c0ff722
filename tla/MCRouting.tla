----------------------------- MODULE MCRouting -----------------------------
(* A caller that moves to another port of its address and to another         *)
(* address, a callee behind the same address, one call, and two handlers.    *)
(* Both are registered at first.                                             *)
EXTENDS Routing

CONSTANTS alice, bob

MCUsers == {alice, bob}

MCSources ==
    [u \in MCUsers |-> IF u = alice THEN {<<1, 1>>, <<1, 2>>, <<2, 3>>} ELSE {<<1, 4>>}]

MCLeft == {[u \in MCUsers |-> IF u = alice THEN <<1, 1>> ELSE <<1, 4>>]}
=============================================================================
