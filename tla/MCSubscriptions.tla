-------------------------- MODULE MCSubscriptions --------------------------
(* One watcher, one phone and three handlers, which run in any order and at *)
(* any overlap, with two faults.  Handlers are interchangeable.             *)
EXTENDS Subscriptions, TLC

Symmetry == Permutations(Tasks)
=============================================================================
