---------------------------- MODULE DeliveryQueue ----------------------------
(* What an outbox with at-least-once delivery promises to the code that     *)
(* files items in it and to whoever receives them.  migrations/             *)
(* 019_webhooks.sql calls the webhook tables "an at-least-once delivery     *)
(* outbox"; WebhookOutbox is shown to implement this specification.         *)

CONSTANT Item

VARIABLES state,   \* where an item is: absent, queued, done or dropped
          handed   \* the items the receiver has got at least once

queueVars == <<state, handed>>

Init ==
    /\ state = [i \in Item |-> "absent"]
    /\ handed = {}

Put(i) ==
    /\ state[i] = "absent"
    /\ state' = [state EXCEPT ![i] = "queued"]
    /\ UNCHANGED handed

(* The receiver gets an item that was filed and is not known to be done.    *)
Hand(i) ==
    /\ state[i] \in {"queued", "dropped"}
    /\ handed' = handed \cup {i}
    /\ UNCHANGED state

(* An item is done only when the receiver has it.                           *)
Finish(i) ==
    /\ state[i] = "queued"
    /\ i \in handed
    /\ state' = [state EXCEPT ![i] = "done"]
    /\ UNCHANGED handed

(* Items are given up, several at a time when their receiver goes.          *)
Drop(S) ==
    /\ \A i \in S : state[i] = "queued"
    /\ state' = [i \in Item |-> IF i \in S THEN "dropped" ELSE state[i]]
    /\ UNCHANGED handed

Requeue(i) ==
    /\ state[i] = "dropped"
    /\ state' = [state EXCEPT ![i] = "queued"]
    /\ UNCHANGED handed

Next ==
    \/ \E i \in Item : Put(i) \/ Hand(i) \/ Finish(i) \/ Requeue(i)
    \/ \E S \in SUBSET Item : Drop(S)

Spec == Init /\ [][Next]_queueVars
=============================================================================
