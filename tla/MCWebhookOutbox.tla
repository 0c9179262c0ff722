--------------------------- MODULE MCWebhookOutbox ---------------------------
(* A small instance of WebhookOutbox for TLC: two webhooks, one event of   *)
(* one type, batches of one row.                                            *)
EXTENDS WebhookOutbox, TLC

CONSTANTS e1

MCTypeOf == [p \in Producers |-> e1]
=============================================================================
