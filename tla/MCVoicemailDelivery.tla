------------------------ MODULE MCVoicemailDelivery ------------------------
(* Small instances of VoicemailDelivery for TLC.                           *)
EXTENDS VoicemailDelivery

CONSTANTS c1, b1

(* Every delivery and every closer is of the one Call-ID: different        *)
(* Call-IDs share no state but the message count of a mailbox.             *)
MCCallOf == [x \in Sessions \cup Closers |-> c1]
MCBoxOf == [c \in Calls |-> b1]
=============================================================================
