--------------------------- MODULE MCMediaSessions ---------------------------
(* One call: its INVITE twice, once with video, one clean-up and one       *)
(* 200 OK.  Sessions of different calls meet only in the sweeps, which     *)
(* treat each alike.                                                       *)
EXTENDS MediaSessions

CONSTANTS c1, s1

MCCallOf == [p \in Setups \cup Removers \cup Answers |-> c1]
MCWants == [s \in Setups |-> IF s = s1 THEN Streams ELSE {"audio"}]
=============================================================================
