----------------------------- MODULE MCRtpPorts -----------------------------
(***************************************************************************)
(* Instances of RtpPorts with three allocations of any kind.  The ranges   *)
(* overlap, as those of relay and gateway always do, so that allocations   *)
(* of different kinds compete too.  OddMax gives the relay a range of the  *)
(* same shape as the default, 10000 to 10099.                              *)
(***************************************************************************)
EXTENDS RtpPorts, TLC

CONSTANTS a1, a2, a3

MCAllocs == {a1, a2, a3}
Symmetry == Permutations(MCAllocs)
MinPorts == [k \in Kinds |-> 2]
EvenMax == [relay |-> 6, webrtc |-> 6, conference |-> 5, voicemail |-> 4]
OddMax == [EvenMax EXCEPT !.relay = 5]
=============================================================================
