------------------------- MODULE MCVoicemailAccess -------------------------
(* One call to a mailbox with two messages, with or without a PIN of one    *)
(* digit; two requests are handled at once.  Tasks are interchangeable.     *)
EXTENDS VoicemailAccess, TLC

MCPins == {<<>>, <<"3">>}
Symmetry == Permutations(Tasks)
=============================================================================
