-------------------------- MODULE MCSecurityGuard --------------------------
(* Three surfaces, one user, two requests at once; a window of one second,  *)
(* a block of two.                                                          *)
EXTENDS SecurityGuard
=============================================================================
