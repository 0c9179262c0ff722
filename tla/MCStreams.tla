----------------------------- MODULE MCStreams -----------------------------
(* A TLS connection and a WebSocket connection of one address.              *)
EXTENDS Streams

MCMaxMessages == [c \in Conns |-> IF c \in Tls THEN 2 ELSE 1]
=============================================================================
