----------------------------- MODULE MCWsocket -----------------------------
(* Wsocket with two connections. *)
EXTENDS Wsocket
=============================================================================
