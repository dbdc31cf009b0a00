------------------------------ MODULE MCDbQueue ------------------------------
(* DbQueue with two threads that push. *)
EXTENDS DbQueue
=============================================================================
