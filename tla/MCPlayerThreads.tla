--------------------------- MODULE MCPlayerThreads ---------------------------
(* PlayerThreads with the main loop and one or two threads that call. *)
EXTENDS PlayerThreads
=============================================================================
