----------------------------- MODULE MCSettings -----------------------------
(* Settings with two threads that switch among two playlists. *)
EXTENDS Settings

CONSTANT c
=============================================================================
