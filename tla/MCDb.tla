-------------------------------- MODULE MCDb --------------------------------
(* Db with two calling threads and two distinguishable statements. *)
EXTENDS Db
=============================================================================
