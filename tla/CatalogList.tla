---------------------------- MODULE CatalogList ----------------------------
(***************************************************************************)
(* What the rest of the program may rely on about the catalog: a list of   *)
(* paths, none twice, that only ever grows at its end.  Module Library     *)
(* keeps the catalog as such a list; module Catalog implements it.         *)
(***************************************************************************)
EXTENDS Naturals, Sequences

CONSTANT Tracks
VARIABLE list

In(l, t) == \E i \in DOMAIN l : l[i] = t

Init == list = <<>>
Add(t) == ~In(list, t) /\ list' = Append(list, t)
Next == \E t \in Tracks : Add(t)
Spec == Init /\ [][Next]_list
=============================================================================
