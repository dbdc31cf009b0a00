----------------------------- MODULE ButtonMap -----------------------------
(***************************************************************************)
(* Button maps of class joystick: the sections of joystick.conf, each a    *)
(* list of action names with their keys, and the std::map from keys to     *)
(* actions they are read into.                                             *)
(***************************************************************************)
EXTENDS Naturals, Sequences

Entries == Seq([key : Nat, action : STRING])
Is(k, a) == [key |-> k, action |-> a]

\* std::map::insert keeps what is there.
MapOf(l) ==
  [k \in {l[i].key : i \in DOMAIN l} |->
     l[CHOOSE i \in DOMAIN l : l[i].key = k /\ \A j \in 1..(i - 1) : l[j].key # k].action]

\* Mutant: reading stops after the first entry.
InsertedFirst(f, l) ==
  LET g == MapOf(SubSeq(l, 1, 1)) IN
  [k \in DOMAIN f \cup DOMAIN g |-> IF k \in DOMAIN f THEN f[k] ELSE g[k]]

Inserted(f, l) ==
  LET g == MapOf(l) IN
  [k \in DOMAIN f \cup DOMAIN g |-> IF k \in DOMAIN f THEN f[k] ELSE g[k]]

\* The section of a device, or the default one
SectionOf(sections, default, i) == IF i \in DOMAIN sections THEN sections[i] ELSE default
=============================================================================
