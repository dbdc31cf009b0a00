---------------------------- MODULE WriteBehind ----------------------------
(***************************************************************************)
(* What class db promises the rest of the player about its writes: a       *)
(* statement handed to db::push joins the end of a log, the log is decided *)
(* one statement at a time from its front, a decided statement either is   *)
(* in the database or was refused by SQLite, and the end of the process    *)
(* loses exactly the statements not yet decided.  No thread, lock, flag or *)
(* condition variable appears here; module Db has them and implements this *)
(* one.                                                                    *)
(***************************************************************************)
EXTENDS Naturals, Sequences

CONSTANT Stmt           \* the SQL statements

VARIABLES log,          \* applied statements, then those still to be decided
          done          \* how many of them the database holds

wbVars == <<log, done>>

Init == log = <<>> /\ done = 0

\* A caller hands over a statement.
Issue(s) == log' = Append(log, s) /\ UNCHANGED done

\* The oldest undecided statement reaches the database ...
Apply == /\ done < Len(log)
         /\ done' = done + 1
         /\ UNCHANGED log

\* ... or is refused and leaves the log.
Refuse == /\ done < Len(log)
          /\ log' = SubSeq(log, 1, done) \o SubSeq(log, done + 2, Len(log))
          /\ UNCHANGED done

\* The process ends.
Lose == log' = SubSeq(log, 1, done) /\ UNCHANGED done

Next == (\E s \in Stmt : Issue(s)) \/ Apply \/ Refuse \/ Lose

SafeSpec == Init /\ [][Next]_wbVars

\* The oldest undecided statement does not stay undecided for ever.
Fairness == WF_wbVars(Apply \/ Refuse)

Spec == SafeSpec /\ Fairness

=============================================================================
