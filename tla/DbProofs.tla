------------------------------ MODULE DbProofs ------------------------------
(***************************************************************************)
(* What module Db promises, for any number of threads and statements and   *)
(* for any bound on the log.                                               *)
(***************************************************************************)
EXTENDS Db, SequenceTheorems, TLAPS

\* The mutex: who is inside the critical section is who holds it.
MutexInv ==
  /\ \A t \in Threads : pc[t] \in {"push", "unlock"} => lock = t
  /\ mpc \in {"check", "block", "pop", "loop"} => lock = "monitor"

\* What the monitor learnt about the queue under the mutex is still true.
TestInv ==
  /\ mpc = "block" => queries = <<>>
  /\ mpc = "pop" => queries # <<>>

\* The monitor's local copy holds a statement exactly while it is executed.
InflightInv ==
  IF mpc = "exec" THEN \E s \in Stmt : inflight = <<s>> ELSE inflight = <<>>

\* NoLostWakeup is not inductive by itself: it needs that no thread enqueues
\* between the monitor's test of the queue and its going to sleep.
IInv == TypeOK /\ MutexInv /\ TestInv /\ InflightInv /\ NoLostWakeup

\* The first start establishes the invariant.
LEMMA InitIInv == Init => IInv
  BY DbAssumption DEF Init, IInv, TypeOK, MutexInv, TestInv, InflightInv, NoLostWakeup

\* The steps of one thread inside db::push or in the spin on queue_empty.
LEMMA ThreadKeepsIInv ==
  ASSUME IInv, NEW t \in Threads, Thread(t)
  PROVE  IInv'
<1> USE DbAssumption DEF At, Acquire, Release, monitorVars, threadVars, Announcing,
        IInv, TypeOK, MutexInv, TestInv, InflightInv, NoLostWakeup
<1>1. ASSUME NEW s \in Stmt, CallPush(t, s) PROVE IInv'
  BY <1>1 DEF CallPush
<1>2. CASE PushLock(t)
  BY <1>2 DEF PushLock
<1>3. CASE PushEnqueue(t)
  BY <1>3 DEF PushEnqueue
<1>4. CASE PushUnlock(t)
  BY <1>4 DEF PushUnlock
<1>5. CASE PushFlag(t)
  BY <1>5 DEF PushFlag
<1>6. CASE PushNotify(t)
  BY <1>6 DEF PushNotify
<1>7. CASE Await(t) \/ AwaitHoisted(t) \/ SeeEmpty(t)
  BY <1>7 DEF Await, AwaitHoisted, SeeEmpty
<1> QED BY <1>1, <1>2, <1>3, <1>4, <1>5, <1>6, <1>7 DEF Thread, PushStep

\* The steps of the monitor thread.
LEMMA MonitorKeepsIInv ==
  ASSUME IInv, Monitor \/ MonSpuriousWake
  PROVE  IInv'
<1>0. MonExec => disk' \in Seq(Stmt)
  <2>1. disk \in Seq(Stmt) /\ inflight \in Seq(Stmt)
    BY DEF IInv, TypeOK
  <2>2. disk \o inflight \in Seq(Stmt)
    BY <2>1, ConcatProperties
  <2> QED
    BY <2>1, <2>2 DEF MonExec
<1> USE DbAssumption DEF MonAt, Acquire, Release, threadVars, Announcing,
        IInv, TypeOK, MutexInv, TestInv, InflightInv, NoLostWakeup
<1>1. CASE MonLock
  BY <1>1 DEF MonLock
<1>2. CASE MonTest
  BY <1>2 DEF MonTest
<1>3. CASE MonBlock
  BY <1>3 DEF MonBlock
<1>4. CASE MonPop
  BY <1>4 DEF MonPop
<1>5. CASE MonExec
  <2>1. MonAt("exec", "size") /\ inflight' = <<>>
        /\ UNCHANGED <<queries, queue_empty, lock, threadVars, drained>>
    BY <1>5 DEF MonExec
  <2> QED
    BY <1>0, <1>5, <2>1
<1>6. CASE MonSize
  BY <1>6 DEF MonSize
<1>7. CASE MonSet
  BY <1>7 DEF MonSet
<1>8. CASE MonRelock
  BY <1>8 DEF MonRelock
<1>9. CASE MonLoop
  BY <1>9 DEF MonLoop
<1>10. CASE MonSpuriousWake
  BY <1>10 DEF MonSpuriousWake
<1> QED
  BY <1>1, <1>2, <1>3, <1>4, <1>5, <1>6, <1>7, <1>8, <1>9, <1>10 DEF Monitor

\* Every step keeps it.
LEMMA NextKeepsIInv == IInv /\ [Next]_vars => IInv'
<1> SUFFICES ASSUME IInv, [Next]_vars PROVE IInv'
  OBVIOUS
<1>1. CASE \E t \in Threads : Thread(t)
  BY <1>1, ThreadKeepsIInv
<1>2. CASE Monitor \/ MonSpuriousWake
  BY <1>2, MonitorKeepsIInv
<1>3. CASE Restart
  BY <1>3, DbAssumption
  DEF Restart, IInv, TypeOK, MutexInv, TestInv, InflightInv, NoLostWakeup
<1>4. CASE UNCHANGED vars
  BY <1>4 DEF vars, IInv, TypeOK, MutexInv, TestInv, InflightInv, NoLostWakeup, Announcing
<1> QED
  BY <1>1, <1>2, <1>3, <1>4 DEF Next

\* In every reachable state of the write queue the invariant holds (db.cpp:28-66).
THEOREM InductiveInvariant == SafeSpec => []IInv
  BY InitIInv, NextKeepsIInv, PTL DEF SafeSpec

\* Every variable of the write queue keeps its type, for any number of callers.
THEOREM TypeCorrect == SafeSpec => []TypeOK
<1>1. IInv => TypeOK
  BY DEF IInv
<1> QED
  BY <1>1, InductiveInvariant, PTL

\* The monitor thread is never left asleep on a queue that is not empty without
\* the notify_all of db::push (db.cpp:32) still to come.
THEOREM NoWakeupIsLost == SafeSpec => []NoLostWakeup
<1>1. IInv => NoLostWakeup
  BY DEF IInv
<1> QED
  BY <1>1, InductiveInvariant, PTL

-----------------------------------------------------------------------------
(* Refinement of WriteBehind: what each kind of step does to the log. *)

\* The three parts of the log are sequences of statements.
LEMMA LogType ==
  ASSUME TypeOK
  PROVE  Log \in Seq(Stmt) /\ Len(disk) \in Nat
  BY ConcatProperties, LenProperties DEF TypeOK, Log

\* Appending to the last of three parts appends to the whole.
LEMMA AppendToLast ==
  ASSUME NEW S, NEW a \in Seq(S), NEW b \in Seq(S), NEW c \in Seq(S), NEW e \in S
  PROVE  a \o b \o Append(c, e) = Append(a \o b \o c, e)
<1>1. <<e>> \in Seq(S) /\ a \o b \in Seq(S) /\ a \o b \o c \in Seq(S)
  BY ConcatProperties
<1>2. Append(c, e) = c \o <<e>> /\ Append(a \o b \o c, e) = (a \o b \o c) \o <<e>>
  BY <1>1, AppendIsConcat
<1> QED
  BY <1>1, <1>2, ConcatAssociative

\* Moving the head of the last part into an empty middle part moves nothing.
LEMMA MoveHead ==
  ASSUME NEW S, NEW a \in Seq(S), NEW c \in Seq(S), c # <<>>
  PROVE  a \o <<Head(c)>> \o Tail(c) = a \o <<>> \o c
<1>1. Head(c) \in S /\ Tail(c) \in Seq(S) /\ <<Head(c)>> \in Seq(S)
  BY HeadTailProperties
<1>2. <<Head(c)>> \o Tail(c) = c
  <2>1. <<Head(c)>> \o Tail(c) \in Seq(S)
    BY <1>1, ConcatProperties
  <2>2. Len(<<Head(c)>> \o Tail(c)) = Len(c)
    BY <1>1, ConcatProperties, HeadTailProperties, LenProperties
  <2>3. \A i \in 1..Len(c) : (<<Head(c)>> \o Tail(c))[i] = c[i]
    BY <1>1, ConcatProperties, HeadTailProperties, LenProperties
  <2> QED
    BY <2>1, <2>2, <2>3, SeqEqual
<1>3. a \o <<>> = a
  BY ConcatEmptySeq
<1> QED
  BY <1>1, <1>2, <1>3, ConcatAssociative

\* A sequence is a prefix of what it is the first of three parts of.
LEMMA PrefixOfConcat ==
  ASSUME NEW S, NEW a \in Seq(S), NEW b \in Seq(S), NEW c \in Seq(S)
  PROVE  SubSeq(a \o b \o c, 1, Len(a)) = a
<1>1. a \o b \o c \in Seq(S) /\ a \o b \in Seq(S) /\ Len(a) \in Nat
  BY ConcatProperties, LenProperties
<1>2. \A i \in 1..Len(a) : (a \o b \o c)[i] = a[i]
  BY <1>1, ConcatProperties, LenProperties
<1>3. Len(a \o b \o c) >= Len(a)
  BY <1>1, ConcatProperties, LenProperties
<1>4. \A i \in 1..Len(a) : (a \o b \o c)[i] \in S
  BY <1>2, ElementOfSeq
<1>5. /\ SubSeq(a \o b \o c, 1, Len(a)) \in Seq(S)
      /\ Len(SubSeq(a \o b \o c, 1, Len(a))) = Len(a)
      /\ \A i \in 1..Len(a) : SubSeq(a \o b \o c, 1, Len(a))[i] = (a \o b \o c)[i]
  BY <1>1, <1>4, SubSeqProperties
<1> QED
  BY <1>2, <1>5, SeqEqual

\* Taking the middle statement out of the log.
LEMMA DropMiddle ==
  ASSUME NEW S, NEW a \in Seq(S), NEW e \in S, NEW c \in Seq(S),
         NEW l, l = a \o <<e>> \o c
  PROVE  /\ Len(a) < Len(l)
         /\ SubSeq(l, 1, Len(a)) = a
         /\ SubSeq(l, Len(a) + 2, Len(l)) = c
<1>1. <<e>> \in Seq(S) /\ Len(<<e>>) = 1 /\ <<e>> \o c \in Seq(S) /\ a \o <<e>> \in Seq(S)
  BY ConcatProperties
<1>2. l \in Seq(S) /\ Len(l) = Len(a) + 1 + Len(c) /\ l = a \o (<<e>> \o c)
  BY <1>1, ConcatProperties, ConcatAssociative, LenProperties
<1>3. Len(a) \in Nat /\ Len(c) \in Nat /\ Len(l) \in Nat
  BY <1>2, LenProperties
<1>4. \A i \in 1..Len(l) : l[i] \in S
  BY <1>2, ElementOfSeq
<1>5. \A i \in 1..Len(a) : l[i] = a[i]
  BY <1>1, <1>2, <1>3, ConcatProperties
<1>6. \A i \in 1..Len(c) : l[Len(a) + 1 + i] = c[i]
  BY <1>1, <1>3, ConcatProperties
<1>7. SubSeq(l, 1, Len(a)) = a
  <2>1. /\ SubSeq(l, 1, Len(a)) \in Seq(S)
        /\ Len(SubSeq(l, 1, Len(a))) = Len(a)
        /\ \A i \in 1..Len(a) : SubSeq(l, 1, Len(a))[i] = l[i]
    BY <1>2, <1>3, <1>4, SubSeqProperties
  <2> QED
    BY <1>5, <2>1, SeqEqual
<1>8. SubSeq(l, Len(a) + 2, Len(l)) = c
  <2>1. /\ SubSeq(l, Len(a) + 2, Len(l)) \in Seq(S)
        /\ Len(SubSeq(l, Len(a) + 2, Len(l))) = Len(c)
        /\ \A i \in 1..Len(c) : SubSeq(l, Len(a) + 2, Len(l))[i] = l[Len(a) + 1 + i]
    <3>1. \A i \in (Len(a) + 2)..Len(l) : l[i] \in S
      BY <1>2, <1>3, <1>4
    <3>2. /\ SubSeq(l, Len(a) + 2, Len(l)) \in Seq(S)
          /\ Len(SubSeq(l, Len(a) + 2, Len(l))) =
               IF Len(a) + 2 <= Len(l) THEN Len(l) - (Len(a) + 2) + 1 ELSE 0
          /\ \A i \in 1..Len(l) - (Len(a) + 2) + 1 :
               SubSeq(l, Len(a) + 2, Len(l))[i] = l[Len(a) + 2 + i - 1]
      BY <1>3, <3>1, SubSeqProperties
    <3> QED
      BY <1>2, <1>3, <3>2
  <2> QED
    BY <1>6, <2>1, SeqEqual
<1> QED
  BY <1>2, <1>3, <1>7, <1>8

\* A step that leaves the three parts of the log alone leaves the log alone.
LEMMA LogUntouched ==
  ASSUME UNCHANGED <<queries, inflight, disk>>
  PROVE  UNCHANGED <<Log, Len(disk)>>
  BY DEF Log

\* Every step of Db is a step of WriteBehind or leaves its log alone.
LEMMA StepRefines ==
  ASSUME IInv, [Next]_vars
  PROVE  WB!Next \/ UNCHANGED <<Log, Len(disk)>>
<1>1. TypeOK /\ InflightInv
  BY DEF IInv
<1>2. CASE \E t \in Threads : PushEnqueue(t)
  <2>1. PICK t \in Threads : PushEnqueue(t)
    BY <1>2
  <2>2. arg[t] \in Stmt /\ queries' = Append(queries, arg[t]) /\ inflight' = inflight /\ disk' = disk
    BY <1>1, <2>1 DEF TypeOK, PushEnqueue, monitorVars
  <2>3. Log' = Append(Log, arg[t])
    BY <1>1, <2>2, AppendToLast DEF TypeOK, Log
  <2> QED
    BY <2>2, <2>3 DEF WB!Next, WB!Issue
<1>3. CASE MonPop
  <2>1. /\ inflight = <<>> /\ inflight' = <<Head(queries)>>
        /\ queries' = Tail(queries) /\ disk' = disk
    BY <1>1, <1>3 DEF MonPop, MonAt, InflightInv
  <2>2. queries # <<>>
    BY <1>3 DEF IInv, TestInv, MonPop, MonAt
  <2>3. Log' = Log
    BY <1>1, <2>1, <2>2, MoveHead DEF TypeOK, Log
  <2> QED
    BY <2>1, <2>3
<1>4. CASE MonExec
  <2>1. PICK s \in Stmt : inflight = <<s>>
    BY <1>1, <1>4 DEF MonExec, MonAt, InflightInv
  <2>2. inflight' = <<>> /\ queries' = queries /\ (disk' = disk \o <<s>> \/ disk' = disk)
    BY <1>4, <2>1 DEF MonExec
  <2>3. /\ Len(disk) < Len(Log)
        /\ SubSeq(Log, 1, Len(disk)) = disk
        /\ SubSeq(Log, Len(disk) + 2, Len(Log)) = queries
    BY <1>1, <2>1, DropMiddle DEF TypeOK, Log
  <2>4. CASE disk' = disk \o <<s>>
    <3>1. <<s>> \in Seq(Stmt) /\ disk \o <<s>> \in Seq(Stmt) /\ Len(<<s>>) = 1
      BY <1>1, ConcatProperties DEF TypeOK
    <3>2. Len(disk') = Len(disk) + 1
      BY <1>1, <2>4, <3>1, ConcatProperties, LenProperties DEF TypeOK
    <3>3. Log' = Log
      BY <2>1, <2>2, <2>4, <3>1, ConcatEmptySeq DEF Log
    <3> QED
      BY <2>3, <3>2, <3>3 DEF WB!Next, WB!Apply
  <2>5. CASE disk' = disk
    <3>1. Log' = disk \o queries
      BY <1>1, <2>2, <2>5, ConcatEmptySeq DEF Log, TypeOK
    <3> QED
      BY <2>3, <2>5, <3>1 DEF WB!Next, WB!Refuse
  <2> QED
    BY <2>2, <2>4, <2>5
<1>5. CASE Restart
  <2>1. Log' = disk /\ disk' = disk
    BY <1>1, <1>5, ConcatEmptySeq DEF Restart, Log, TypeOK
  <2>2. SubSeq(Log, 1, Len(disk)) = disk
    BY <1>1, PrefixOfConcat DEF TypeOK, Log
  <2> QED
    BY <2>1, <2>2 DEF WB!Next, WB!Lose
<1>6. CASE UNCHANGED <<queries, inflight, disk>>
  BY <1>6, LogUntouched
<1> QED
  <2>1. CASE \E t \in Threads : Thread(t)
    BY <1>2, <1>6, <2>1 DEF Thread, PushStep, CallPush, PushLock, PushUnlock, PushFlag,
      PushNotify, Await, AwaitHoisted, SeeEmpty, monitorVars
  <2>2. CASE Monitor \/ MonSpuriousWake
    BY <1>3, <1>4, <1>6, <2>2 DEF Monitor, MonLock, MonTest, MonBlock, MonSize, MonSet,
      MonRelock, MonLoop, MonSpuriousWake
  <2>3. CASE UNCHANGED vars
    BY <1>6, <2>3 DEF vars
  <2> QED
    BY <1>5, <2>1, <2>2, <2>3 DEF Next

\* Class db is a write-behind log: the statements of its callers are decided in the
\* order of their pushes (db.cpp:29, 46-49), each once, and only the end of the
\* process loses any.
THEOREM WriteBehindLog == SafeSpec => KeepsLog
<1>1. Init => WB!Init
  BY ConcatEmptySeq, EmptySeq DEF Init, WB!Init, Log
<1>2. IInv /\ [Next]_vars => [WB!Next]_(WB!wbVars)
  BY StepRefines DEF WB!wbVars
<1> QED
  BY <1>1, <1>2, InductiveInvariant, PTL DEF SafeSpec, KeepsLog, WB!SafeSpec

=============================================================================
