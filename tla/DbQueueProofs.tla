--------------------------- MODULE DbQueueProofs ---------------------------
(***************************************************************************)
(* What module DbQueue promises, for any number of threads that push and   *)
(* any bound on the queues.                                                *)
(***************************************************************************)
EXTENDS DbQueue, SequenceTheorems, TLAPS

\* Each mutex: who is between locking and unlocking it holds it.
MutexInv ==
  /\ \A t \in Threads : pc[t] = "push" => mut[into[t]] = t
  /\ \A k \in Queues : cpc[k] \in {"loop", "test", "block", "take"} => mut[k] = "consumer"

\* A consumer about to sleep while the flag is set has still nothing to do.
TestInv == \A k \in Queues : cpc[k] = "block" /\ monitor => queue[k] = <<>>

\* NoLostWakeup is not inductive by itself: it needs that nobody enqueues between
\* a consumer's test of its queue and its going to sleep, which the mutex of that
\* queue sees to although the condition variable is shared.
IInv == TypeOK /\ MutexInv /\ TestInv /\ NoLostWakeup

\* The first start establishes the invariant.
LEMMA InitIInv == Init => IInv
  BY DbQueueAssumption DEF Init, IInv, TypeOK, MutexInv, TestInv, NoLostWakeup, Queues

\* The steps of push_song and push_duration.
LEMMA PushKeepsIInv ==
  ASSUME IInv, NEW t \in Threads,
         PushStep(t) \/ \E k \in Queues : CallPush(t, k)
  PROVE  IInv'
<1> USE DbQueueAssumption DEF At, Acquire, Release, threadVars, IInv, TypeOK, MutexInv,
        TestInv, NoLostWakeup
<1>1. ASSUME NEW k \in Queues, CallPush(t, k) PROVE IInv'
  BY <1>1 DEF CallPush
<1>2. CASE PushLock(t)
  BY <1>2 DEF PushLock
<1>3. CASE PushEnqueue(t)
  <2>1. queue' = [queue EXCEPT ![into[t]] = Append(queue[into[t]], t)]
    BY <1>3 DEF PushEnqueue
  <2>2. into[t] \in Queues /\ queue[into[t]] \in Seq(Threads)
    OBVIOUS
  <2>3. queue' \in [Queues -> Seq(Threads)]
    BY <2>1, <2>2, AppendProperties
  <2>4. \A k \in Queues : k # into[t] => queue'[k] = queue[k]
    BY <2>1
  <2>5. /\ At(t, "push", "notify") /\ Release(into[t])
        /\ UNCHANGED <<monitor, into, cpc, entry, up>>
    BY <1>3 DEF PushEnqueue
  <2>6. MutexInv'
    BY <2>2, <2>5
  <2>7. TestInv'
    BY <2>2, <2>4, <2>5
  <2> QED
    BY <2>3, <2>5, <2>6, <2>7
<1>4. CASE PushNotify(t)
  BY <1>4 DEF PushNotify
<1> QED
  BY <1>1, <1>2, <1>3, <1>4 DEF PushStep

\* The steps of monitor_update and monitor_duration.
LEMMA ConsumerKeepsIInv ==
  ASSUME IInv, NEW k \in Queues, Consumer(k) \/ ConSpuriousWake(k)
  PROVE  IInv'
<1> USE DbQueueAssumption DEF ConAt, Acquire, Release, threadVars, IInv, TypeOK, MutexInv,
        TestInv, NoLostWakeup
<1>1. CASE ConLock(k)
  BY <1>1 DEF ConLock
<1>2. CASE ConLoop(k)
  BY <1>2 DEF ConLoop
<1>3. CASE ConTest(k)
  BY <1>3 DEF ConTest
<1>4. CASE ConBlock(k)
  BY <1>4 DEF ConBlock
<1>5. CASE ConWake(k)
  BY <1>5 DEF ConWake
<1>6. CASE ConTake(k)
  <2>1. /\ queue[k] # <<>> /\ queue[k] \in Seq(Threads)
        /\ entry' = [entry EXCEPT ![k] = Head(queue[k])]
        /\ queue' = [queue EXCEPT ![k] = Tail(queue[k])]
    BY <1>6 DEF ConTake
  <2>2. Head(queue[k]) \in Threads /\ Tail(queue[k]) \in Seq(Threads)
    BY <2>1, HeadTailProperties
  <2>3. /\ entry' \in [Queues -> Threads \cup {"none"}]
        /\ queue' \in [Queues -> Seq(Threads)]
    BY <2>1, <2>2
  <2>4. ConAt(k, "take", "handle") /\ Release(k) /\ UNCHANGED <<monitor, threadVars, up>>
    BY <1>6 DEF ConTake
  <2>5. \A j \in Queues : j # k => queue'[j] = queue[j]
    BY <2>1
  <2>6. MutexInv'
    BY <2>4
  <2>7. TestInv' /\ NoLostWakeup'
    BY <2>4, <2>5
  <2> QED
    BY <2>3, <2>4, <2>6, <2>7
<1>7. CASE ConSkip(k)
  BY <1>7 DEF ConSkip
<1>8. CASE ConHandle(k)
  <2>1. up' \in BOOLEAN
    BY <1>8 DEF ConHandle
  <2>2. ConAt(k, "handle", "lock") /\ entry' = [entry EXCEPT ![k] = "none"]
        /\ UNCHANGED <<monitor, queue, mut, threadVars>>
    BY <1>8 DEF ConHandle
  <2> QED
    BY <2>1, <2>2
<1>9. CASE ConSpuriousWake(k)
  BY <1>9 DEF ConSpuriousWake
<1> QED
  BY <1>1, <1>2, <1>3, <1>4, <1>5, <1>6, <1>7, <1>8, <1>9 DEF Consumer

\* Every step keeps it.
LEMMA NextKeepsIInv == IInv /\ [Next]_vars => IInv'
<1> SUFFICES ASSUME IInv, [Next]_vars PROVE IInv'
  OBVIOUS
<1>1. CASE \E t \in Threads : PushStep(t) \/ \E k \in Queues : CallPush(t, k)
  BY <1>1, PushKeepsIInv
<1>2. CASE \E k \in Queues : Consumer(k) \/ ConSpuriousWake(k)
  BY <1>2, ConsumerKeepsIInv
<1>3. CASE Populate
  BY <1>3 DEF Populate, threadVars, IInv, TypeOK, MutexInv, TestInv, NoLostWakeup
<1>4. CASE Restart
  BY <1>4, DbQueueAssumption DEF Restart, IInv, TypeOK, MutexInv, TestInv, NoLostWakeup, Queues
<1>5. CASE UNCHANGED vars
  BY <1>5 DEF vars, threadVars, IInv, TypeOK, MutexInv, TestInv, NoLostWakeup
<1> QED
  BY <1>1, <1>2, <1>3, <1>4, <1>5 DEF Next

\* In every reachable state of the two queues the invariant holds
\* (db_queue.cpp:24-97).
THEOREM InductiveInvariant == Spec => []IInv
  BY InitIInv, NextKeepsIInv, PTL DEF Spec

\* Every variable of the two queues keeps its type: what is queued and handled is
\* always a pointer somebody pushed.
THEOREM TypeCorrect == Spec => []TypeOK
<1>1. IInv => TypeOK
  BY DEF IInv
<1> QED
  BY <1>1, InductiveInvariant, PTL

\* While the flag is set, neither consumer is left asleep on entries without a
\* notify_all still to come, although both sleep on one condition variable and
\* their mutexes differ (db_queue.cpp:31-59, 75-95).
THEOREM WakeupsAreNotLost == Spec => []NoLostWakeup
<1>1. IInv => NoLostWakeup
  BY DEF IInv
<1> QED
  BY <1>1, InductiveInvariant, PTL

=============================================================================
