------------------------------ MODULE DbQueue ------------------------------
(***************************************************************************)
(* Class db_queue (src/src/db_queue.cpp): two queues, each with a mutex    *)
(* and a consumer thread, that share one condition variable and the flag   *)
(* `monitor`, which player::populate clears and nothing sets again.        *)
(*                                                                         *)
(* An entry of the duration queue is a pointer into the stack of the       *)
(* thread that pushed it, so an entry is the thread.                       *)
(***************************************************************************)
EXTENDS Naturals, Sequences, FiniteSets

CONSTANTS
  Threads,      \* threads that construct tracks, hence push
  MaxQueue      \* bound: entries waiting in a queue or on their way to it

Queues == {"song", "duration"}

ASSUME DbQueueAssumption ==
  /\ Threads \cap {"none", "consumer"} = {}
  /\ MaxQueue \in Nat

VARIABLES
  monitor,      \* db_queue::monitor
  queue,        \* song_queue and duration_queue
  mut,          \* holder of mut_song and mut_duration: a thread, "consumer" or "none"
  pc, into,     \* where each thread is in a push, and into which queue
  cpc,          \* where the consumer of each queue is
  entry,        \* the consumer's local copy
  up            \* FALSE once the process has crashed

threadVars == <<pc, into>>
vars == <<monitor, queue, mut, threadVars, cpc, entry, up>>

Init ==
  /\ monitor = TRUE
  /\ queue = [k \in Queues |-> <<>>]
  /\ mut = [k \in Queues |-> "none"]
  /\ pc = [t \in Threads |-> "idle"]
  /\ into = [t \in Threads |-> "duration"]
  /\ cpc = [k \in Queues |-> "lock"]
  /\ entry = [k \in Queues |-> "none"]
  /\ up = TRUE

Acquire(k, h) == mut[k] = "none" /\ mut' = [mut EXCEPT ![k] = h]
Release(k) == mut' = [mut EXCEPT ![k] = "none"]

At(t, here, next) == up /\ pc[t] = here /\ pc' = [pc EXCEPT ![t] = next]
ConAt(k, here, next) == up /\ cpc[k] = here /\ cpc' = [cpc EXCEPT ![k] = next]

-----------------------------------------------------------------------------
(* db_queue::push_song and push_duration, called by thread t *)

Entering(k) == {t \in Threads : pc[t] \in {"lock", "push"} /\ into[t] = k}

CallPush(t, k) ==
  /\ Len(queue[k]) + Cardinality(Entering(k)) < MaxQueue
  /\ At(t, "idle", "lock")
  /\ into' = [into EXCEPT ![t] = k]
  /\ UNCHANGED <<monitor, queue, mut, cpc, entry, up>>

PushLock(t) ==
  /\ At(t, "lock", "push")
  /\ Acquire(into[t], t)
  /\ UNCHANGED <<monitor, queue, into, cpc, entry, up>>

PushEnqueue(t) ==
  /\ At(t, "push", "notify")
  /\ queue' = [queue EXCEPT ![into[t]] = Append(@, t)]
  /\ Release(into[t])
  /\ UNCHANGED <<monitor, into, cpc, entry, up>>

\* Mutant: notify_one, which wakes either consumer.
PushNotifyOne(t) ==
  /\ At(t, "notify", "idle")
  /\ \E k \in Queues :
       /\ cpc[k] = "asleep" \/ \A j \in Queues : cpc[j] # "asleep"
       /\ cpc' = [cpc EXCEPT ![k] = IF @ = "asleep" THEN "woken" ELSE @]
  /\ UNCHANGED <<monitor, queue, mut, into, entry, up>>

\* notify_all wakes the consumers of both queues; the caller's locals are gone
\* soon after.
PushNotify(t) ==
  /\ At(t, "notify", "idle")
  /\ cpc' = [k \in Queues |-> IF cpc[k] = "asleep" THEN "woken" ELSE cpc[k]]
  /\ UNCHANGED <<monitor, queue, mut, into, entry, up>>

PushStep(t) == PushLock(t) \/ PushEnqueue(t) \/ PushNotify(t)

-----------------------------------------------------------------------------
(* db_queue::monitor_update and monitor_duration *)

\* The lock a consumer starts with, or takes back after handling an entry.
ConLock(k) ==
  /\ ConAt(k, "lock", "loop")
  /\ Acquire(k, "consumer")
  /\ UNCHANGED <<monitor, queue, threadVars, entry, up>>

\* monitor_update tests the flag before it waits and otherwise runs round its
\* outer loop; monitor_duration always waits.
ConLoop(k) ==
  /\ ConAt(k, "loop", IF k = "song" /\ ~monitor THEN "loop" ELSE "test")
  /\ UNCHANGED <<monitor, queue, mut, threadVars, entry, up>>

\* Mutant: the predicate asks for the flag alone.
ConTestFlag(k) ==
  /\ ConAt(k, "test", IF ~monitor THEN "take" ELSE "block")
  /\ UNCHANGED <<monitor, queue, mut, threadVars, entry, up>>

\* The predicate of cv.wait, with the mutex held ...
ConTest(k) ==
  /\ ConAt(k, "test", IF queue[k] # <<>> \/ ~monitor THEN "take" ELSE "block")
  /\ UNCHANGED <<monitor, queue, mut, threadVars, entry, up>>

\* Mutant: the consumer sleeps with the mutex locked.
ConBlockLocked(k) ==
  /\ ConAt(k, "block", "asleep")
  /\ UNCHANGED <<monitor, queue, mut, threadVars, entry, up>>

\* ... and false.
ConBlock(k) ==
  /\ ConAt(k, "block", "asleep")
  /\ Release(k)
  /\ UNCHANGED <<monitor, queue, threadVars, entry, up>>

ConSpuriousWake(k) ==
  /\ ConAt(k, "asleep", "woken")
  /\ UNCHANGED <<monitor, queue, mut, threadVars, entry, up>>

ConWake(k) ==
  /\ ConAt(k, "woken", "test")
  /\ Acquire(k, "consumer")
  /\ UNCHANGED <<monitor, queue, threadVars, entry, up>>

ConTake(k) ==
  /\ monitor /\ queue[k] # <<>>
  /\ ConAt(k, "take", "handle")
  /\ entry' = [entry EXCEPT ![k] = Head(queue[k])]
  /\ queue' = [queue EXCEPT ![k] = Tail(@)]
  /\ Release(k)
  /\ UNCHANGED <<monitor, threadVars, up>>

\* The flag was cleared since the predicate held, or is what made it hold: the
\* consumer goes round again with the mutex in its hands.
ConSkip(k) ==
  /\ ~monitor \/ queue[k] = <<>>
  /\ ConAt(k, "take", "loop")
  /\ UNCHANGED <<monitor, queue, mut, threadVars, entry, up>>

\* db::update_track of a copy, or db::update_duration through a pointer: unless
\* its owner is still inside push_duration it reads and writes a dead stack frame.
ConHandle(k) ==
  /\ ConAt(k, "handle", "lock")
  /\ up' \in IF k = "song" \/ pc[entry[k]] = "notify" THEN {TRUE} ELSE BOOLEAN
  /\ entry' = [entry EXCEPT ![k] = "none"]
  /\ UNCHANGED <<monitor, queue, mut, threadVars>>

Consumer(k) ==
  \/ ConLock(k) \/ ConLoop(k) \/ ConTest(k) \/ ConBlock(k) \/ ConWake(k)
  \/ ConTake(k) \/ ConSkip(k) \/ ConHandle(k)

-----------------------------------------------------------------------------
\* player::populate, called by the constructor of player for an empty catalog and
\* by the file watcher for a new directory, clears the flag at both its ends and
\* notifies nobody.
Populate ==
  /\ up /\ monitor
  /\ monitor' = FALSE
  /\ UNCHANGED <<queue, mut, threadVars, cpc, entry, up>>

\* The process ends and is started again; the queues are only in memory.
Restart ==
  /\ monitor' = TRUE /\ up' = TRUE
  /\ queue' = [k \in Queues |-> <<>>]
  /\ mut' = [k \in Queues |-> "none"]
  /\ pc' = [t \in Threads |-> "idle"]
  /\ cpc' = [k \in Queues |-> "lock"]
  /\ entry' = [k \in Queues |-> "none"]
  /\ UNCHANGED into

Next ==
  \/ \E t \in Threads : PushStep(t) \/ \E k \in Queues : CallPush(t, k)
  \/ \E k \in Queues : Consumer(k) \/ ConSpuriousWake(k)
  \/ Populate \/ Restart

\* Running threads are scheduled, and who waits for a mutex that is released
\* again and again gets it in the end.
Fairness ==
  /\ \A t \in Threads : SF_vars(PushStep(t))
  /\ \A k \in Queues : SF_vars(Consumer(k))

Spec == Init /\ [][Next]_vars /\ Fairness

-----------------------------------------------------------------------------
(* Properties *)

TypeOK ==
  /\ monitor \in BOOLEAN /\ up \in BOOLEAN
  /\ queue \in [Queues -> Seq(Threads)]
  /\ mut \in [Queues -> Threads \cup {"consumer", "none"}]
  /\ pc \in [Threads -> {"idle", "lock", "push", "notify"}]
  /\ into \in [Threads -> Queues]
  /\ cpc \in [Queues -> {"lock", "loop", "test", "block", "asleep", "woken", "take", "handle"}]
  /\ entry \in [Queues -> Threads \cup {"none"}]

\* While the flag is set no consumer sleeps on entries nobody will wake it for,
\* although both share one condition variable (db_queue.cpp:34, 42).
NoLostWakeup ==
  \A k \in Queues : monitor /\ cpc[k] = "asleep" /\ queue[k] # <<>> =>
    \E t \in Threads : pc[t] = "notify"

\* The consumer has its mutex for good: the flag was cleared (player.cpp:92, 130).
Spins(k) == ~monitor /\ mut[k] = "consumer" /\ cpc[k] \in {"loop", "test", "take"}

\* A push returns, unless the consumer of its queue has woken up after the flag was
\* cleared and runs in circles with the mutex (db_queue.cpp:48-64, 71-87).
PushReturns ==
  \A t \in Threads : pc[t] # "idle" ~> pc[t] = "idle" \/ Spins(into[t]) \/ ~up

\* While the flag is set, a queue that holds entries is served again and again.
QueueServed ==
  \A k \in Queues :
    []<>(queue[k] = <<>> \/ ~monitor \/ ~up) \/ []<><<ConTake(k)>>_vars

=============================================================================
