--------------------------------- MODULE Db ---------------------------------
(***************************************************************************)
(* The write queue of class db (src/src/db.cpp): any thread appends a      *)
(* statement to `queries` under m_mutex, one detached monitor thread pops  *)
(* and executes, and the flag queue_empty, which the constructor of player *)
(* spins on, is written by both sides without the mutex.                   *)
(*                                                                         *)
(* One action per access to shared state; a local computation belongs to   *)
(* the access it precedes.                                                 *)
(***************************************************************************)
EXTENDS Naturals, Sequences, FiniteSets

CONSTANTS
  Threads,      \* threads that call db: main loop, joystick, websocket, watcher
  Stmt,         \* SQL statements
  MaxLog,       \* bound: statements applied, in flight or queued
  HoistedLoad   \* may the build read queue_empty only once in the spin loop?

ASSUME DbAssumption ==
  /\ "monitor" \notin Threads
  /\ "none" \notin Threads
  /\ MaxLog \in Nat
  /\ HoistedLoad \in BOOLEAN

VARIABLES
  queries,      \* db::queries
  queue_empty,  \* db::queue_empty
  lock,         \* the thread that holds m_mutex, or "none"
  pc,           \* where each thread is in a call of db
  arg,          \* the statement each thread is pushing
  mpc,          \* where the monitor thread is
  inflight,     \* the monitor's local q: popped, not yet executed
  drained,      \* the monitor's local result of queries.size() == 0
  disk          \* the statements the database file holds, in execution order

threadVars  == <<pc, arg>>
monitorVars == <<mpc, inflight, drained>>
vars == <<queries, queue_empty, lock, pc, arg, mpc, inflight, drained, disk>>

\* Everything handed over and neither refused nor lost, oldest first.
Log == disk \o inflight \o queries

Init ==
  /\ queries = <<>>
  /\ queue_empty = TRUE
  /\ lock = "none"
  /\ pc = [t \in Threads |-> "idle"]
  /\ arg \in [Threads -> Stmt]
  /\ mpc = "lock"
  /\ inflight = <<>>
  /\ drained = TRUE
  /\ disk = <<>>

Acquire(h) == lock = "none" /\ lock' = h
Release == lock' = "none"

At(t, here, next) == pc[t] = here /\ pc' = [pc EXCEPT ![t] = next]
MonAt(here, next) == mpc = here /\ mpc' = next

-----------------------------------------------------------------------------
(* db::push, called by thread t *)

\* Pushes under way that have not reached the queue yet count against MaxLog.
Entering == {t \in Threads : pc[t] \in {"lock", "push"}}

CallPush(t, s) ==
  /\ Len(Log) + Cardinality(Entering) < MaxLog
  /\ At(t, "idle", "lock")
  /\ arg' = [arg EXCEPT ![t] = s]
  /\ UNCHANGED <<queries, queue_empty, lock, monitorVars, disk>>

\* Mutant: the mutex is not taken.
PushWithoutLock(t) ==
  /\ At(t, "lock", "push")
  /\ UNCHANGED <<queries, queue_empty, lock, arg, monitorVars, disk>>

PushLock(t) ==
  /\ At(t, "lock", "push")
  /\ Acquire(t)
  /\ UNCHANGED <<queries, queue_empty, arg, monitorVars, disk>>

PushEnqueue(t) ==
  /\ At(t, "push", "unlock")
  /\ queries' = Append(queries, arg[t])
  /\ UNCHANGED <<queue_empty, lock, arg, monitorVars, disk>>

PushUnlock(t) ==
  /\ At(t, "unlock", "flag")
  /\ Release
  /\ UNCHANGED <<queries, queue_empty, arg, monitorVars, disk>>

PushFlag(t) ==
  /\ At(t, "flag", "notify")
  /\ queue_empty' = FALSE
  /\ UNCHANGED <<queries, lock, arg, monitorVars, disk>>

\* Mutant: notify_all is left out.
PushSilently(t) ==
  /\ At(t, "notify", "idle")
  /\ UNCHANGED <<queries, queue_empty, lock, arg, monitorVars, disk>>

PushNotify(t) ==
  /\ At(t, "notify", "idle")
  /\ mpc' = IF mpc = "asleep" THEN "lock" ELSE mpc
  /\ UNCHANGED <<queries, queue_empty, lock, arg, inflight, drained, disk>>

-----------------------------------------------------------------------------
(* while (!_db->empty_queue());   in the constructor of player *)

Await(t) ==
  /\ At(t, "idle", "await")
  /\ UNCHANGED <<queries, queue_empty, lock, arg, monitorVars, disk>>

\* The flag is a plain bool: a build may load it once, and then never leaves.
AwaitHoisted(t) ==
  /\ HoistedLoad /\ ~queue_empty
  /\ At(t, "idle", "stuck")
  /\ UNCHANGED <<queries, queue_empty, lock, arg, monitorVars, disk>>

SeeEmpty(t) ==
  /\ queue_empty
  /\ At(t, "await", "idle")
  /\ UNCHANGED <<queries, queue_empty, lock, arg, monitorVars, disk>>

-----------------------------------------------------------------------------
(* db::monitor *)

\* The lock of a new iteration, or the one cv.wait takes back when woken.
MonLock ==
  /\ MonAt("lock", "check")
  /\ Acquire("monitor")
  /\ UNCHANGED <<queries, queue_empty, threadVars, inflight, drained, disk>>

\* The predicate of cv.wait, evaluated with the mutex held ...
MonTest ==
  /\ mpc = "check"
  /\ mpc' = IF queries = <<>> THEN "block" ELSE "pop"
  /\ UNCHANGED <<queries, queue_empty, lock, threadVars, inflight, drained, disk>>

\* ... and false: the mutex is released and the thread sleeps.
MonBlock ==
  /\ MonAt("block", "asleep")
  /\ Release
  /\ UNCHANGED <<queries, queue_empty, threadVars, inflight, drained, disk>>

\* A condition variable may wake its waiter for no reason.
MonSpuriousWake ==
  /\ MonAt("asleep", "lock")
  /\ UNCHANGED <<queries, queue_empty, lock, threadVars, inflight, drained, disk>>

MonPop ==
  /\ MonAt("pop", "exec")
  /\ inflight' = <<Head(queries)>>
  /\ queries' = Tail(queries)
  /\ Release
  /\ UNCHANGED <<queue_empty, threadVars, drained, disk>>

\* Mutant: the statement executed is the queue's front, not the local copy.
MonExecFront ==
  /\ MonAt("exec", "size")
  /\ inflight' = <<>>
  /\ disk' = IF queries = <<>> THEN disk ELSE Append(disk, Head(queries))
  /\ UNCHANGED <<queries, queue_empty, lock, threadVars, drained>>

\* sqlite3_exec returns SQLITE_OK, or an error that is only printed.
MonExec ==
  /\ MonAt("exec", "size")
  /\ inflight' = <<>>
  /\ disk' \in {disk \o inflight, disk}
  /\ UNCHANGED <<queries, queue_empty, lock, threadVars, drained>>

\* queries.size() is read after the mutex was released ...
MonSize ==
  /\ MonAt("size", "set")
  /\ drained' = (queries = <<>>)
  /\ UNCHANGED <<queries, queue_empty, lock, threadVars, inflight, disk>>

\* ... and its result is written to the flag later still.
MonSet ==
  /\ MonAt("set", "relock")
  /\ queue_empty' = drained
  /\ UNCHANGED <<queries, lock, threadVars, inflight, drained, disk>>

MonRelock ==
  /\ MonAt("relock", "loop")
  /\ Acquire("monitor")
  /\ UNCHANGED <<queries, queue_empty, threadVars, inflight, drained, disk>>

\* The unique_lock goes out of scope at the end of the iteration.
MonLoop ==
  /\ MonAt("loop", "lock")
  /\ Release
  /\ UNCHANGED <<queries, queue_empty, threadVars, inflight, drained, disk>>

-----------------------------------------------------------------------------
\* The process ends and is started again: nothing drains the queue (~db is
\* empty), and the file keeps what was executed.
Restart ==
  /\ queries' = <<>>
  /\ queue_empty' = TRUE
  /\ lock' = "none"
  /\ pc' = [t \in Threads |-> "idle"]
  /\ mpc' = "lock"
  /\ inflight' = <<>>
  /\ drained' = TRUE
  /\ UNCHANGED <<arg, disk>>

PushStep(t) == PushLock(t) \/ PushEnqueue(t) \/ PushUnlock(t) \/ PushFlag(t) \/ PushNotify(t)

Thread(t) ==
  \/ \E s \in Stmt : CallPush(t, s)
  \/ PushStep(t)
  \/ Await(t) \/ AwaitHoisted(t) \/ SeeEmpty(t)

Monitor ==
  \/ MonLock \/ MonTest \/ MonBlock \/ MonPop
  \/ MonExec \/ MonSize \/ MonSet \/ MonRelock \/ MonLoop

Next == (\E t \in Threads : Thread(t)) \/ Monitor \/ MonSpuriousWake \/ Restart

SafeSpec == Init /\ [][Next]_vars

\* Every running thread is scheduled, and a thread that waits for a mutex that
\* is released again and again gets it in the end.  Nothing makes a caller push,
\* and nothing makes a condition variable wake up by itself.
Fairness ==
  /\ SF_vars(Monitor)
  /\ \A t \in Threads : SF_vars(PushStep(t)) /\ WF_vars(SeeEmpty(t))

Spec == SafeSpec /\ Fairness

-----------------------------------------------------------------------------
(* Properties *)

TypeOK ==
  /\ queries \in Seq(Stmt)
  /\ queue_empty \in BOOLEAN
  /\ lock \in Threads \cup {"monitor", "none"}
  /\ pc \in [Threads -> {"idle", "lock", "push", "unlock", "flag", "notify", "await", "stuck"}]
  /\ arg \in [Threads -> Stmt]
  /\ mpc \in {"lock", "check", "block", "asleep", "pop", "exec", "size", "set", "relock", "loop"}
  /\ inflight \in Seq(Stmt)
  /\ drained \in BOOLEAN
  /\ disk \in Seq(Stmt)

\* A push that has enqueued its statement and not yet notified.
Announcing(t) == pc[t] \in {"unlock", "flag", "notify"}

\* No lost wake-up: whenever the monitor sleeps on a queue that is not empty, the
\* notify_all of the push that filled it (db.cpp:32) is still to come.
NoLostWakeup ==
  mpc = "asleep" /\ queries # <<>> => \E t \in Threads : Announcing(t)

\* Whoever leaves the spin of player.cpp:48, announced as "waiting for empty q",
\* leaves it with nothing queued and nothing in flight.
WaitMeansDrained ==
  [][\A t \in Threads : SeeEmpty(t) => queries = <<>> /\ inflight = <<>>]_vars

\* A thread in that spin with nothing queued and nothing in flight gets out of it.
WaitEnds ==
  \A t \in Threads : pc[t] = "await" /\ queries = <<>> /\ inflight = <<>> ~> pc[t] = "idle"

WB == INSTANCE WriteBehind WITH log <- Log, done <- Len(disk)

\* The whole class is a write-behind log: callers' statements are decided in the
\* order of their pushes (db.cpp:29, 46-49), none twice and none skipped, and
\* only the end of the process loses any.
KeepsLog == WB!SafeSpec

\* The oldest statement not yet executed or refused does not stay so for ever:
\* the monitor is never asleep for good with work in the queue (db.cpp:40).
DecidesEveryStatement == WB!Fairness

=============================================================================
