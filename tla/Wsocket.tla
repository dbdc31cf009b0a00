------------------------------ MODULE Wsocket ------------------------------
(***************************************************************************)
(* Class wsocket (src/src/wsocket.cpp): how the state of the player gets   *)
(* to websocket clients.  Every connection has a thread that spins on one  *)
(* shared flag, which the player's signal sets and every thread clears.    *)
(*                                                                         *)
(* The player's state is a version that grows; a message is the version    *)
(* player::json was built from.  json, and the operations that play,       *)
(* construct tracks, and these call db_queue::push_duration, which may     *)
(* never return once player::populate has cleared the flag of DbQueue.     *)
(***************************************************************************)
EXTENDS Naturals, FiniteSets

CONSTANTS
  Clients,      \* connections; each is opened at most once
  MaxVersion,   \* bound: changes of the player
  HoistedLoad   \* may the build read the plain bool once, ahead of the loop?

ASSUME WsocketAssumption ==
  /\ MaxVersion \in Nat /\ HoistedLoad \in BOOLEAN
  /\ Clients \cap {"player", "endpoint"} = {}

VARIABLES
  phase,        \* "bind": in the constructor; "run": start was called; "dead"
  caught,       \* who is inside push_duration for ever
  taken,        \* is port 9002 in use by another program?
  version,      \* the player's state
  signals,      \* how many signals the operation under way has yet to give
  update,       \* the shared flag
  conn,         \* each connection: "new", "open" or "closed"
  pc, built,    \* each connection's thread, and the message it is about to send
  answer,       \* the message the endpoint's thread answers a client with, 0 for none
  seen,         \* the last message each client got
  told,         \* the newest state a connection's thread has built a message from
  raced         \* connections with a message and an answer under way at once

server == <<phase, taken, caught>>
vars == <<server, version, signals, update, conn, pc, built, answer, seen, told, raced>>

Threads == {c \in Clients : pc[c] # "none"}

\* Besides the connections' threads: the endpoint's, and an operation of the player.
Others == {"player", "endpoint"}

Alive == phase # "dead"

\* The endpoint's thread serves one event at a time, until it is caught in one.
Serving == phase = "run" /\ "endpoint" \notin caught /\ \A c \in Clients : answer[c] = 0

\* x are in a track's constructor and do not come back: so after a scan, which may
\* have been made on the first start, before anybody is served.
Catch(x) ==
  /\ Alive
  /\ caught' = caught \cup x
  /\ UNCHANGED <<phase, taken, version, update, conn, pc, built, answer, seen, told, raced>>

-----------------------------------------------------------------------------
(* The constructor: listen, and again three seconds later *)

\* Another program comes or goes; the port the endpoint listens on stays its own.
Port ==
  /\ phase # "run" /\ taken' = ~taken
  /\ UNCHANGED <<phase, caught, version, signals, update, conn, pc, built, answer, seen, told, raced>>

\* Mutant: one attempt, then start regardless.
ListenOnce ==
  /\ phase = "bind"
  /\ phase' = IF taken THEN "none" ELSE "run"
  /\ UNCHANGED <<taken, caught, version, signals, update, conn, pc, built, answer, seen, told, raced>>

Listen ==
  /\ phase = "bind"
  /\ phase' = IF taken THEN "bind" ELSE "run"
  /\ UNCHANGED <<taken, caught, version, signals, update, conn, pc, built, answer, seen, told, raced>>

-----------------------------------------------------------------------------
(* The player: an operation changes its state, and signals once (play, pause, *)
(* stop) or twice (next, previous, playlist_up and playlist_down, which play).*)

\* The track play constructs comes before the signals, which are then never given.
\* It may have been a client that asked for the operation.
PlayerCaught ==
  /\ signals > 0 /\ signals' = 0
  /\ Catch({"player"}) \/ (Serving /\ Catch(Others))

\* The consumer of durations reads the stack frame of a constructor that has
\* returned; the operations that start and stop have reached by then.
Crash ==
  /\ Alive /\ phase' = "dead"
  /\ signals' = 0 /\ update' = FALSE /\ caught' = {} /\ raced' = {}
  /\ conn' = [c \in Clients |-> "closed"] /\ pc' = [c \in Clients |-> "none"]
  /\ built' = [c \in Clients |-> 0] /\ answer' = [c \in Clients |-> 0]
  /\ UNCHANGED <<taken, version, seen, told>>

Change ==
  /\ Alive /\ signals = 0 /\ version <= MaxVersion
  /\ version' = version + 1
  /\ signals' \in {1, 2}
  /\ UNCHANGED <<server, update, conn, pc, built, answer, seen, told, raced>>

\* Mutant: the flag is only set where nobody is connected yet.
PlayerUpdateOnce ==
  /\ Alive /\ signals > 0
  /\ signals' = signals - 1
  /\ update' = (update \/ Threads = {})
  /\ UNCHANGED <<server, version, conn, pc, built, answer, seen, told, raced>>

\* wsocket::player_update
PlayerUpdate ==
  /\ Alive /\ signals > 0
  /\ signals' = signals - 1
  /\ update' = TRUE
  /\ UNCHANGED <<server, version, conn, pc, built, answer, seen, told, raced>>

-----------------------------------------------------------------------------
(* The endpoint's thread: onOpen, onClose, onMessage *)

OnOpen(c) ==
  /\ Serving /\ conn[c] = "new"
  /\ conn' = [conn EXCEPT ![c] = "open"]
  /\ pc' = [pc EXCEPT ![c] = "test"]
  /\ UNCHANGED <<server, version, signals, update, built, answer, seen, told, raced>>

\* The connection's thread is not told.
OnClose(c) ==
  /\ Serving /\ conn[c] = "open"
  /\ conn' = [conn EXCEPT ![c] = "closed"]
  /\ UNCHANGED <<server, version, signals, update, pc, built, answer, seen, told, raced>>

\* A message that is no JSON is answered with the player's state, if its JSON gets
\* built.
OnMessage(c) ==
  /\ Serving /\ conn[c] = "open"
  /\ answer' = [answer EXCEPT ![c] = version]
  /\ raced' = IF pc[c] = "send" THEN raced \cup {c} ELSE raced
  /\ UNCHANGED <<server, version, signals, update, conn, pc, built, seen, told>>

OnMessageCaught(c) == conn[c] = "open" /\ Serving /\ Catch({"endpoint"}) /\ UNCHANGED signals

\* A message that is JSON but no object fails the assertion of HasMember.
OnMessageDies(c) == conn[c] = "open" /\ Serving /\ Crash

Answer(c) ==
  /\ Alive /\ answer[c] # 0
  /\ seen' = [seen EXCEPT ![c] = answer[c]]
  /\ answer' = [answer EXCEPT ![c] = 0]
  /\ raced' = IF pc[c] = "send" THEN raced ELSE raced \ {c}
  /\ UNCHANGED <<server, version, signals, update, conn, pc, built, told>>

-----------------------------------------------------------------------------
(* wsocket::player_handler, the thread of a connection *)

Test(c) ==
  /\ Alive /\ pc[c] = "test" /\ update
  /\ pc' = [pc EXCEPT ![c] = "build"]
  /\ UNCHANGED <<server, version, signals, update, conn, built, answer, seen, told, raced>>

\* The flag is false and will never be looked at again.
TestHoisted(c) ==
  /\ Alive /\ HoistedLoad /\ pc[c] = "test" /\ ~update
  /\ pc' = [pc EXCEPT ![c] = "blind"]
  /\ UNCHANGED <<server, version, signals, update, conn, built, answer, seen, told, raced>>

\* Mutant: the state before the change is sent.
BuildOld(c) ==
  /\ Alive /\ pc[c] = "build" /\ c \notin caught
  /\ built' = [built EXCEPT ![c] = version - 1]
  /\ told' = IF told < version - 1 THEN version - 1 ELSE told
  /\ pc' = [pc EXCEPT ![c] = "send"]
  /\ raced' = IF answer[c] # 0 THEN raced \cup {c} ELSE raced
  /\ UNCHANGED <<server, version, signals, update, conn, answer, seen>>

\* player::json
Build(c) ==
  /\ Alive /\ pc[c] = "build" /\ c \notin caught
  /\ built' = [built EXCEPT ![c] = version]
  /\ told' = IF told < version THEN version ELSE told
  /\ pc' = [pc EXCEPT ![c] = "send"]
  /\ raced' = IF answer[c] # 0 THEN raced \cup {c} ELSE raced
  /\ UNCHANGED <<server, version, signals, update, conn, answer, seen>>

\* ... which constructs the track before and the one behind, and may not return.
BuildCaught(c) == pc[c] = "build" /\ c \notin caught /\ Catch({c}) /\ UNCHANGED signals

\* Sending to a connection that is closed is an error that is printed; it is the
\* endpoint's thread that writes to the socket.
Send(c) ==
  /\ Alive /\ pc[c] = "send"
  /\ seen' = IF conn[c] = "open" /\ "endpoint" \notin caught THEN [seen EXCEPT ![c] = built[c]] ELSE seen
  /\ built' = [built EXCEPT ![c] = 0]
  /\ pc' = [pc EXCEPT ![c] = "clear"]
  /\ raced' = IF answer[c] = 0 THEN raced \ {c} ELSE raced
  /\ UNCHANGED <<server, version, signals, update, conn, answer, told>>

Clear(c) ==
  /\ Alive /\ pc[c] = "clear"
  /\ update' = FALSE
  /\ pc' = [pc EXCEPT ![c] = "test"]
  /\ UNCHANGED <<server, version, signals, conn, built, answer, seen, told, raced>>

Handler(c) == Test(c) \/ Build(c) \/ Send(c) \/ Clear(c)

-----------------------------------------------------------------------------
Init ==
  /\ phase = "bind" /\ taken \in BOOLEAN
  /\ caught = {}
  /\ version = 1 /\ signals = 0 /\ update = FALSE
  /\ conn = [c \in Clients |-> "new"] /\ pc = [c \in Clients |-> "none"]
  /\ built = [c \in Clients |-> 0] /\ answer = [c \in Clients |-> 0]
  /\ seen = [c \in Clients |-> 0] /\ told = 0 /\ raced = {}

Endpoint ==
  \E c \in Clients :
    \/ OnOpen(c) \/ OnClose(c)
    \/ OnMessage(c) \/ OnMessageCaught(c) \/ OnMessageDies(c) \/ Answer(c)

Next ==
  \/ Port \/ Listen
  \/ Change \/ PlayerUpdate \/ PlayerCaught
  \/ Crash
  \/ Endpoint
  \/ \E c \in Clients : Handler(c) \/ TestHoisted(c) \/ BuildCaught(c)

\* Threads that can run are scheduled, the constructor tries again, a signal
\* reaches its slot, an answer is sent: unless they are caught.
Spec ==
  /\ Init /\ [][Next]_vars
  /\ WF_vars(Listen) /\ WF_vars(PlayerUpdate)
  /\ \A c \in Clients : WF_vars(Handler(c)) /\ WF_vars(Answer(c))

-----------------------------------------------------------------------------
(* Properties *)

TypeOK ==
  /\ phase \in {"bind", "run", "dead"} /\ taken \in BOOLEAN
  /\ caught \subseteq Clients \cup Others
  /\ version \in 1..(1 + MaxVersion) /\ signals \in 0..2 /\ update \in BOOLEAN
  /\ conn \in [Clients -> {"new", "open", "closed"}]
  /\ pc \in [Clients -> {"none", "test", "build", "send", "clear", "blind"}]
  /\ built \in [Clients -> 0..version] /\ answer \in [Clients -> 0..version]
  /\ seen \in [Clients -> 0..version] /\ told \in 0..version
  /\ raced \subseteq Clients

\* The constructor ends once the port stays free (wsocket.cpp:29-40).
ListensInTheEnd == (<>[](~taken)) => <>(phase \in {"run", "dead"})

AllLooking == Threads # {} /\ \A c \in Threads : pc[c] = "test"

\* In a build that reads the flag once a thread may never see it again.
Blind == \E c \in Clients : pc[c] = "blind"

\* After a scan the operation may be caught before it signals, and a thread before
\* its message is built.
Silenced(threads) == phase = "dead" \/ "player" \in caught \/ threads \subseteq caught

\* A change signalled while every thread is looking at the flag is built into a
\* message by one of them at least, although each thread clears it for all, unless
\* the operation is caught before it signals, or all the threads there are.
UpdateReachesOne ==
  \A v \in 1..(1 + MaxVersion) :
    (signals > 0 /\ version = v /\ AllLooking) ~> (told >= v \/ Blind \/ Silenced(Threads))

\* The only connection there ever was gets what is signalled while its thread is
\* looking at the flag, or something newer, unless a scan lets the operation, the
\* thread or the endpoint be caught.
LoneClientIsTold ==
  \A c \in Clients, v \in 1..(1 + MaxVersion) :
    (signals > 0 /\ version = v /\ Threads = {c} /\ pc[c] = "test" /\ conn[c] = "open")
      ~> \/ seen[c] >= v \/ Blind \/ conn[c] = "closed" \/ Threads # {c}
         \/ Silenced({c}) \/ "endpoint" \in caught

\* A client is shown an older state after a newer one only when an answer and an
\* update were under way to it at once (wsocket.cpp:63, 123).
BackOnlyInRaces ==
  [][\A c \in Clients : seen'[c] < seen[c] => c \in raced]_vars

=============================================================================
