---------------------------- MODULE PlayerThreads ----------------------------
(***************************************************************************)
(* next, previous and play of class player (src/src/player.cpp:218-261)    *)
(* when they overlap: the main loop's at the end of a stream, and those of *)
(* the joystick's and the websocket's threads.  Nothing is locked, so a    *)
(* step here is one access to what they share.                             *)
(*                                                                         *)
(* A track is its index in the current playlist; the list is a circle of   *)
(* Size nodes and a header, whose index, Size, is end().  What the consumer *)
(* of durations does with the pointer a track gives it is left to DbQueue. *)
(***************************************************************************)
EXTENDS Naturals

CONSTANTS
  Size,         \* tracks of the current playlist
  Users         \* threads that call operations, besides the main loop

ASSUME PlayerThreadsAssumption == Size \in Nat \ {0} /\ "loop" \notin Users

Threads == Users \cup {"loop"}
End == Size                 \* of a cursor: end(); of a track: what lies there, no path
Operations == {"next", "previous", "play"}

VARIABLES
  it_track,
  current_track,
  uri, playbin, heard,      \* the pipeline: its property, its state, what it plays, if anything
  saved,                    \* the position pushed last
  bus, watch,               \* the pipeline's message, and is on_bus_message attached?
  op, pc, reg,              \* what each thread does, where, and the value it holds
  overlapped,               \* did another operation run during that of the thread?
  crossed,                  \* did previous ever overlap another step of the cursor?
  phase                     \* "run" or "dead"

pipeline == <<uri, playbin, heard, bus>>
ghosts == <<overlapped, crossed>>
vars == <<it_track, current_track, pipeline, saved, watch, op, pc, reg, ghosts, phase>>

Busy(t) == pc[t] # "idle"
Moves(o) == o # "play"
At(t, p) == phase = "run" /\ pc[t] = p
Goto(t, p) == pc' = [pc EXCEPT ![t] = p]
Hold(t, v) == reg' = [reg EXCEPT ![t] = v]

\* The iterator's ++ and --, around the circle
After(i) == IF i = End THEN 0 ELSE i + 1
Before(i) == IF i = 0 THEN End ELSE i - 1

-----------------------------------------------------------------------------
(* Calls *)

Begin(t, o) ==
  /\ op' = [op EXCEPT ![t] = o]
  /\ Goto(t, CASE o = "next" -> "step" [] o = "previous" -> "first" [] o = "play" -> "null")
  /\ overlapped' = [u \in Threads |->
       IF u = t THEN \E v \in Threads \ {t} : Busy(v) ELSE overlapped[u] \/ Busy(u)]
  /\ crossed' = (crossed \/ \E u \in Threads \ {t} :
       Busy(u) /\ Moves(o) /\ Moves(op[u]) /\ "previous" \in {o, op[u]})

Call(t) ==
  /\ At(t, "idle") /\ t # "loop"
  /\ \E o \in Operations : Begin(t, o)
  /\ UNCHANGED <<it_track, current_track, pipeline, saved, watch, reg, phase>>

-----------------------------------------------------------------------------
(* player::next: ++it_track, and begin() after end().  Whether the second     *)
(* statement reads the cursor again is up to the build.                       *)

Step(t) ==
  /\ At(t, "step")
  /\ Hold(t, it_track) /\ Goto(t, "stepped")
  /\ UNCHANGED <<it_track, current_track, pipeline, saved, watch, op, ghosts, phase>>

Stepped(t) ==
  /\ At(t, "stepped")
  /\ it_track' = After(reg[t])
  /\ Hold(t, After(reg[t])) /\ Goto(t, "last")
  /\ UNCHANGED <<current_track, pipeline, saved, watch, op, ghosts, phase>>

\* Mutant: the last track is not told from the others.
LastNever(t) ==
  /\ At(t, "last")
  /\ Goto(t, "null")
  /\ UNCHANGED <<it_track, current_track, pipeline, saved, watch, op, reg, ghosts, phase>>

Last(t) ==
  /\ At(t, "last")
  /\ \E i \in {it_track, reg[t]} : Goto(t, IF i = End THEN "wrap" ELSE "null")
  /\ UNCHANGED <<it_track, current_track, pipeline, saved, watch, op, reg, ghosts, phase>>

WrapToBegin(t) ==
  /\ At(t, "wrap")
  /\ it_track' = 0 /\ Goto(t, "null")
  /\ UNCHANGED <<current_track, pipeline, saved, watch, op, reg, ghosts, phase>>

-----------------------------------------------------------------------------
(* player::previous: end() for begin(), and --it_track *)

\* Mutant: the first track is not told from the others.
FirstNever(t) ==
  /\ At(t, "first")
  /\ Hold(t, it_track) /\ Goto(t, "back")
  /\ UNCHANGED <<it_track, current_track, pipeline, saved, watch, op, ghosts, phase>>

First(t) ==
  /\ At(t, "first")
  /\ Hold(t, it_track)
  /\ Goto(t, IF it_track = 0 THEN "toend" ELSE "back")
  /\ UNCHANGED <<it_track, current_track, pipeline, saved, watch, op, ghosts, phase>>

ToEnd(t) ==
  /\ At(t, "toend")
  /\ it_track' = End
  /\ Hold(t, End) /\ Goto(t, "back")
  /\ UNCHANGED <<current_track, pipeline, saved, watch, op, ghosts, phase>>

StepBack(t) ==
  /\ At(t, "back")
  /\ \E i \in {it_track, reg[t]} : Hold(t, i)
  /\ Goto(t, "backed")
  /\ UNCHANGED <<it_track, current_track, pipeline, saved, watch, op, ghosts, phase>>

SteppedBack(t) ==
  /\ At(t, "backed")
  /\ it_track' = Before(reg[t]) /\ Goto(t, "null")
  /\ UNCHANGED <<current_track, pipeline, saved, watch, op, reg, ghosts, phase>>

-----------------------------------------------------------------------------
(* player::play *)

\* Mutant: the pipeline keeps running.
KeepRunning(t) ==
  /\ At(t, "null") /\ Goto(t, "deref")
  /\ UNCHANGED <<it_track, current_track, pipeline, saved, watch, op, reg, ghosts, phase>>

\* set_state(NULL) silences the pipeline and flushes its bus.
SetNull(t) ==
  /\ At(t, "null")
  /\ playbin' = "null" /\ heard' = End /\ bus' = "none"
  /\ Goto(t, "deref")
  /\ UNCHANGED <<it_track, current_track, uri, saved, watch, op, reg, ghosts, phase>>

\* track(*it_track); at end() *it_track is no string, and copying it may crash.
Deref(t) ==
  /\ At(t, "deref")
  /\ \/ Hold(t, it_track) /\ Goto(t, "assign") /\ UNCHANGED phase
     \/ it_track = End /\ phase' = "dead" /\ UNCHANGED <<reg, pc>>
  /\ UNCHANGED <<it_track, current_track, pipeline, saved, watch, op, ghosts>>

\* The constructor calls push_duration, which may not return once populate has
\* cleared the flag of DbQueue; a first start has done so before anything is played.
Caught(t) ==
  /\ At(t, "deref") /\ Goto(t, "caught")
  /\ UNCHANGED <<it_track, current_track, pipeline, saved, watch, op, reg, ghosts, phase>>

Races(t, P) == \E u \in Threads \ {t} : pc[u] \in P

\* Two threads that assign to current_track at once may crash,
Assign(t) ==
  /\ At(t, "assign")
  /\ \/ current_track' = reg[t] /\ Goto(t, "path") /\ UNCHANGED phase
     \/ Races(t, {"assign"}) /\ phase' = "dead" /\ UNCHANGED <<current_track, pc>>
  /\ UNCHANGED <<it_track, pipeline, saved, watch, op, reg, ghosts>>

\* and one that reads it meanwhile may crash or get part of it.
Path(t) ==
  /\ At(t, "path")
  /\ \/ /\ \E i \in {current_track} \cup {j \in {End} : Races(t, {"assign"})} : Hold(t, i)
        /\ Goto(t, "uri") /\ UNCHANGED phase
     \/ Races(t, {"assign"}) /\ phase' = "dead" /\ UNCHANGED <<reg, pc>>
  /\ UNCHANGED <<it_track, current_track, pipeline, saved, watch, op, ghosts>>

SetUri(t) ==
  /\ At(t, "uri")
  /\ uri' = reg[t] /\ Goto(t, "start")
  /\ UNCHANGED <<it_track, current_track, playbin, heard, bus, saved, watch, op, reg, ghosts, phase>>

\* Mutant: a pipeline at NULL stays there.
SetUnchanged(t) ==
  /\ At(t, "start")
  /\ heard' = uri
  /\ Goto(t, "distance")
  /\ UNCHANGED <<it_track, current_track, uri, playbin, bus, saved, watch, op, reg, ghosts, phase>>

\* A pipeline that plays already does not look at its uri again.
SetPlaying(t) ==
  /\ At(t, "start")
  /\ playbin' = "playing"
  /\ heard' = IF playbin = "null" THEN uri ELSE heard
  /\ Goto(t, "distance")
  /\ UNCHANGED <<it_track, current_track, uri, bus, saved, watch, op, reg, ghosts, phase>>

Distance(t) ==
  /\ At(t, "distance")
  /\ Hold(t, it_track) /\ Goto(t, "save")
  /\ UNCHANGED <<it_track, current_track, pipeline, saved, watch, op, ghosts, phase>>

\* db::set_playlist_current, and the return to the caller; on_bus_message has
\* itself detached then.
Save(t) ==
  /\ At(t, "save")
  /\ saved' = reg[t] /\ Goto(t, "idle")
  /\ watch' = (watch /\ t # "loop")
  /\ UNCHANGED <<it_track, current_track, pipeline, op, reg, ghosts, phase>>

-----------------------------------------------------------------------------
(* The pipeline's messages and on_bus_message *)

EndOfStream ==
  /\ phase = "run" /\ bus = "none" /\ playbin = "playing" /\ heard # End
  /\ bus' = "eos" /\ heard' = End
  /\ UNCHANGED <<it_track, current_track, uri, playbin, saved, watch, op, pc, reg, ghosts, phase>>

\* A file that cannot be played, a device that is gone
Error ==
  /\ phase = "run" /\ bus = "none" /\ playbin = "playing"
  /\ bus' = "error" /\ heard' = End
  /\ UNCHANGED <<it_track, current_track, uri, playbin, saved, watch, op, pc, reg, ghosts, phase>>

\* Mutant: the handler is detached and does nothing else.
OnEosDetach ==
  /\ At("loop", "idle") /\ watch /\ bus = "eos"
  /\ bus' = "none" /\ watch' = FALSE
  /\ UNCHANGED <<it_track, current_track, uri, playbin, heard, saved, op, pc, reg, ghosts, phase>>

OnEos ==
  /\ At("loop", "idle") /\ watch /\ bus = "eos"
  /\ bus' = "none"
  /\ Begin("loop", "next")
  /\ UNCHANGED <<it_track, current_track, uri, playbin, heard, saved, watch, reg, phase>>

OnError ==
  /\ At("loop", "idle") /\ watch /\ bus = "error"
  /\ bus' = "none" /\ watch' = FALSE
  /\ UNCHANGED <<it_track, current_track, uri, playbin, heard, saved, op, pc, reg, ghosts, phase>>

-----------------------------------------------------------------------------
\* player::start has played the track the constructor came back to.
Init ==
  /\ it_track \in 0..(Size - 1)
  /\ current_track = it_track /\ uri = it_track /\ playbin = "playing" /\ heard = it_track
  /\ saved = it_track
  /\ bus = "none" /\ watch = TRUE
  /\ op = [t \in Threads |-> "play"] /\ pc = [t \in Threads |-> "idle"]
  /\ reg = [t \in Threads |-> 0]
  /\ overlapped = [t \in Threads |-> FALSE] /\ crossed = FALSE
  /\ phase = "run"

Forward(t) == Step(t) \/ Stepped(t) \/ Last(t) \/ WrapToBegin(t)
Backward(t) == First(t) \/ ToEnd(t) \/ StepBack(t) \/ SteppedBack(t)
Play(t) ==
  \/ SetNull(t) \/ Deref(t) \/ Caught(t) \/ Assign(t) \/ Path(t)
  \/ SetUri(t) \/ SetPlaying(t) \/ Distance(t) \/ Save(t)
Run(t) == Forward(t) \/ Backward(t) \/ Play(t)

Next ==
  \/ \E t \in Threads : Call(t) \/ Run(t)
  \/ EndOfStream \/ Error \/ OnEos \/ OnError

\* Threads that can run are scheduled, a constructor may return or be caught, and the
\* main loop dispatches messages; nobody needs to call anything.
Spec ==
  /\ Init /\ [][Next]_vars
  /\ \A t \in Threads : WF_vars(Run(t))
  /\ WF_vars(OnEos) /\ WF_vars(OnError)

-----------------------------------------------------------------------------
(* Properties *)

Cursor == 0..Size

TypeOK ==
  /\ it_track \in Cursor /\ current_track \in Cursor
  /\ uri \in Cursor /\ heard \in Cursor /\ saved \in Cursor
  /\ playbin \in {"null", "playing"}
  /\ bus \in {"none", "eos", "error"} /\ watch \in BOOLEAN
  /\ op \in [Threads -> Operations]
  /\ pc \in [Threads -> {"idle", "step", "stepped", "last", "wrap", "first", "toend", "back", "backed",
                         "null", "deref", "caught", "assign", "path", "uri", "start", "distance", "save"}]
  /\ reg \in [Threads -> Cursor]
  /\ overlapped \in [Threads -> BOOLEAN] /\ crossed \in BOOLEAN
  /\ phase \in {"run", "dead"}

AtRest == \A t \in Threads : ~Busy(t)

\* Any number of calls of next that overlap leave the cursor on a track: it rests
\* at end() only after previous has overlapped another step (player.cpp:221-233).
RestsInside == AtRest /\ it_track = End => crossed

\* An operation that sets the pipeline to NULL plays again (player.cpp:243-253):
\* however they overlap, the pipeline is never left stopped, but by an operation
\* that is caught and so never at rest.
RestsPlaying == AtRest => playbin = "playing"

\* A call of next or previous that nothing overlaps leaves cursor, track, pipeline
\* and saved position in agreement, whatever calls that overlapped did before it.
LoneCallAgrees ==
  [][\A t \in Threads :
       pc[t] = "save" /\ pc'[t] = "idle" /\ ~overlapped[t] /\ Moves(op[t])
       => /\ it_track' # End
          /\ {current_track', uri', saved'} = {it_track'}
          /\ heard' \in {it_track', End}]_vars

\* Only operations that overlap crash, and play at a cursor that was left at end().
DiesOnlyInRaces ==
  [][phase' # phase =>
       \E t \in Threads : Busy(t) /\ (overlapped[t] \/ (op[t] = "play" /\ it_track = End))]_vars

\* While on_bus_message is attached and idle, the end of a stream is followed by
\* music, unless operations overlapped, the file cannot be played, or a scan lets
\* an operation be caught in the track's constructor (player.cpp:244, 354-357).
\* The handler detaches itself, so nothing is said of later streams.
MusicGoesOn ==
  (bus = "eos" /\ watch /\ ~Busy("loop")) ~>
    (\/ heard # End \/ bus = "error" \/ phase = "dead"
     \/ \E t \in Threads : pc[t] = "caught" \/ overlapped[t] \/ (op[t] = "play" /\ it_track = End))

=============================================================================
