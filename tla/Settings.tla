------------------------------ MODULE Settings ------------------------------
(***************************************************************************)
(* Class config (src/src/config.cpp, src/include/config.h): the settings   *)
(* in memory and in settings.conf, which every put writes anew in place,   *)
(* from any thread, and which the next start has to read.                  *)
(*                                                                         *)
(* Of the values only "current_playlist" ever changes after the first      *)
(* start (player.cpp:318, 332).                                            *)
(***************************************************************************)
EXTENDS Naturals, Sequences

CONSTANTS
  Playlists,    \* values of current_playlist
  Catalog,      \* the one of the first start
  Threads       \* threads that switch playlists

ASSUME SettingsAssumption ==
  /\ Catalog \in Playlists
  /\ "main" \notin Threads

Writers == Threads \cup {"main"}

Keys == {"root", "db_file", "confirm", "music_root", "current_playlist"}
Content == [keys : SUBSET Keys, current : Playlists]
Nothing == [keys |-> {}, current |-> Catalog]

\* The puts of the first start, and the save after them (config.cpp:27-32).
FirstPuts == <<"root", "db_file", "confirm", "music_root", "current_playlist">>

\* What is asked of the settings before the player plays (db.cpp:15,
\* player.cpp:54, 173); get throws for a key that is not there.
Asked == {"db_file", "music_root", "current_playlist"}

VARIABLES
  file,         \* settings.conf: absent, torn (no JSON), or whole with a content
  memory,
  phase,        \* "down", "first": in the constructor, no file found; "run"; "failed" to start
  puts,         \* how many of FirstPuts are done
  pc, buffer,   \* where each thread is in put, and what it has yet to write
  overlapped,   \* have two saves overlapped since the start?
  hurt          \* did a start end in a save, or in its first puts?

vars == <<file, memory, phase, puts, pc, buffer, overlapped, hurt>>

Absent == [state |-> "absent", content |-> Nothing]
Torn == [state |-> "torn", content |-> Nothing]
Whole(c) == [state |-> "whole", content |-> c]

Idle == [x \in Writers |-> "idle"]
Saving(x) == pc[x] \in {"dump", "close"}
Complete(c) == Asked \subseteq c.keys

-----------------------------------------------------------------------------
(* put: the tree in memory, then save_config_settings *)

Put(x, c) ==
  /\ pc' = [pc EXCEPT ![x] = "open"]
  /\ memory' = c
  /\ UNCHANGED <<file, buffer, overlapped>>

PutPlaylist(x, p) ==
  /\ phase = "run" /\ x \in Threads /\ pc[x] = "idle"
  /\ Put(x, [memory EXCEPT !.current = p])
  /\ UNCHANGED <<phase, puts, hurt>>

FirstPut ==
  /\ phase = "first" /\ pc["main"] = "idle" /\ puts < Len(FirstPuts)
  /\ puts' = puts + 1
  /\ Put("main", [memory EXCEPT !.keys = @ \cup {FirstPuts[puts + 1]}])
  /\ UNCHANGED <<phase, hurt>>

\* The last save of the constructor; the first start is over when it is done.
FirstSave ==
  /\ phase = "first" /\ pc["main"] = "idle" /\ puts = Len(FirstPuts)
  /\ pc' = [pc EXCEPT !["main"] = "open"]
  /\ puts' = puts + 1
  /\ UNCHANGED <<file, memory, phase, buffer, overlapped, hurt>>

FirstDone ==
  /\ phase = "first" /\ pc["main"] = "idle" /\ puts > Len(FirstPuts)
  /\ phase' = "run"
  /\ UNCHANGED <<file, memory, puts, pc, buffer, overlapped, hurt>>

\* write_json truncates the file,
Open(x) ==
  /\ pc[x] = "open"
  /\ file' = Torn
  /\ overlapped' = (overlapped \/ \E y \in Writers \ {x} : Saving(y))
  /\ pc' = [pc EXCEPT ![x] = "dump"]
  /\ UNCHANGED <<memory, phase, puts, buffer, hurt>>

\* Mutant: what the file held is written.
DumpFirst(x) ==
  /\ pc[x] = "dump"
  /\ buffer' = [buffer EXCEPT ![x] = file.content]
  /\ pc' = [pc EXCEPT ![x] = "close"]
  /\ UNCHANGED <<file, memory, phase, puts, overlapped, hurt>>

\* writes the tree to a buffer
Dump(x) ==
  /\ pc[x] = "dump"
  /\ buffer' = [buffer EXCEPT ![x] = memory]
  /\ pc' = [pc EXCEPT ![x] = "close"]
  /\ UNCHANGED <<file, memory, phase, puts, overlapped, hurt>>

\* Mutant: any save may leave something behind.
CloseBroken(x) ==
  /\ pc[x] = "close"
  /\ file' = Whole(buffer[x]) \/ file' = Torn
  /\ pc' = [pc EXCEPT ![x] = "idle"]
  /\ buffer' = [buffer EXCEPT ![x] = Nothing]
  /\ UNCHANGED <<memory, phase, puts, overlapped, hurt>>

\* and the buffer to the file when it closes it.  The end of something longer
\* that another thread has written in the meantime stays behind it.
Close(x) ==
  /\ pc[x] = "close"
  /\ file' = Whole(buffer[x]) \/ (overlapped /\ file' = Torn)
  /\ pc' = [pc EXCEPT ![x] = "idle"]
  /\ buffer' = [buffer EXCEPT ![x] = Nothing]
  /\ UNCHANGED <<memory, phase, puts, overlapped, hurt>>

Save(x) == Open(x) \/ Dump(x) \/ Close(x)

-----------------------------------------------------------------------------
(* The constructor of config, and the end of the process *)

\* Mutant: a file that cannot be used is taken for none.
StartOver ==
  /\ phase = "down"
  /\ overlapped' = FALSE
  /\ puts' = 0
  /\ IF file.state = "whole" /\ Complete(file.content)
       THEN phase' = "run" /\ memory' = file.content /\ hurt' = FALSE
       ELSE phase' = "first" /\ memory' = Nothing /\ hurt' = FALSE
  /\ UNCHANGED <<file, pc, buffer>>

Start ==
  /\ phase = "down"
  /\ overlapped' = FALSE
  /\ puts' = 0
  /\ \/ /\ file = Absent
        /\ phase' = "first" /\ memory' = Nothing /\ hurt' = FALSE
     \/ /\ file.state = "whole"
        /\ memory' = file.content
        /\ phase' = IF Complete(file.content) THEN "run" ELSE "failed"
        /\ hurt' = (hurt /\ phase' = "failed")
     \/ /\ file.state = "torn"
        /\ phase' = "failed" /\ UNCHANGED <<memory, hurt>>
  /\ UNCHANGED <<file, pc, buffer>>

End ==
  /\ phase # "down"
  /\ hurt' = (hurt \/ phase = "first" \/ overlapped \/ \E x \in Writers : Saving(x))
  /\ phase' = "down"
  /\ pc' = Idle /\ buffer' = [x \in Writers |-> Nothing]
  /\ memory' = Nothing /\ overlapped' = FALSE
  /\ UNCHANGED <<file, puts>>

Init ==
  /\ file = Absent /\ memory = Nothing /\ phase = "down" /\ puts = 0
  /\ pc = Idle /\ buffer = [x \in Writers |-> Nothing]
  /\ overlapped = FALSE /\ hurt = FALSE

Next ==
  \/ Start \/ End
  \/ FirstPut \/ FirstSave \/ FirstDone
  \/ \E x \in Threads, p \in Playlists : PutPlaylist(x, p)
  \/ \E x \in Writers : Save(x)

Spec == Init /\ [][Next]_vars
-----------------------------------------------------------------------------
(* Properties *)

DataOK ==
  /\ file \in [state : {"absent", "torn", "whole"}, content : Content]
  /\ memory \in Content
  /\ phase \in {"down", "first", "run", "failed"}
  /\ pc \in [Writers -> {"idle", "open", "dump", "close"}]
  /\ buffer \in [Writers -> Content]
  /\ overlapped \in BOOLEAN /\ hurt \in BOOLEAN

\* Five puts, and the save after them (config.cpp:27-32)
TypeOK == DataOK /\ puts \in 0..6

\* When no put is under way the file holds what memory holds, whatever puts of
\* several threads came before, unless two of their saves overlapped.
FileIsMemory ==
  phase = "run" /\ ~overlapped /\ (\A x \in Writers : pc[x] = "idle") => file = Whole(memory)

\* The program fails to start only after it ended in its first start, in a save, or
\* after saves that overlapped.
StartsAgain == phase = "failed" => hurt

Usable == file = Absent \/ (file.state = "whole" /\ Complete(file.content))

\* A file the program cannot start with stays so: nothing repairs or replaces it
\* (config.cpp:21-24 reads it or fails).
NeverRepaired ==
  [][~Usable /\ phase \in {"down", "failed"} => ~Usable' /\ phase' \in {"down", "failed"}]_vars

=============================================================================
