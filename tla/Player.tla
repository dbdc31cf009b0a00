------------------------------- MODULE Player -------------------------------
(***************************************************************************)
(* Class player (src/src/player.cpp): the playlists in memory, the cursor  *)
(* it_track into the current one, the cursor `it` into their names, and    *)
(* what of all that survives the process: the position of each playlist in *)
(* the database, behind the write queue of class db, and the name of the   *)
(* current playlist in the settings file.                                  *)
(*                                                                         *)
(* One action per operation, one operation at a time: the model follows    *)
(* the player until one of them does not return.  it_track is the index of *)
(* the node it refers to, the list's length when it is end().              *)
(***************************************************************************)
EXTENDS Library

CONSTANTS
  Files,        \* files the scan of the music directory may come across
  MaxPending    \* bound: statements waiting when an operation starts

\* A playlist file that was read, or an audio file.
AudioFile == [kind : {"audio"}, path : Tracks]
M3uFile == [kind : {"m3u"}, name : Playlists, tracks : Seq(Tracks)]

ASSUME PlayerAssumption ==
  /\ \A f \in Files : f \in AudioFile \/ f \in M3uFile
  /\ MaxPending \in Nat
  /\ "empty" \notin Tracks /\ "destroyed" \notin Tracks

VARIABLES
  disk,             \* the database file
  pending,          \* statements pushed and not yet executed (db::queries)
  settings,         \* "current_playlist" of the settings file
  phase,            \* "scan": first scan, in the constructor; "run"; "dead": undefined
                    \* behaviour was met; "stuck": an operation that does not return
  scanned,          \* has populate cleared db_queue::monitor in this process?
  playlist_tables, playlists,
  db_catalog,       \* the tracks of player::db_catalog
  it, it_track, current_playlist, current_track,
  playbin,          \* the pipeline's state
  is_paused,
  bus,              \* the message on the pipeline's bus, or "none"
  watch             \* is on_bus_message still attached to the bus?

stored  == <<disk, settings>>
library == <<playlist_tables, playlists, db_catalog>>
cursors == <<it, it_track, current_playlist>>
output  == <<current_track, playbin, is_paused, bus>>
vars == <<stored, pending, phase, scanned, library, cursors, output, watch>>

Running == phase = "run" /\ Len(pending) < MaxPending
Push(q) == pending' = pending \o q

-----------------------------------------------------------------------------
(* Helpers *)

\* player::named: the first of that name, or the first of all.
Named(l, n) ==
  IF \E i \in DOMAIN l : l[i].name = n
    THEN l[CHOOSE i \in DOMAIN l : l[i].name = n /\ \A j \in 1..(i - 1) : l[j].name # n]
    ELSE l[1]

\* player::populate_from_db
FromDb(names) == [i \in DOMAIN names |-> [name |-> names[i], tracks |-> SelectPlaylist(disk, names[i])]]

\* Mutant: previous stays on the first track.
BackToFirst(i, n) == IF i = 0 THEN 0 ELSE i - 1

\* ++ and -- on a cursor of a circular list of n nodes and a header, with the
\* wrap-around of next and previous.
Forward(i, n) == IF i + 1 < n THEN i + 1 ELSE 0
Back(i, n) == IF n = 0 THEN 0 ELSE IF i = 0 THEN n - 1 ELSE i - 1

\* playlist::index_of, 0 for an absent path
IndexOf(l, t) ==
  IF \E i \in DOMAIN l : l[i] = t
    THEN (CHOOSE i \in DOMAIN l : l[i] = t /\ \A j \in 1..(i - 1) : l[j] # t) - 1
    ELSE 0

\* Does db::select_track find the path?
Known(t) == \E i \in DOMAIN disk.catalog : disk.catalog[i] = t

\* What the constructor of track pushes for a path the database does not hold
\* (track.cpp:67-76); for a path it holds, nothing that changes a list of paths.
Looked(t) == IF Known(t) THEN <<>> ELSE <<InsertPath(t), InsertPath(t)>>

\* How the construction of a track may end the operation.  Assigning it to an object
\* that was destroyed is undefined; a track whose path is known may push its duration
\* (track.cpp:77-87), and the push does not return when the consumer spins with the
\* mutex, as it may once a scan has cleared its flag (module DbQueue).  The pointer it
\* pushes is dangling, which ends the process later, if at all: see Restart.
Risks(gone, cleared) ==
  (IF gone THEN {"dead"} ELSE {}) \cup (IF cleared THEN {"stuck"} ELSE {})

-----------------------------------------------------------------------------
(* player::play, with playlist pl current, the cursor at i and statements q   *)
(* waiting, at the given risks.                                               *)
(* A cursor at end() yields a string that is no path, or a crash; one past    *)
(* the end refers to a freed node, which distance() never meets.              *)
(* `stopped`: the caller goes on with player::stop.                           *)

\* player::stop calls the destructor of current_track, unless its path is empty.
Stopped(t) == IF t = "empty" THEN "empty" ELSE "destroyed"

PlayAt(pl, i, q, risks, stopped) ==
  /\ current_playlist' = pl
  /\ it_track' = i
  /\ \/ /\ i <= Len(pl.tracks)
        /\ phase' = "run"
        /\ LET t == IF i < Len(pl.tracks) THEN pl.tracks[i + 1] ELSE "empty" IN
             current_track' = IF stopped THEN Stopped(t) ELSE t
        /\ playbin' = IF stopped THEN "null" ELSE "playing"
        /\ is_paused' = FALSE /\ bus' = "none"
        /\ pending' = q \o (IF i < Len(pl.tracks) THEN Looked(pl.tracks[i + 1]) ELSE <<>>)
                        \o <<SetCurrent(pl.name, i)>>
     \/ /\ \/ phase' = "dead" /\ ("dead" \in risks \/ i >= Len(pl.tracks))
           \/ phase' = "stuck" /\ "stuck" \in risks /\ i < Len(pl.tracks) /\ Known(pl.tracks[i + 1])
        /\ pending' = q
        /\ playbin' = "null" /\ bus' = "none"
        /\ UNCHANGED <<current_track, is_paused>>

CurrentRisks == Risks(current_track = "destroyed", scanned)

Replay(pl, i) == PlayAt(pl, i, pending, CurrentRisks, FALSE)

\* Mutant: next steps on without coming back to the first track.
ForwardOnly == Replay(current_playlist, it_track + 1)

\* The steps of player::next and player::previous.
GoForward == Replay(current_playlist, Forward(it_track, Len(current_playlist.tracks)))
GoBack == Replay(current_playlist, Back(it_track, Len(current_playlist.tracks)))

Play ==
  /\ Running
  /\ Replay(current_playlist, it_track)
  /\ UNCHANGED <<stored, scanned, library, it, watch>>

NextTrack ==
  /\ Running
  /\ GoForward
  /\ UNCHANGED <<stored, scanned, library, it, watch>>

PreviousTrack ==
  /\ Running
  /\ GoBack
  /\ UNCHANGED <<stored, scanned, library, it, watch>>

\* Mutant: is_paused is not reset.
PauseOnce ==
  /\ Running
  /\ is_paused' = TRUE
  /\ playbin' = IF is_paused THEN "playing" ELSE "paused"
  /\ UNCHANGED <<stored, pending, phase, scanned, library, cursors, current_track, bus, watch>>

\* player::pause, which asks neither whether something plays nor what
Pause ==
  /\ Running
  /\ is_paused' = ~is_paused
  /\ playbin' = IF is_paused THEN "playing" ELSE "paused"
  /\ UNCHANGED <<stored, pending, phase, scanned, library, cursors, current_track, bus, watch>>

\* Setting the pipeline to NULL flushes its bus.  A second stop reads the path of
\* the destroyed track, and may destroy it again.
Stop ==
  /\ Running
  /\ phase' \in IF current_track = "destroyed" THEN {"run", "dead"} ELSE {"run"}
  /\ playbin' = "null" /\ bus' = "none"
  /\ current_track' = Stopped(current_track)
  /\ UNCHANGED <<stored, pending, scanned, library, cursors, is_paused, watch>>

-----------------------------------------------------------------------------
(* player::playlist_up, playlist_down and set_current_playlist *)

\* Assigning a list to current_playlist.tracks reuses its nodes: end() stays
\* end(), and any other cursor stays at its index.
Carried(l) == IF it_track = Len(current_playlist.tracks) THEN Len(l) ELSE it_track

\* Mutant: the settings file is not told.
SwitchUnsaved(i, stopped) ==
  LET pl == Named(playlists, playlist_tables[i]) IN
    /\ it' = i
    /\ PlayAt(pl, Carried(pl.tracks), pending, CurrentRisks, stopped)
    /\ UNCHANGED <<disk, settings, scanned, library, watch>>

SwitchTo(i, stopped) ==
  LET pl == Named(playlists, playlist_tables[i]) IN
    /\ it' = i
    /\ settings' = pl.name
    /\ PlayAt(pl, Carried(pl.tracks), pending, CurrentRisks, stopped)
    /\ UNCHANGED <<disk, scanned, library, watch>>

Above == IF it = 1 THEN Len(playlist_tables) ELSE it - 1
Below == IF it = Len(playlist_tables) THEN 1 ELSE it + 1

PlaylistUp == Running /\ SwitchTo(Above, FALSE)
PlaylistDown == Running /\ SwitchTo(Below, FALSE)

\* The joystick's playlist_down falls through to stop (player.cpp:471-475).
JoystickPlaylistDown == Running /\ SwitchTo(Below, TRUE)

\* The last playlist of that name, which may be one that was only found in a file and
\* is no table, or the current one; the settings file is not told.
SetCurrentPlaylist(n) ==
  LET those == {i \in DOMAIN playlists : playlists[i].name = n}
      pl    == IF those = {} THEN current_playlist
               ELSE playlists[CHOOSE i \in those : \A j \in those : j <= i]
  IN /\ Running
     /\ Replay(pl, IF those = {} THEN it_track ELSE Carried(pl.tracks))
     /\ UNCHANGED <<stored, scanned, library, it, watch>>

-----------------------------------------------------------------------------
(* player::json, sent to every websocket client *)

\* player::peak_next and peak_previous look the current path up by value.
PeakNext(l, i) ==
  LET p == IF i < Len(l) THEN IndexOf(l, l[i + 1]) ELSE 0 IN l[Forward(p, Len(l)) + 1]
PeakPrevious(l, i) ==
  LET p == IF i < Len(l) THEN IndexOf(l, l[i + 1]) ELSE 0 IN l[Back(p, Len(l)) + 1]

Json ==
  LET l     == current_playlist.tracks
      next  == PeakNext(l, it_track)
      other == PeakPrevious(l, it_track)
  IN /\ Running
     /\ \/ phase' = "run" /\ Push(IF l = <<>> THEN <<>> ELSE Looked(next) \o Looked(other))
        \/ /\ phase' = "dead" /\ (it_track >= Len(l) \/ current_track = "destroyed")
           /\ Push(<<>>)
        \/ /\ phase' = "stuck" /\ scanned /\ l # <<>> /\ (Known(next) \/ Known(other))
           /\ Push(Looked(next))
     /\ UNCHANGED <<stored, scanned, library, cursors, output, watch>>

-----------------------------------------------------------------------------
(* player::on_bus_message, and the pipeline that posts the messages *)

\* The end of a stream; a message posted once the handler is gone is never read.
Post ==
  /\ phase = "run" /\ watch /\ bus = "none" /\ playbin = "playing"
  /\ bus' = "eos"
  /\ UNCHANGED <<stored, pending, phase, scanned, library, cursors, current_track, playbin, is_paused, watch>>

\* Returning false detaches the handler, for EOS as for ERROR.
OnEos ==
  /\ Running /\ watch /\ bus = "eos"
  /\ GoForward
  /\ watch' = FALSE
  /\ UNCHANGED <<stored, scanned, library, it>>

\* All that comes of an error is that the handler is gone: it is posted and
\* dispatched in one step.
OnError ==
  /\ phase = "run" /\ watch /\ bus = "none" /\ playbin # "null"
  /\ watch' = FALSE
  /\ UNCHANGED <<stored, pending, phase, scanned, library, cursors, output>>

-----------------------------------------------------------------------------
(* player::populate: the scan in the constructor, and file_watcher's rescans *)

\* The constructor of playlist writes the file's list to the database; populate
\* keeps a new playlist in memory and writes a known one a second time.
FindM3u(f) ==
  LET known == \E i \in DOMAIN playlists : playlists[i].name = f.name
      adds  == AddToPlaylist(f.name, f.tracks)
  IN /\ playlists' = IF known THEN playlists
                     ELSE Append(playlists, [name |-> f.name, tracks |-> f.tracks])
     /\ Push(adds \o <<InsertPlaylist(f.name)>> \o (IF known THEN adds ELSE <<>>))
     /\ UNCHANGED db_catalog

\* Mutant: the directory entry is kept instead of its path.
FindEntry(f) ==
  /\ f.path \notin db_catalog
  /\ db_catalog' = db_catalog \cup {f}
  /\ Push(<<InsertPath(f.path)>>)
  /\ UNCHANGED playlists

FindAudio(f) ==
  /\ f.path \notin db_catalog
  /\ db_catalog' = db_catalog \cup {f.path}
  /\ Push(<<InsertPath(f.path)>>)
  /\ UNCHANGED playlists

Populate(f) ==
  /\ phase \in {"scan", "run"} /\ Len(pending) < MaxPending
  /\ \/ f.kind = "m3u" /\ FindM3u(f)
     \/ f.kind = "audio" /\ FindAudio(f)
  /\ scanned' = TRUE
  /\ UNCHANGED <<stored, phase, playlist_tables, cursors, output, watch>>

\* A rescan that comes across nothing new.
Rescan ==
  /\ phase = "run" /\ scanned' = TRUE
  /\ UNCHANGED <<stored, pending, phase, library, cursors, output, watch>>

-----------------------------------------------------------------------------
(* The constructor of player, and player::start *)

\* The constructor destroys current_track (player.cpp:60), and start plays.
Start(l, q, cleared) ==
  LET pl == Named(l, settings)
      saved == SavedPosition(disk, pl.name)
  IN /\ playlists' = l
     /\ it' = 1
     /\ watch' = TRUE
     /\ PlayAt(pl, IF saved < Len(pl.tracks) THEN saved ELSE 0, q, Risks(TRUE, cleared), FALSE)

\* The process ends, wherever it is, and starts again: it is killed, or the thread that
\* stores durations follows a pointer that a constructor of track left in its queue.
Restart ==
  /\ playlist_tables' = disk.tables
  /\ db_catalog' = {disk.catalog[i] : i \in DOMAIN disk.catalog}
  /\ IF disk.catalog # <<>>
       THEN Start(FromDb(disk.tables), <<>>, FALSE) /\ scanned' = FALSE
       ELSE /\ phase' = "scan" /\ scanned' = TRUE /\ pending' = <<>>
            /\ playlists' = FromDb(disk.tables)
            /\ it' = 1 /\ it_track' = 0
            /\ current_playlist' = [name |-> Catalog, tracks |-> <<>>]
            /\ current_track' = "empty" /\ playbin' = "null" /\ is_paused' = FALSE
            /\ bus' = "none" /\ watch' = TRUE
  /\ UNCHANGED stored

\* The wait for the write queue ends, as soon as it likes (see WaitMeansDrained
\* of module Db), and the tables listed before the scan are read again.
Scanned ==
  /\ phase = "scan"
  /\ Start(FromDb(playlist_tables), pending, TRUE)
  /\ UNCHANGED <<stored, scanned, playlist_tables, db_catalog>>

\* The write queue (module WriteBehind) executes its oldest statement.
Execute ==
  /\ phase # "dead" /\ pending # <<>>
  /\ disk' \in Executed(disk, Head(pending))
  /\ pending' = Tail(pending)
  /\ UNCHANGED <<settings, phase, scanned, library, cursors, output, watch>>

-----------------------------------------------------------------------------
\* The first start of all, with the default settings (config.cpp:27-31).
Init ==
  /\ disk = EmptyDatabase /\ settings = Catalog
  /\ pending = <<>> /\ phase = "scan" /\ scanned = TRUE
  /\ playlist_tables = <<Catalog>>
  /\ playlists = <<[name |-> Catalog, tracks |-> <<>>]>>
  /\ db_catalog = {}
  /\ it = 1 /\ it_track = 0
  /\ current_playlist = [name |-> Catalog, tracks |-> <<>>]
  /\ current_track = "empty" /\ playbin = "null" /\ is_paused = FALSE
  /\ bus = "none" /\ watch = TRUE

Switch == PlaylistUp \/ PlaylistDown \/ JoystickPlaylistDown
Command ==
  \/ Play \/ NextTrack \/ PreviousTrack \/ Pause \/ Stop \/ Switch
  \/ \E n \in Names : SetCurrentPlaylist(n)

Next ==
  \/ Command \/ Json
  \/ Post \/ OnEos \/ OnError
  \/ \E f \in Files : Populate(f)
  \/ Rescan \/ Scanned \/ Execute \/ Restart

Spec == Init /\ [][Next]_vars

-----------------------------------------------------------------------------
(* Properties *)

TypeOK ==
  /\ disk \in Database /\ pending \in Seq(Statement)
  /\ settings \in Names
  /\ phase \in {"scan", "run", "dead", "stuck"} /\ scanned \in BOOLEAN
  /\ playlist_tables \in Seq(Names) /\ it \in 1..Len(playlist_tables)
  /\ playlists \in Seq([name : Names, tracks : Seq(Tracks)])
  /\ db_catalog \subseteq Tracks
  /\ current_playlist \in [name : Names, tracks : Seq(Tracks)]
  /\ it_track \in Nat
  /\ current_track \in Tracks \cup {"empty", "destroyed"}
  /\ playbin \in {"null", "playing", "paused"}
  /\ is_paused \in BOOLEAN /\ watch \in BOOLEAN
  /\ bus \in {"none", "eos"}

\* What was chosen with playlist_up and playlist_down is what a restart comes back to:
\* the settings file names the current playlist after every switch (player.cpp:318,
\* 332) and every start, where named (145-156) never has to fall back to the first
\* one, and goes on to do so unless set_current_playlist makes another one current.
SettingsNameCurrent ==
  [][phase' = "run" /\ settings' # current_playlist'.name =>
       \/ settings # current_playlist.name /\ ~(Switch \/ Scanned \/ Restart)
       \/ \E n \in Names \ {settings} : SetCurrentPlaylist(n)]_vars

\* is_paused, which every client is shown (player.cpp:421), never says paused of
\* a pipeline that plays nor playing of one that is paused.
PausedIsSilent ==
  /\ is_paused => playbin # "playing"
  /\ playbin = "paused" => is_paused

Inside == it_track < Len(current_playlist.tracks)
CursorTrack == current_playlist.tracks[it_track + 1]

\* The current playlist is one the database had when the process started: one that
\* was only found in a file may repeat a path, which one looked up by value cannot.
FromDatabase == \E i \in DOMAIN playlist_tables : playlist_tables[i] = current_playlist.name

\* The track json announces as NextTrack is the one next plays, and the one it
\* announces as PreviousTrack is the one previous plays (player.cpp:422-423),
\* although one looks paths up by value and the other moves a cursor.
AnnouncedIsPlayed ==
  [][Inside /\ FromDatabase /\ phase' = "run" =>
       /\ NextTrack \/ OnEos => current_track' = PeakNext(current_playlist.tracks, it_track)
       /\ PreviousTrack => current_track' = PeakPrevious(current_playlist.tracks, it_track)]_vars

\* After next the track that was current is announced as the previous one, and
\* after previous as the next one, at both ends of the list too.
NeighboursAgree ==
  [][Inside /\ FromDatabase /\ phase' = "run" =>
       /\ NextTrack \/ OnEos => PeakPrevious(current_playlist'.tracks, it_track') = CursorTrack
       /\ PreviousTrack => PeakNext(current_playlist'.tracks, it_track') = CursorTrack]_vars

\* The operations of the player reach undefined behaviour in four ways only: start
\* assigns to the current_track the constructor destroyed, an operation uses the one
\* that stop destroyed, the cursor was left at the end() of an empty playlist, or the
\* playlist switched to has no node at its index.  And an operation fails to return
\* only after a scan in the same process, for a track that the database has.
DiesOnlyOf ==
  [][/\ phase # "dead" /\ phase' = "dead" =>
          \/ Scanned \/ Restart
          \/ current_track = "destroyed"
          \/ it_track >= Len(current_playlist.tracks)
          \/ it_track >= Len(current_playlist'.tracks)
     /\ phase # "stuck" /\ phase' = "stuck" => scanned /\ disk.catalog # <<>>]_vars

About(n) == {i \in DOMAIN pending : pending[i].op \in {"playlist", "current"} /\ pending[i].name = n}
WillHaveRow(n) ==
  n \in disk.listed \/ \E i \in DOMAIN pending : pending[i] = InsertPlaylist(n)

\* The position of playlist n once the write queue is drained.
FinalPosition(n) ==
  IF About(n) = {} THEN disk.current[n]
  ELSE LET i == CHOOSE i \in About(n) : \A j \in About(n) : j <= i
       IN IF pending[i].op = "playlist" THEN 0 ELSE pending[i].current

PositionSaved ==
  WillHaveRow(current_playlist.name) => FinalPosition(current_playlist.name) = it_track

\* What is known of the current position on its way to the database (player.cpp:
\* 254) stays right through every operation but a rescan, which writes 0 over it
\* (db.cpp:119), and a statement SQLite refuses.
PositionStaysSaved ==
  [][phase' = "run" /\ PositionSaved /\ ~PositionSaved' =>
       (\E f \in Files : Populate(f)) \/ (Execute /\ disk' = disk)]_vars

\* A restart with nothing left to write that gets as far as playing goes back to the
\* track and the playlist it interrupted, unless the playlist has no row to keep its
\* position in (as the catalog has none), a rescan has changed it in the database, or
\* it was chosen with set_current_playlist, which tells nobody.
ResumesWhereItStopped ==
  [][/\ phase = "run" /\ phase' = "run" /\ pending = <<>>
     /\ settings = current_playlist.name
     /\ current_playlist.name \in disk.listed
     /\ current_playlist.tracks = SelectPlaylist(disk, current_playlist.name)
     /\ disk.catalog # <<>> /\ Inside /\ PositionSaved /\ Restart
     => current_playlist' = current_playlist /\ current_track' = CursorTrack]_vars

=============================================================================
