------------------------------ MODULE Library ------------------------------
(***************************************************************************)
(* The library database as the player sees it: the SQL statements class db *)
(* (src/src/db.cpp) builds for playlists, and what SQLite does with each.  *)
(* A table is the list of paths SELECT DISTINCT returns for it; titles,    *)
(* tags and hashes are left out.                                           *)
(***************************************************************************)
EXTENDS Naturals, Sequences

CONSTANTS
  Playlists,    \* names of playlist tables, without the catalog
  Tracks,       \* paths of audio files
  Sorted        \* a set of paths in the order of the key of a playlist's table

Catalog == "db_catalog"

ListsOnce(l, S) ==
  /\ \A i \in DOMAIN l : l[i] \in S
  /\ \A t \in S : \E i \in DOMAIN l : l[i] = t
  /\ \A i, j \in DOMAIN l : l[i] = l[j] => i = j

ASSUME LibraryAssumption ==
  /\ Catalog \notin Playlists
  /\ Sorted \in [SUBSET Tracks -> Seq(Tracks)]
  /\ \A S \in SUBSET Tracks : ListsOnce(Sorted[S], S)

Names == Playlists \cup {Catalog}

-----------------------------------------------------------------------------
(* Statements *)

CreateTable(n) == [op |-> "create", name |-> n]
ReplaceInto(n, S) == [op |-> "replace", name |-> n, tracks |-> S]
InsertPath(t) == [op |-> "path", track |-> t]
InsertPlaylist(n) == [op |-> "playlist", name |-> n]

\* Mutant: positions are counted from 1.
SetCurrentFromOne(n, i) == [op |-> "current", name |-> n, current |-> i + 1]

SetCurrent(n, i) == [op |-> "current", name |-> n, current |-> i]

Statement ==
       [op : {"create", "playlist"}, name : Playlists]
  \cup [op : {"replace"}, name : Playlists, tracks : SUBSET Tracks]
  \cup [op : {"path"}, track : Tracks]
  \cup [op : {"current"}, name : Names, current : Nat]

\* db::add_to_playlist of a whole list; nothing at all for an empty one.
AddToPlaylist(n, l) ==
  IF l = <<>> THEN <<>>
  ELSE <<CreateTable(n), ReplaceInto(n, {l[i] : i \in DOMAIN l})>>

-----------------------------------------------------------------------------
(* What SQLite does with them *)

\* The tables in the order of their creation; the paths in each playlist; the
\* paths in the catalog in the order of their first row; the names that have a row
\* in _playlist, and the position in it.  The catalog exists before anything else
\* is read (player.cpp:38-41).
Database ==
  [tables  : Seq(Names),
   rows    : [Playlists -> SUBSET Tracks],
   catalog : Seq(Tracks),
   listed  : SUBSET Names,
   current : [Names -> Nat]]

EmptyDatabase ==
  [tables  |-> <<Catalog>>,
   rows    |-> [n \in Playlists |-> {}],
   catalog |-> <<>>,
   listed  |-> {},
   current |-> [n \in Names |-> 0]]

HasTable(d, n) == \E i \in DOMAIN d.tables : d.tables[i] = n

\* Mutant: SELECT without DISTINCT.
WithEveryRow(l, t) == Append(l, t)

\* The catalog's "PRIMARY_KEY" (db.cpp:16) constrains nothing, so its rows may
\* repeat a path; SELECT DISTINCT (db.cpp:241) keeps the first.
WithRow(l, t) == IF \E i \in DOMAIN l : l[i] = t THEN l ELSE Append(l, t)

\* The databases statement s may lead to when SQLite accepts it.
Outcomes(d, s) ==
  CASE s.op = "create" ->
         {IF HasTable(d, s.name) THEN d ELSE [d EXCEPT !.tables = Append(@, s.name)]}
    [] s.op = "replace" ->
         IF HasTable(d, s.name) THEN {[d EXCEPT !.rows[s.name] = @ \cup s.tracks]} ELSE {}
    [] s.op = "path" ->
         {[d EXCEPT !.catalog = WithRow(@, s.track)]}
    [] s.op = "playlist" ->
         {[d EXCEPT !.listed = @ \cup {s.name}, !.current[s.name] = 0]}
    [] s.op = "current" ->
         {IF s.name \in d.listed THEN [d EXCEPT !.current[s.name] = s.current] ELSE d}

\* What a statement leaves behind: SQLite may also refuse it, which is only
\* printed (db.cpp:50-54).
Executed(d, s) == {d} \cup Outcomes(d, s)

\* db::select_playlist: without ORDER BY, SELECT DISTINCT walks the index of the
\* key of a playlist's table, and the rows of the catalog, which has no key.
SelectPlaylist(d, n) == IF n = Catalog THEN d.catalog ELSE Sorted[d.rows[n]]

\* Mutant: the position is never read back.
FirstPosition(d, n) == 0

\* db::get_playlist_current
SavedPosition(d, n) == IF n \in d.listed THEN d.current[n] ELSE 0

=============================================================================
