---------------------------- MODULE PlaylistStore ----------------------------
(***************************************************************************)
(* One playlist and the three places it is kept in: the object in memory   *)
(* (src/src/playlist.cpp), its table in the database, which class db       *)
(* reaches through the write queue, and the .m3u file it is exported to    *)
(* and read from.                                                          *)
(***************************************************************************)
EXTENDS Naturals, FiniteSets, SequencesExt

CONSTANTS
  Tracks,       \* paths
  Files,        \* those of them that exist
  SortedPaths,  \* a set of paths in the order of the key of the table
  Batches,      \* lists that are inserted
  MaxTracks,    \* bound: tracks in the object
  MaxPending    \* bound: statements waiting when an operation starts

ASSUME PlaylistStoreAssumption ==
  /\ Files \subseteq Tracks /\ "#" \notin Tracks
  /\ \A S \in SUBSET Tracks :
       SortedPaths[S] \in Seq(S) /\ ToSet(SortedPaths[S]) = S /\ IsInjective(SortedPaths[S])
  /\ Batches \subseteq Seq(Tracks)
  /\ MaxTracks \in Nat /\ MaxPending \in Nat

VARIABLES
  tracks,       \* the object's list
  table,        \* the playlist's table: does it exist, and its rows
  catalog,      \* the paths in db_catalog
  pending,      \* statements pushed and not yet executed
  lines,        \* the .m3u file
  export,       \* how far an export is
  exported,     \* the list the file is an export of, for the properties
  goal, asked,  \* the table the last call asks for, and all tables asked for that may be on their way
  refused       \* was a statement refused, with no save after it into an empty queue?

stored == <<table, catalog, pending>>
file == <<lines, export, exported>>
ghosts == <<goal, asked, refused>>
vars == <<tracks, stored, file, ghosts>>

NoTable == [exists |-> FALSE, rows |-> {}]
Holding(S) == [exists |-> TRUE, rows |-> S]
Table == {NoTable} \cup {Holding(S) : S \in SUBSET Tracks}

-----------------------------------------------------------------------------
(* Statements (src/src/db.cpp), and what SQLite does with them *)

Create == [op |-> "create"]
Drop == [op |-> "drop"]
Replace(S) == [op |-> "replace", paths |-> S]
Delete(t) == [op |-> "delete", path |-> t]
Insert(t) == [op |-> "insert", path |-> t]

\* Mutant: one statement for each path.
AddOneByOne(l) == IF l = <<>> THEN <<>> ELSE <<Create>> \o [i \in DOMAIN l |-> Replace({l[i]})]

AddToPlaylist(l) == IF l = <<>> THEN <<>> ELSE <<Create, Replace(ToSet(l))>>

\* Without the table only CREATE and DROP succeed.
Changed(tb, s) ==
  CASE s.op = "create" -> [tb EXCEPT !.exists = TRUE]
    [] s.op = "drop" -> NoTable
    [] s.op = "replace" /\ tb.exists -> [tb EXCEPT !.rows = @ \cup s.paths]
    [] s.op = "delete" /\ tb.exists -> [tb EXCEPT !.rows = @ \ {s.path}]
    [] OTHER -> tb

\* A call that pushes q and asks for table tb; a save makes good for what was refused
\* before it.
Call(q, tb, save) ==
  LET still == refused /\ ~(save /\ pending = <<>>) IN
  /\ Len(pending) < MaxPending
  /\ pending' = pending \o q
  /\ refused' = still
  /\ goal' = IF still THEN NoTable ELSE tb
  /\ asked' = IF still THEN {} ELSE IF pending = <<>> THEN {table, tb} ELSE asked \cup {tb}

-----------------------------------------------------------------------------
(* Changing the list *)

\* Mutant: the place of insertion moves to what was inserted.
RoundsThere(l, at, paths) ==
  LET Round[n \in 0..Len(paths)] ==
        IF n = 0 THEN l ELSE InsertAt(Round[n - 1], at + 1, Reverse(paths)[n])
  IN Round

\* The loop of insert_after takes the last path first and inserts in front of the
\* track, or the end, it found at index `at`, which moves on by one each round.
Rounds(l, at, paths) ==
  LET Round[n \in 0..Len(paths)] ==
        IF n = 0 THEN l ELSE InsertAt(Round[n - 1], at + n, Reverse(paths)[n])
  IN Round

Emplaced(l, at, paths) == Rounds(l, at, paths)[Len(paths)]

\* Mutant: the table is dropped after it was filled.
SavedLate(l) == AddToPlaylist(l) \o <<Drop>>

Saved(l) == <<Drop>> \o AddToPlaylist(l)

\* playlist::insert_after
InsertAfter(curr, paths, save) ==
  LET at == IF curr > Len(tracks) THEN Len(tracks) ELSE curr
      l == Emplaced(tracks, at, paths)
  IN /\ Len(l) <= MaxTracks
     /\ tracks' = l
     /\ IF save
          THEN Call(Saved(l), IF l = <<>> THEN NoTable ELSE Holding(ToSet(l)), TRUE)
          ELSE UNCHANGED <<pending, ghosts>>
     /\ UNCHANGED <<table, catalog, file>>

\* db::add_to_playlist of one path, and db::remove_from_playlist
AddPath(t) ==
  /\ Call(<<Replace({t})>>, Changed(goal, Replace({t})), FALSE)
  /\ UNCHANGED <<tracks, table, catalog, file>>

RemoveFromPlaylist(t) ==
  /\ Call(<<Delete(t)>>, Changed(goal, Delete(t)), FALSE)
  /\ UNCHANGED <<tracks, table, catalog, file>>

-----------------------------------------------------------------------------
(* playlist::export_playlist writes the file line by line.  It constructs a  *)
(* track for each path, which inserts the path into the catalog.             *)

Comment == "#"

\* A line is a path or a comment.  The header #EXTM3U is not followed by the end of its line: what is written
\* next ends up behind it, in a comment.
Written(l) == lines' = Append(lines, IF lines = <<>> THEN Comment ELSE l)

NoExport == [at |-> "none"]

\* Mutant: the old file is not truncated.
ExportAppend ==
  /\ export = NoExport /\ Len(pending) < MaxPending
  /\ export' = [at |-> "track", i |-> 1]
  /\ exported' = [list |-> tracks, known |-> tracks # <<>> /\ tracks[1] \in catalog, done |-> FALSE]
  /\ UNCHANGED <<tracks, stored, lines, ghosts>>

ExportOpen ==
  /\ export = NoExport /\ Len(pending) < MaxPending
  /\ lines' = <<>>
  /\ export' = [at |-> "track", i |-> 1]
  /\ exported' = [list |-> tracks, known |-> tracks # <<>> /\ tracks[1] \in catalog, done |-> FALSE]
  /\ UNCHANGED <<tracks, stored, ghosts>>

\* The constructor of track; what it inserts once more changes no set of paths.
ExportTrack ==
  /\ export.at = "track" /\ export.i <= Len(tracks)
  /\ LET t == tracks[export.i] IN
       pending' = IF t \in Files \ catalog THEN Append(pending, Insert(t)) ELSE pending
  /\ export' = [export EXCEPT !.at = "tags"]
  /\ UNCHANGED <<tracks, table, catalog, lines, exported, ghosts>>

\* A line with the tags of a path that is in the catalog by now
ExportTags ==
  /\ export.at = "tags"
  /\ IF tracks[export.i] \in catalog THEN Written(Comment) ELSE UNCHANGED lines
  /\ export' = [export EXCEPT !.at = "path"]
  /\ UNCHANGED <<tracks, stored, exported, ghosts>>

\* Mutant: the iterator moves twice.
ExportPathSkip ==
  /\ export.at = "path"
  /\ Written(tracks[export.i])
  /\ export' = [at |-> "track", i |-> export.i + 2]
  /\ UNCHANGED <<tracks, stored, exported, ghosts>>

ExportPath ==
  /\ export.at = "path"
  /\ Written(tracks[export.i])
  /\ export' = [at |-> "track", i |-> export.i + 1]
  /\ UNCHANGED <<tracks, stored, exported, ghosts>>

ExportClose ==
  /\ export.at = "track" /\ export.i > Len(tracks)
  /\ lines' = IF lines = <<>> THEN <<Comment>> ELSE lines
  /\ export' = NoExport
  /\ exported' = [exported EXCEPT !.done = TRUE]
  /\ UNCHANGED <<tracks, stored, ghosts>>

-----------------------------------------------------------------------------
(* The constructor that reads a file: every line that is no comment and names *)
(* a file that exists                                                         *)

Kept(l) ==
  LET Upto[n \in 0..Len(l)] ==
        IF n = 0 THEN <<>>
        ELSE IF l[n] \in Files THEN Append(Upto[n - 1], l[n]) ELSE Upto[n - 1]
  IN Upto

Existing(l) == Kept(l)[Len(l)]

Import ==
  LET l == Existing(lines) IN
  /\ export = NoExport
  /\ tracks' = l
  /\ Call(AddToPlaylist(l), IF l = <<>> THEN goal ELSE Holding(goal.rows \cup ToSet(l)), FALSE)
  /\ UNCHANGED <<table, catalog, file>>

-----------------------------------------------------------------------------
(* The write queue, and the end of the process *)

Execute ==
  /\ pending # <<>>
  /\ LET s == Head(pending) IN
       \/ /\ table' = Changed(table, s)
          /\ catalog' = IF s.op = "insert" THEN catalog \cup {s.path} ELSE catalog
          /\ asked' = IF Len(pending) = 1 /\ ~refused THEN {table'} ELSE asked
          /\ UNCHANGED <<goal, refused>>
       \/ /\ refused' = TRUE /\ goal' = NoTable /\ asked' = {}
          /\ UNCHANGED <<table, catalog>>
  /\ pending' = Tail(pending)
  /\ UNCHANGED <<tracks, file>>

\* The next start reads what the table holds; a file that was being written stays
\* as it is.
Restart ==
  /\ pending' = <<>>
  /\ export' = NoExport
  /\ tracks' = SortedPaths[table.rows]
  /\ goal' = table /\ asked' = {table} /\ refused' = FALSE
  /\ UNCHANGED <<table, catalog, lines, exported>>

Init ==
  /\ tracks = <<>>
  /\ table = NoTable /\ catalog = {} /\ pending = <<>>
  /\ lines = <<>> /\ export = NoExport /\ exported = [list |-> <<>>, known |-> FALSE, done |-> FALSE]
  /\ goal = NoTable /\ asked = {NoTable} /\ refused = FALSE

\* One thread exports, reads and changes the list.
Edit ==
  /\ export = NoExport
  /\ \E l \in Batches, save \in BOOLEAN, curr \in 0..(Len(tracks) + 1) : InsertAfter(curr, l, save)

Export == ExportOpen \/ ExportTrack \/ ExportTags \/ ExportPath \/ ExportClose

Next ==
  \/ Edit \/ \E t \in Tracks : AddPath(t) \/ RemoveFromPlaylist(t)
  \/ Export \/ Import
  \/ Execute \/ Restart

Spec == Init /\ [][Next]_vars

-----------------------------------------------------------------------------
(* Properties *)

Statements == {Create, Drop} \cup {Replace(S) : S \in SUBSET Tracks}
              \cup {Delete(t) : t \in Tracks} \cup {Insert(t) : t \in Tracks}

TypeOK ==
  /\ tracks \in Seq(Tracks)
  /\ table \in Table /\ catalog \subseteq Tracks /\ pending \in Seq(Statements)
  /\ lines \in Seq(Tracks \cup {Comment})
  /\ export \in {NoExport} \cup [at : {"track", "tags", "path"}, i : 1..(Len(tracks) + 1)]
  /\ exported \in [list : Seq(Tracks), known : BOOLEAN, done : BOOLEAN]
  /\ goal \in Table /\ asked \subseteq Table /\ refused \in BOOLEAN

\* The tables that execute the statements of q one after the other
Drained(tb, q) ==
  LET After[n \in 0..Len(q)] == IF n = 0 THEN tb ELSE Changed(After[n - 1], q[n])
  IN After

InTheEnd == Drained(table, pending)[Len(pending)]

\* Once the queue is drained the table holds what the object was last saved with
\* and what was added and removed since, unless a statement is refused: no call's
\* statements undo another's (playlist.cpp:202-203).
SavesWhatIsAsked == ~refused => InTheEnd = goal

\* Wherever the process ends, the next start finds a list somebody asked for, or
\* none: a save may lose the playlist, but no part of it (db.cpp:101-115).
WholeListsOnly == ~refused => table \in asked \cup {NoTable, Holding({})}

\* An export that was finished reads back as the list it was made of, without the
\* paths that do not exist, and possibly without the first path when the catalog
\* did not know it (playlist.cpp:132, 136); one that was interrupted as the
\* beginning of that.
ExportReadsBack ==
  LET l == exported.list
      whole == {Existing(l)} \cup (IF l = <<>> \/ exported.known THEN {} ELSE {Existing(Tail(l))})
  IN IF exported.done THEN Existing(lines) \in whole ELSE \E w \in whole : IsPrefix(Existing(lines), w)

\* insert_after puts the new tracks side by side, in reverse, behind the first
\* `curr` tracks, and leaves the others in their order (playlist.cpp:189-199).
InsertsTogether ==
  \A l \in Batches, n \in 0..Len(tracks) :
    Emplaced(tracks, n, l) =
      SubSeq(tracks, 1, n) \o Reverse(l) \o SubSeq(tracks, n + 1, Len(tracks))

=============================================================================
