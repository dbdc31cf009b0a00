------------------------------ MODULE Catalog ------------------------------
(***************************************************************************)
(* The rows of table db_catalog: how the scan and the constructor of class *)
(* track (src/src/track.cpp:38-100) fill it, from several threads, through *)
(* the write queue of class db (src/src/db.cpp).                           *)
(***************************************************************************)
EXTENDS Naturals, Sequences

CONSTANTS
  Tracks,       \* paths of files that a scan or a playlist names
  Audio,        \* those of them that are audio files
  Threads,      \* threads that construct tracks
  MaxRows       \* bound: rows and statements when a track is constructed

ASSUME CatalogAssumption == Audio \subseteq Tracks /\ MaxRows \in Nat

VARIABLES
  rows,         \* the rows of db_catalog in the order of their rowid
  pending,      \* statements pushed and not yet executed
  known,        \* db_catalog.tracks of the player
  ctor,         \* what each thread's constructor has read
  wanted,       \* paths whose duration was asked of db_queue
  looked        \* paths a track was ever constructed for

vars == <<rows, pending, known, ctor, wanted, looked>>

-----------------------------------------------------------------------------
(* Rows and statements *)

\* The hash of the file's content is never that of a fresh row (db.cpp:18).
Hashes == {"-1", "file"}
Tags == {"none", "file"}
Durations == {"0", "seconds", "nanoseconds", "uninitialized"}
Row == [path : Tracks, tags : Tags, hash : Hashes, duration : Durations]
Bare(t) == [path |-> t, tags |-> "none", hash |-> "-1", duration |-> "0"]

\* update_duration(song*) turns the path into a URI before it uses it as a key.
Uri(t) == <<"file", t>>

InsertPath(t) == [op |-> "insert", row |-> Bare(t)]
InsertTrack(r) == [op |-> "insert", row |-> r]
SetDuration(key, d) == [op |-> "duration", key |-> key, duration |-> d]

\* The string update_track builds starts after the title (db.cpp:126 assigns to
\* a temporary) and is no statement.
UpdateTrack == [op |-> "invalid"]

Executed(r, s) ==
  CASE s.op = "insert" -> Append(r, s.row)
    [] s.op = "duration" ->
         [i \in DOMAIN r |-> IF r[i].path = s.key THEN [r[i] EXCEPT !.duration = s.duration] ELSE r[i]]
    [] s.op = "invalid" -> r

RowsOf(t) == {i \in DOMAIN rows : rows[i].path = t}

\* db::select_track: the first row; it does not ask for the duration.
Found(t) == RowsOf(t) # {}
Selected(t) ==
  LET i == CHOOSE i \in RowsOf(t) : \A j \in RowsOf(t) : i <= j
  IN [rows[i] EXCEPT !.duration = "uninitialized"]

-----------------------------------------------------------------------------
(* The scan: player::populate (player.cpp:118-126) *)

Scan(t) ==
  /\ t \notin known
  /\ known' = known \cup {t}
  /\ pending' = Append(pending, InsertPath(t))
  /\ UNCHANGED <<rows, ctor, wanted, looked>>

-----------------------------------------------------------------------------
(* The constructor of track *)

Idle == [at |-> "idle"]

\* It asks the database for the path, and inserts it at once if it is not there.
Look(x, t) ==
  /\ ctor[x] = Idle /\ Len(rows) + Len(pending) < MaxRows
  /\ looked' = looked \cup {t}
  /\ IF Found(t)
       THEN ctor' = [ctor EXCEPT ![x] = [at |-> "found", row |-> Selected(t)]] /\ UNCHANGED pending
       ELSE ctor' = [ctor EXCEPT ![x] = [at |-> "new", path |-> t]] /\ pending' = Append(pending, InsertPath(t))
  /\ UNCHANGED <<rows, known, wanted>>

\* The file has been hashed: a path that was not found is inserted once more.
FinishNew(x) ==
  /\ ctor[x].at = "new"
  /\ pending' = Append(pending, InsertPath(ctor[x].path))
  /\ ctor' = [ctor EXCEPT ![x] = Idle]
  /\ UNCHANGED <<rows, known, wanted, looked>>

\* Mutant: the new hash is stored, in a second row.
FinishHashed(x) ==
  LET r == ctor[x].row IN
  /\ ctor[x].at = "found"
  /\ r.path \in Audio /\ r.hash # "file"
  /\ pending' = Append(pending, InsertTrack([r EXCEPT !.hash = "file"]))
  /\ wanted' = wanted \cup {r.path}
  /\ ctor' = [ctor EXCEPT ![x] = Idle]
  /\ UNCHANGED <<rows, known, looked>>

\* A row whose hash is not the file's is inserted again as it was read: the tags
\* just taken from the file, and its hash, are not in it.
FinishChanged(x) ==
  LET r == ctor[x].row IN
  /\ ctor[x].at = "found"
  /\ r.path \in Audio /\ r.hash # "file"
  /\ pending' = Append(pending, InsertTrack(r))
  /\ wanted' = wanted \cup {r.path}
  /\ ctor' = [ctor EXCEPT ![x] = Idle]
  /\ UNCHANGED <<rows, known, looked>>

\* Whether the duration is asked for depends on an uninitialized member.
FinishSame(x) ==
  LET r == ctor[x].row IN
  /\ ctor[x].at = "found"
  /\ r.path \notin Audio \/ r.hash = "file"
  /\ wanted' \in {wanted, wanted \cup {r.path}}
  /\ ctor' = [ctor EXCEPT ![x] = Idle]
  /\ UNCHANGED <<rows, pending, known, looked>>

-----------------------------------------------------------------------------
(* Durations and tags *)

\* The consumer of db_queue, when the path can still be read through the pointer
\* it was given; otherwise it gives up.
Measure(t) ==
  /\ t \in wanted
  /\ wanted' = wanted \ {t}
  /\ \/ /\ Len(rows) + Len(pending) < MaxRows
        /\ pending' = Append(pending, SetDuration(Uri(t), "seconds"))
     \/ UNCHANGED pending
  /\ UNCHANGED <<rows, known, ctor, looked>>

\* player::duratin, for the current track, when a client asks for the position
Duratin(t) ==
  /\ t \in looked /\ Len(rows) + Len(pending) < MaxRows
  /\ pending' = Append(pending, SetDuration(t, "nanoseconds"))
  /\ UNCHANGED <<rows, known, ctor, wanted, looked>>

\* db_queue::push_song and its consumer
PushSong ==
  /\ Len(rows) + Len(pending) < MaxRows
  /\ pending' = Append(pending, UpdateTrack)
  /\ UNCHANGED <<rows, known, ctor, wanted, looked>>

-----------------------------------------------------------------------------
(* The write queue, which may refuse any statement, and the end of the process *)

\* Mutant: a row that is inserted takes the place of the path's other rows.
ExecuteReplacing ==
  /\ pending # <<>>
  /\ LET s == Head(pending) IN
       rows' = IF s.op = "insert"
                 THEN Append(SelectSeq(rows, LAMBDA r : r.path # s.row.path), s.row)
                 ELSE Executed(rows, s)
  /\ pending' = Tail(pending)
  /\ UNCHANGED <<known, ctor, wanted, looked>>

Execute ==
  /\ pending # <<>>
  /\ rows' \in {rows, Executed(rows, Head(pending))}
  /\ pending' = Tail(pending)
  /\ UNCHANGED <<known, ctor, wanted, looked>>

\* Mutant: the catalog in memory starts empty.
RestartEmpty ==
  /\ pending' = <<>>
  /\ known' = {}
  /\ ctor' = [x \in Threads |-> Idle] /\ wanted' = {}
  /\ UNCHANGED <<rows, looked>>

Restart ==
  /\ pending' = <<>>
  /\ known' = {rows[i].path : i \in DOMAIN rows}
  /\ ctor' = [x \in Threads |-> Idle] /\ wanted' = {}
  /\ UNCHANGED <<rows, looked>>

Init ==
  /\ rows = <<>> /\ pending = <<>> /\ known = {}
  /\ ctor = [x \in Threads |-> Idle] /\ wanted = {}
  /\ looked = {}

Construct(x) ==
  \/ \E t \in Tracks : Look(x, t)
  \/ FinishNew(x) \/ FinishChanged(x) \/ FinishSame(x)

Next ==
  \/ \E t \in Audio : Scan(t)
  \/ \E x \in Threads : Construct(x)
  \/ \E t \in Tracks : Measure(t) \/ Duratin(t)
  \/ PushSong
  \/ Execute \/ Restart

Spec == Init /\ [][Next]_vars

-----------------------------------------------------------------------------
(* Properties *)

Inserts == {i \in DOMAIN pending : pending[i].op = "insert"}

TypeOK ==
  /\ rows \in Seq(Row)
  /\ \A i \in DOMAIN pending :
       \/ pending[i].op = "insert" /\ pending[i].row \in Row
       \/ pending[i].op = "duration" /\ pending[i].duration \in Durations
       \/ pending[i] = UpdateTrack
  /\ known \subseteq Tracks /\ wanted \subseteq Tracks /\ looked \subseteq Tracks
  /\ \A x \in Threads :
       \/ ctor[x] = Idle
       \/ ctor[x].at = "new" /\ ctor[x].path \in Tracks
       \/ ctor[x].at = "found" /\ ctor[x].row \in Row

\* SELECT DISTINCT path FROM db_catalog (db.cpp:241)
Paths(r) == [i \in DOMAIN r |-> r[i].path]

Known(p, n) == \E i \in 1..(n - 1) : p[i] = p[n]

DistinctUpto(p) ==
  LET Upto[n \in 0..Len(p)] ==
        IF n = 0 THEN <<>> ELSE IF Known(p, n) THEN Upto[n - 1] ELSE Append(Upto[n - 1], p[n])
  IN Upto

Seen(r) == DistinctUpto(Paths(r))[Len(r)]

\* The list of paths a reader sees implements CatalogList: duplicate rows, updates
\* and crashes never take a path out of it or move one.
List == INSTANCE CatalogList WITH list <- Seen(rows)
KeepsList == List!Spec

\* select_track takes whichever row SQLite comes to first (db.cpp:177): all rows of
\* a path give the same answer, whatever was inserted in between.
AnyRowWillDo ==
  \A i, j \in DOMAIN rows :
    rows[i].path = rows[j].path => rows[i].tags = rows[j].tags /\ rows[i].hash = rows[j].hash

\* The scan adds one row for a file, over any number of restarts: only tracks that
\* were constructed have more (player.cpp:121, track.cpp:69, 75, 80).
ScanAddsOneRow ==
  \A t \in Tracks \ looked :
    /\ \A i, j \in DOMAIN rows : rows[i].path = t /\ rows[j].path = t => i = j
    /\ \A i \in DOMAIN rows, j \in Inserts : ~(rows[i].path = t /\ pending[j].row.path = t)
    /\ \A i, j \in Inserts : pending[i].row.path = t /\ pending[j].row.path = t => i = j

=============================================================================
