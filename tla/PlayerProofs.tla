---------------------------- MODULE PlayerProofs ----------------------------
(***************************************************************************)
(* What module Player promises, for any music library and any collation.   *)
(***************************************************************************)
EXTENDS Player, WellFoundedInduction, TLAPS

Playlist == [name : Names, tracks : Seq(Tracks)]

Occurs(x, l) == \E i \in DOMAIN l : l[i] = x
NoRepeats(l) == \A i, j \in DOMAIN l : l[i] = l[j] => i = j

-----------------------------------------------------------------------------
(* Positions in lists *)

\* Stepping forward and stepping back undo each other inside a list.
THEOREM StepsInverse ==
  ASSUME NEW n \in Nat, NEW i \in Nat, i < n
  PROVE  /\ Forward(i, n) \in 0..(n - 1) /\ Back(i, n) \in 0..(n - 1)
         /\ Back(Forward(i, n), n) = i
         /\ Forward(Back(i, n), n) = i
  BY DEF Forward, Back

\* Every step yields a position, also from the end of a list or past it.
LEMMA StepsType ==
  ASSUME NEW n \in Nat, NEW i \in Nat
  PROVE  Forward(i, n) \in Nat /\ Back(i, n) \in Nat
  BY DEF Forward, Back

\* A set of natural numbers has a least member.
LEMMA LeastIndex ==
  ASSUME NEW S \in SUBSET Nat, S # {}
  PROVE  \E i \in S : \A j \in S : i <= j
<1> DEFINE Less == {ss \in Nat \X Nat : ss[1] < ss[2]}
<1>1. IsWellFoundedOn(Less, Nat)
  BY NatLessThanWellFounded DEF OpToRel
<1>2. PICK i \in S : \A j \in S : <<j, i>> \notin Less
  <2> HIDE DEF Less
  <2> QED BY <1>1, WFMin
<1>3. \A j \in S : ~(j < i)
  BY <1>2
<1> QED BY <1>3

\* A set of positions in a list has a greatest member.
LEMMA LatestIndex ==
  ASSUME NEW l, l \in Seq(Playlist), NEW S \in SUBSET DOMAIN l, S # {}
  PROVE  \E i \in S : \A j \in S : j <= i
<1> DEFINE T == {Len(l) - j : j \in S}
<1>1. T \in SUBSET Nat /\ T # {} OBVIOUS
<1>2. PICK m \in T : \A h \in T : m <= h
  <2> HIDE DEF T
  <2> QED BY <1>1, LeastIndex
<1>3. PICK i \in S : m = Len(l) - i BY <1>2
<1>4. ASSUME NEW j \in S PROVE j <= i
  <2>1. Len(l) - i <= Len(l) - j BY <1>2, <1>3
  <2> QED BY <2>1
<1> QED BY <1>4

\* player::named finds a playlist of the name it is given, if there is one.
LEMMA NamedFinds ==
  ASSUME NEW l \in Seq(Playlist), Len(l) > 0, NEW n
  PROVE  /\ \E i \in DOMAIN l : Named(l, n) = l[i]
         /\ (\E i \in DOMAIN l : l[i].name = n) => Named(l, n).name = n
<1>1. CASE \E i \in DOMAIN l : l[i].name = n
  <2> DEFINE S == {i \in DOMAIN l : l[i].name = n}
  <2>1. S # {} /\ S \in SUBSET Nat BY <1>1
  <2>2. PICK i \in S : \A j \in S : i <= j BY <2>1, LeastIndex
  <2>3. i \in DOMAIN l /\ l[i].name = n /\ \A j \in 1..(i - 1) : l[j].name # n
    BY <2>2
  <2> QED BY <1>1, <2>3 DEF Named
<1>2. CASE ~ \E i \in DOMAIN l : l[i].name = n
  BY <1>2 DEF Named
<1> QED BY <1>1, <1>2

\* playlist::index_of finds the position of a path that occurs once.
LEMMA IndexOfFinds ==
  ASSUME NEW l \in Seq(Tracks), NoRepeats(l), NEW i \in Nat, i < Len(l)
  PROVE  IndexOf(l, l[i + 1]) = i
<1>1. i + 1 \in DOMAIN l /\ \A k \in DOMAIN l : l[k] = l[i + 1] => k = i + 1
  BY DEF NoRepeats
<1>2. (CHOOSE k \in DOMAIN l : l[k] = l[i + 1] /\ \A j \in 1..(k - 1) : l[j] # l[i + 1]) = i + 1
  BY <1>1
<1> QED BY <1>1, <1>2 DEF IndexOf

\* json finds a neighbour for every list but the empty one, wherever the cursor is.
LEMMA PeaksAreTracks ==
  ASSUME NEW l \in Seq(Tracks), Len(l) > 0, NEW i \in Nat
  PROVE  PeakNext(l, i) \in Tracks /\ PeakPrevious(l, i) \in Tracks
<1> DEFINE p == IF i < Len(l) THEN IndexOf(l, l[i + 1]) ELSE 0
<1>1. ASSUME NEW t PROVE IndexOf(l, t) \in 0..(Len(l) - 1)
  <2>1. CASE \E j \in DOMAIN l : l[j] = t
    <3> DEFINE S == {j \in DOMAIN l : l[j] = t}
    <3>1. S # {} BY <2>1
    <3>2. S \in SUBSET Nat OBVIOUS
    <3>3. PICK j \in S : \A h \in S : j <= h
      <4> HIDE DEF S
      <4> QED BY <3>1, <3>2, LeastIndex
    <3>4. j \in DOMAIN l /\ l[j] = t /\ \A g \in 1..(j - 1) : l[g] # t
      BY <3>3
    <3> DEFINE First(h) == l[h] = t /\ \A g \in 1..(h - 1) : l[g] # t
               c == CHOOSE h \in DOMAIN l : First(h)
    <3>5. c \in DOMAIN l BY <3>4
    <3>6. IndexOf(l, t) = c - 1 BY <2>1 DEF IndexOf
    <3> HIDE DEF c
    <3> QED BY <3>5, <3>6
  <2>2. CASE ~ \E j \in DOMAIN l : l[j] = t BY <2>2 DEF IndexOf
  <2> QED BY <2>1, <2>2
<1>2. p \in 0..(Len(l) - 1) BY <1>1
<1>3. /\ PeakNext(l, i) = l[Forward(p, Len(l)) + 1]
      /\ PeakPrevious(l, i) = l[Back(p, Len(l)) + 1]
  BY DEF PeakNext, PeakPrevious
<1> HIDE DEF p
<1>4. Forward(p, Len(l)) \in 0..(Len(l) - 1) /\ Back(p, Len(l)) \in 0..(Len(l) - 1)
  BY <1>2, StepsInverse
<1>5. \A k \in 0..(Len(l) - 1) : l[k + 1] \in Tracks OBVIOUS
<1> QED BY <1>3, <1>4, <1>5

-----------------------------------------------------------------------------
(* The database *)

\* What SQLite makes of a statement, or not, is a database; no table is dropped,
\* and the catalog's DISTINCT list stays one.
LEMMA ExecutedKeeps ==
  ASSUME NEW d \in Database, NEW s \in Statement, NEW e \in Executed(d, s)
  PROVE  /\ e \in Database
         /\ \A n : HasTable(d, n) => HasTable(e, n)
         /\ NoRepeats(d.catalog) => NoRepeats(e.catalog)
<1> USE LibraryAssumption DEF Names, Database
<1>1. CASE e = d BY <1>1
<1>2. CASE s.op = "create" /\ e \in Outcomes(d, s)
  <2>1. s.name \in Names BY <1>2 DEF Statement
  <2>2. CASE HasTable(d, s.name) BY <1>2, <2>2 DEF Outcomes
  <2>3. CASE ~HasTable(d, s.name)
    <3>1. e = [d EXCEPT !.tables = Append(@, s.name)] BY <1>2, <2>3 DEF Outcomes
    <3>2. e.tables = Append(d.tables, s.name) /\ e.catalog = d.catalog BY <3>1
    <3>3. Append(d.tables, s.name) \in Seq(Names) BY <2>1
    <3>4. \A i \in DOMAIN d.tables : i \in DOMAIN e.tables /\ e.tables[i] = d.tables[i]
      BY <3>2
    <3> QED BY <3>1, <3>2, <3>3, <3>4 DEF HasTable
  <2> QED BY <2>2, <2>3
<1>3. CASE s.op = "replace" /\ e \in Outcomes(d, s)
  <2>1. s.name \in Playlists /\ s.tracks \in SUBSET Tracks BY <1>3 DEF Statement
  <2>2. e = [d EXCEPT !.rows[s.name] = @ \cup s.tracks] BY <1>3 DEF Outcomes
  <2> QED BY <2>1, <2>2 DEF HasTable
<1>4. CASE s.op = "path" /\ e \in Outcomes(d, s)
  <2>1. s.track \in Tracks BY <1>4 DEF Statement
  <2>2. e = [d EXCEPT !.catalog = WithRow(@, s.track)] BY <1>4 DEF Outcomes
  <2>3. WithRow(d.catalog, s.track) \in Seq(Tracks) BY <2>1 DEF WithRow
  <2>4. NoRepeats(d.catalog) => NoRepeats(WithRow(d.catalog, s.track))
    BY <2>1 DEF WithRow, NoRepeats
  <2> QED BY <2>2, <2>3, <2>4 DEF HasTable
<1>5. CASE s.op = "playlist" /\ e \in Outcomes(d, s)
  <2>1. s.name \in Names BY <1>5 DEF Statement
  <2>2. e = [d EXCEPT !.listed = @ \cup {s.name}, !.current[s.name] = 0] BY <1>5 DEF Outcomes
  <2> QED BY <2>1, <2>2 DEF HasTable
<1>6. CASE s.op = "current" /\ e \in Outcomes(d, s)
  <2>1. s.name \in Names /\ s.current \in Nat BY <1>6 DEF Statement
  <2>2. e = IF s.name \in d.listed THEN [d EXCEPT !.current[s.name] = s.current] ELSE d
    BY <1>6 DEF Outcomes
  <2> QED BY <2>1, <2>2 DEF HasTable
<1>7. s.op \in {"create", "replace", "path", "playlist", "current"} BY DEF Statement
<1> QED BY <1>1, <1>2, <1>3, <1>4, <1>5, <1>6, <1>7 DEF Executed

\* A playlist read from the database has no path twice.
LEMMA SelectedOnce ==
  ASSUME NEW d \in Database, NoRepeats(d.catalog), NEW n \in Names
  PROVE  SelectPlaylist(d, n) \in Seq(Tracks) /\ NoRepeats(SelectPlaylist(d, n))
<1>1. CASE n = Catalog BY <1>1 DEF SelectPlaylist, Database
<1>2. CASE n # Catalog
  <2>1. d.rows[n] \in SUBSET Tracks BY <1>2 DEF Names, Database
  <2> QED BY <1>2, <2>1, LibraryAssumption DEF SelectPlaylist, ListsOnce, NoRepeats
<1> QED BY <1>1, <1>2

\* What the operations push are statements.
LEMMA PushedAreStatements ==
  /\ \A n \in Playlists : InsertPlaylist(n) \in Statement
  /\ \A t \in Tracks : InsertPath(t) \in Statement
  /\ \A n \in Names, i \in Nat : SetCurrent(n, i) \in Statement
  /\ \A t \in Tracks : Looked(t) \in Seq(Statement)
  /\ \A n \in Playlists, l \in Seq(Tracks) : AddToPlaylist(n, l) \in Seq(Statement)
<1>1. \A n \in Playlists : InsertPlaylist(n) \in Statement BY DEF InsertPlaylist, Statement
<1>2. \A t \in Tracks : InsertPath(t) \in Statement BY DEF InsertPath, Statement
<1>3. \A n \in Names, i \in Nat : SetCurrent(n, i) \in Statement BY DEF SetCurrent, Statement
<1>4. \A t \in Tracks : Looked(t) \in Seq(Statement)
  <2> HIDE DEF Statement
  <2> QED BY <1>2 DEF Looked
<1>5. ASSUME NEW n \in Playlists, NEW l \in Seq(Tracks)
      PROVE  AddToPlaylist(n, l) \in Seq(Statement)
  <2>1. CreateTable(n) \in Statement BY DEF CreateTable, Statement
  <2>2. {l[i] : i \in DOMAIN l} \in SUBSET Tracks OBVIOUS
  <2>3. \A S \in SUBSET Tracks : ReplaceInto(n, S) \in Statement BY DEF ReplaceInto, Statement
  <2> QED BY <2>1, <2>2, <2>3 DEF AddToPlaylist
<1> QED BY <1>1, <1>2, <1>3, <1>4, <1>5

-----------------------------------------------------------------------------
(* The inductive invariant *)

\* Tables are never dropped: every name read from the database once is a table
\* still, and the playlist the settings file names is among them.
TablesStay ==
  /\ \A i \in DOMAIN playlist_tables : HasTable(disk, playlist_tables[i])
  /\ Occurs(settings, playlist_tables)

\* Every table that was listed is in memory under its name, with every path once;
\* a playlist only found in a file may repeat paths; only set_current_playlist chooses it.
Loaded ==
  /\ \A i \in DOMAIN playlist_tables : \E j \in DOMAIN playlists : playlists[j].name = playlist_tables[i]
  /\ \A j \in DOMAIN playlists :
       Occurs(playlists[j].name, playlist_tables) => NoRepeats(playlists[j].tracks)

\* A list from the database repeats no path, and is current without repeating one.
NoTrackTwice ==
  /\ NoRepeats(disk.catalog)
  /\ Occurs(current_playlist.name, playlist_tables) => NoRepeats(current_playlist.tracks)

\* A process that scans has cleared the flag of the duration queue.
ScanClears == phase = "scan" => scanned

IInv == TypeOK /\ TablesStay /\ Loaded /\ NoTrackTwice /\ ScanClears /\ PausedIsSilent

-----------------------------------------------------------------------------
(* Building blocks of the operations *)

OutputType ==
  /\ current_track \in Tracks \cup {"empty", "destroyed"}
  /\ playbin \in {"null", "playing", "paused"}
  /\ is_paused \in BOOLEAN
  /\ bus \in {"none", "eos"}

\* player::play keeps the types, makes its playlist current, and leaves a
\* pipeline that agrees with is_paused.
LEMMA PlayAtKeeps ==
  ASSUME OutputType, PausedIsSilent,
         NEW pl \in Playlist, NEW i \in Nat, NEW q \in Seq(Statement),
         NEW risks, NEW stopped, PlayAt(pl, i, q, risks, stopped)
  PROVE  /\ current_playlist' = pl /\ it_track' = i
         /\ phase' \in {"run", "dead", "stuck"}
         /\ OutputType' /\ PausedIsSilent'
         /\ pending' \in Seq(Statement)
<1>1. current_playlist' = pl /\ it_track' = i BY DEF PlayAt
<1>2. CASE /\ phase' \in {"dead", "stuck"} /\ pending' = q
           /\ playbin' = "null" /\ bus' = "none" /\ UNCHANGED <<current_track, is_paused>>
  BY <1>1, <1>2 DEF OutputType, PausedIsSilent
<1>3. CASE /\ i <= Len(pl.tracks)
           /\ phase' = "run"
           /\ LET t == IF i < Len(pl.tracks) THEN pl.tracks[i + 1] ELSE "empty" IN
                current_track' = IF stopped THEN Stopped(t) ELSE t
           /\ playbin' = IF stopped THEN "null" ELSE "playing"
           /\ is_paused' = FALSE /\ bus' = "none"
           /\ pending' = q \o (IF i < Len(pl.tracks) THEN Looked(pl.tracks[i + 1]) ELSE <<>>)
                           \o <<SetCurrent(pl.name, i)>>
  <2>1. pl.tracks \in Seq(Tracks) /\ pl.name \in Names BY DEF Playlist
  <2>2. i < Len(pl.tracks) => pl.tracks[i + 1] \in Tracks BY <2>1
  <2>3. current_track' \in Tracks \cup {"empty", "destroyed"} BY <1>3, <2>2 DEF Stopped
  <2>4. playbin' \in {"null", "playing"} BY <1>3
  <2>5. (IF i < Len(pl.tracks) THEN Looked(pl.tracks[i + 1]) ELSE <<>>) \in Seq(Statement)
    BY <2>2, PushedAreStatements
  <2>6. <<SetCurrent(pl.name, i)>> \in Seq(Statement)
    BY <2>1, PushedAreStatements
  <2>7. pending' \in Seq(Statement) BY <1>3, <2>5, <2>6
  <2> QED BY <1>1, <1>3, <2>3, <2>4, <2>7 DEF OutputType, PausedIsSilent
<1> QED BY <1>2, <1>3, Zenon DEF PlayAt

\* The playlists read from the database: one per table, under its name.
LEMMA FromDbLoads ==
  ASSUME disk \in Database, NoRepeats(disk.catalog), NEW names \in Seq(Names)
  PROVE  /\ FromDb(names) \in Seq(Playlist) /\ Len(FromDb(names)) = Len(names)
         /\ \A i \in DOMAIN names : FromDb(names)[i].name = names[i]
         /\ \A i \in DOMAIN names : FromDb(names)[i].tracks = SelectPlaylist(disk, names[i])
         /\ \A i \in DOMAIN names : NoRepeats(FromDb(names)[i].tracks)
<1>1. \A i \in DOMAIN names : names[i] \in Names OBVIOUS
<1>2. \A i \in DOMAIN names : [name |-> names[i], tracks |-> SelectPlaylist(disk, names[i])] \in Playlist
  BY <1>1, SelectedOnce DEF Playlist
<1>3. FromDb(names) \in Seq(Playlist) /\ Len(FromDb(names)) = Len(names)
  BY <1>2 DEF FromDb
<1>4. \A i \in DOMAIN names : FromDb(names)[i] = [name |-> names[i], tracks |-> SelectPlaylist(disk, names[i])]
  BY DEF FromDb
<1>5. ASSUME NEW i \in DOMAIN names
      PROVE  FromDb(names)[i].name = names[i] /\ FromDb(names)[i].tracks = SelectPlaylist(disk, names[i])
  <2>1. FromDb(names)[i] = [name |-> names[i], tracks |-> SelectPlaylist(disk, names[i])] BY <1>4
  <2> QED BY <2>1
<1>6. \A i \in DOMAIN names : NoRepeats(SelectPlaylist(disk, names[i]))
  BY <1>1, SelectedOnce
<1> QED BY <1>3, <1>5, <1>6

\* A playlist that a table was listed for can be switched to by that name.
LEMMA SwitchFinds ==
  ASSUME IInv, NEW n, Occurs(n, playlist_tables)
  PROVE  /\ Named(playlists, n) \in Playlist
         /\ Named(playlists, n).name = n
         /\ NoRepeats(Named(playlists, n).tracks)
<1>1. playlists \in Seq(Playlist) BY DEF IInv, TypeOK, Playlist
<1>2. \E j \in DOMAIN playlists : playlists[j].name = n BY DEF IInv, Loaded, Occurs
<1>3. Len(playlists) > 0 BY <1>1, <1>2
<1>4. Named(playlists, n).name = n BY <1>1, <1>2, <1>3, NamedFinds
<1>5. PICK i \in DOMAIN playlists : Named(playlists, n) = playlists[i]
  BY <1>1, <1>3, NamedFinds
<1>6. playlists[i] \in Playlist BY <1>1
<1> QED BY <1>4, <1>5, <1>6 DEF IInv, Loaded

\* Playing a list keeps the invariant, when the settings file goes on to name a table:
\* all operations of the running player that move a cursor.
LEMMA PlayKeeps ==
  ASSUME IInv,
         NEW pl \in Playlist, NEW i \in Nat, NEW risks, NEW stopped,
         PlayAt(pl, i, pending, risks, stopped),
         Occurs(pl.name, playlist_tables) => NoRepeats(pl.tracks),
         settings' \in Names, Occurs(settings', playlist_tables),
         it' \in 1..Len(playlist_tables), watch' \in BOOLEAN,
         UNCHANGED <<disk, scanned, library>>
  PROVE  IInv'
<1>1. OutputType /\ PausedIsSilent /\ pending \in Seq(Statement)
  BY DEF IInv, TypeOK, OutputType
<1>2. /\ current_playlist' = pl /\ it_track' = i
      /\ phase' \in {"run", "dead", "stuck"}
      /\ OutputType' /\ PausedIsSilent'
      /\ pending' \in Seq(Statement)
  BY <1>1, PlayAtKeeps
<1>3. TypeOK' BY <1>2 DEF IInv, TypeOK, OutputType, library, Playlist
<1>4. TablesStay' BY DEF IInv, TablesStay, library, Occurs
<1>5. Loaded' BY DEF IInv, Loaded, library, Occurs
<1>6. NoTrackTwice' BY <1>2 DEF IInv, NoTrackTwice, library, Occurs
<1>7. ScanClears' BY <1>2 DEF ScanClears
<1> QED BY <1>2, <1>3, <1>4, <1>5, <1>6, <1>7 DEF IInv

\* Starting on the playlists of the tables `names` establishes it.
LEMMA StartKeeps ==
  ASSUME IInv, NEW names \in Seq(Names), NEW q \in Seq(Statement),
         Occurs(settings, names), \A i \in DOMAIN names : HasTable(disk, names[i]),
         NEW cleared, Start(FromDb(names), q, cleared), scanned' \in BOOLEAN,
         playlist_tables' = names, db_catalog' \subseteq Tracks, UNCHANGED stored
  PROVE  /\ IInv'
         /\ current_playlist'.name = settings
<1> DEFINE l == FromDb(names)
           pl == Named(l, settings)
           saved == SavedPosition(disk, pl.name)
           i == IF saved < Len(pl.tracks) THEN saved ELSE 0
<1>1. disk \in Database /\ NoRepeats(disk.catalog) BY DEF IInv, TypeOK, NoTrackTwice
<1>2. /\ l \in Seq(Playlist) /\ Len(l) = Len(names)
      /\ \A k \in DOMAIN names : l[k].name = names[k] /\ NoRepeats(l[k].tracks)
  BY <1>1, FromDbLoads
<1>3. Len(names) > 0 BY DEF Occurs
<1>4. \E k \in DOMAIN l : l[k].name = settings BY <1>2 DEF Occurs
<1>5. (\E k \in DOMAIN l : pl = l[k]) /\ pl.name = settings
  <2> HIDE DEF l
  <2> QED BY <1>2, <1>3, <1>4, NamedFinds
<1>6. pl \in Playlist /\ NoRepeats(pl.tracks)
  <2> HIDE DEF l, pl
  <2>1. PICK k \in DOMAIN l : pl = l[k] BY <1>5
  <2>2. l[k] \in Playlist /\ k \in DOMAIN names BY <1>2
  <2> QED BY <1>2, <2>1, <2>2
<1>7. pl.name \in Names /\ saved \in Nat
  <2> HIDE DEF pl
  <2> QED BY <1>1, <1>6 DEF Playlist, SavedPosition, Database
<1>8. i \in Nat BY <1>7
<1>9. PlayAt(pl, i, q, Risks(TRUE, cleared), FALSE) /\ playlists' = l /\ it' = 1 /\ watch' = TRUE
  BY DEF Start
<1>10. OutputType /\ PausedIsSilent BY DEF IInv, TypeOK, OutputType
<1> HIDE DEF l, pl, saved, i
<1>11. /\ current_playlist' = pl /\ phase' \in {"run", "dead", "stuck"} /\ it_track' \in Nat
       /\ OutputType' /\ PausedIsSilent' /\ pending' \in Seq(Statement)
  BY <1>6, <1>8, <1>9, <1>10, PlayAtKeeps
<1>12. TypeOK' BY <1>2, <1>3, <1>6, <1>9, <1>11 DEF IInv, TypeOK, OutputType, Playlist, stored
<1>13. TablesStay' BY DEF TablesStay, stored, Occurs
<1>14. Loaded'
  <2>1. DOMAIN l = DOMAIN names BY <1>2
  <2>2. \A k \in DOMAIN names : \E j \in DOMAIN l : l[j].name = names[k] BY <1>2, <2>1
  <2>3. \A j \in DOMAIN l : NoRepeats(l[j].tracks) BY <1>2, <2>1
  <2> QED BY <1>9, <2>2, <2>3 DEF Loaded
<1>15. NoTrackTwice' BY <1>1, <1>6, <1>11 DEF NoTrackTwice, stored
<1>16. ScanClears' BY <1>11 DEF ScanClears
<1> QED BY <1>5, <1>11, <1>12, <1>13, <1>14, <1>15, <1>16 DEF IInv

-----------------------------------------------------------------------------
(* Every operation keeps the invariant *)

\* The first start establishes the invariant.
LEMMA InitEstablishes == Init => IInv
<1> SUFFICES ASSUME Init PROVE IInv
  OBVIOUS
<1> USE DEF Init
<1>1. Catalog \in Names /\ <<Catalog>> \in Seq(Names) BY DEF Names
<1>2. EmptyDatabase \in Database BY <1>1 DEF EmptyDatabase, Database
<1>3. [name |-> Catalog, tracks |-> <<>>] \in [name : Names, tracks : Seq(Tracks)] BY <1>1
<1>4. TypeOK
  <2>1. disk \in Database /\ settings \in Names /\ current_playlist \in [name : Names, tracks : Seq(Tracks)]
    BY <1>1, <1>2, <1>3
  <2>2. playlists \in Seq([name : Names, tracks : Seq(Tracks)])
    <3> DEFINE R == [name : Names, tracks : Seq(Tracks)]
               r == [name |-> Catalog, tracks |-> <<>>]
    <3>1. r \in R BY <1>3
    <3> HIDE DEF R, r
    <3>2. <<r>> \in Seq(R) BY <3>1
    <3> QED BY <3>2 DEF r, R
  <2>3. playlist_tables \in Seq(Names) /\ it \in 1..Len(playlist_tables) BY <1>1
  <2>4. pending \in Seq(Statement)
    <3> HIDE DEF Statement
    <3> QED OBVIOUS
  <2> QED BY <2>1, <2>2, <2>3, <2>4 DEF TypeOK
<1>5. TablesStay BY DEF TablesStay, Occurs, HasTable, EmptyDatabase
<1>6. Loaded BY DEF Loaded, NoRepeats
<1>7. NoTrackTwice BY DEF NoTrackTwice, NoRepeats, EmptyDatabase
<1> QED BY <1>4, <1>5, <1>6, <1>7 DEF IInv, ScanClears, PausedIsSilent

\* Play, next, previous, the end of a track and set_current_playlist: a playlist at
\* position i, and nothing is saved in the settings file.
LEMMA ReplayKeeps ==
  ASSUME IInv, NEW pl \in Playlist, NEW i \in Nat, Replay(pl, i),
         Occurs(pl.name, playlist_tables) => NoRepeats(pl.tracks),
         UNCHANGED <<stored, scanned, library, it>>, watch' \in BOOLEAN
  PROVE  IInv'
<1>1. settings \in Names /\ it \in 1..Len(playlist_tables) /\ Occurs(settings, playlist_tables)
  BY DEF IInv, TypeOK, TablesStay
<1>2. PlayAt(pl, i, pending, CurrentRisks, FALSE) BY DEF Replay
<1> QED BY <1>1, <1>2, PlayKeeps DEF stored

\* Every step of the player, the pipeline, the scan and the write queue keeps it.
LEMMA StepKeeps == IInv /\ [Next]_vars => IInv'
<1> SUFFICES ASSUME IInv, [Next]_vars PROVE IInv'
  OBVIOUS
<1> DEFINE n == Len(current_playlist.tracks)
<1>1. /\ current_playlist \in Playlist /\ n \in Nat /\ it_track \in Nat
      /\ watch \in BOOLEAN
      /\ Occurs(current_playlist.name, playlist_tables) => NoRepeats(current_playlist.tracks)
  BY DEF IInv, TypeOK, Playlist, NoTrackTwice
<1>2. Forward(it_track, n) \in Nat /\ Back(it_track, n) \in Nat BY <1>1, StepsType
<1>3. CASE Play
  BY <1>1, <1>3, ReplayKeeps DEF Play
<1>4. CASE NextTrack
  BY <1>1, <1>2, <1>4, ReplayKeeps DEF NextTrack, GoForward
<1>5. CASE PreviousTrack
  BY <1>1, <1>2, <1>5, ReplayKeeps DEF PreviousTrack, GoBack
<1>6. CASE OnEos
  BY <1>1, <1>2, <1>6, ReplayKeeps DEF OnEos, GoForward
<1>7. ASSUME NEW i \in 1..Len(playlist_tables), NEW stopped, SwitchTo(i, stopped)
      PROVE  IInv'
  <2> DEFINE pl == Named(playlists, playlist_tables[i])
             k == IF it_track = n THEN Len(pl.tracks) ELSE it_track
  <2>1. Occurs(playlist_tables[i], playlist_tables)
    BY DEF IInv, TypeOK, Occurs
  <2>2. pl \in Playlist /\ pl.name = playlist_tables[i] /\ NoRepeats(pl.tracks)
    BY <2>1, SwitchFinds
  <2>3. /\ it' = i /\ settings' = pl.name
        /\ PlayAt(pl, k, pending, CurrentRisks, stopped)
        /\ UNCHANGED <<disk, scanned, library, watch>>
    BY <1>7 DEF SwitchTo, Carried
  <2>4. k \in Nat
    <3> HIDE DEF pl
    <3> QED BY <1>1, <2>2 DEF Playlist
  <2>5. settings' \in Names /\ Occurs(settings', playlist_tables)
    <3> HIDE DEF pl
    <3> QED BY <2>1, <2>2, <2>3 DEF Playlist
  <2> HIDE DEF pl, k
  <2> QED BY <1>1, <2>2, <2>3, <2>4, <2>5, PlayKeeps
<1>8. CASE Switch
  <2>1. Above \in 1..Len(playlist_tables) /\ Below \in 1..Len(playlist_tables)
    BY DEF IInv, TypeOK, Above, Below
  <2> QED BY <1>7, <1>8, <2>1 DEF Switch, PlaylistUp, PlaylistDown, JoystickPlaylistDown
<1>9. CASE Pause \/ Stop \/ Post \/ OnError
  <2>1. /\ UNCHANGED <<stored, pending, scanned, library, cursors>>
        /\ phase' = phase \/ phase' = "dead"
        /\ OutputType' /\ PausedIsSilent' /\ watch' \in BOOLEAN
    <3>1. CASE Pause
      BY <3>1 DEF Pause, OutputType, PausedIsSilent, IInv, TypeOK
    <3>2. CASE Stop
      BY <3>2 DEF Stop, Running, Stopped, OutputType, PausedIsSilent, IInv, TypeOK
    <3>3. CASE Post
      BY <3>3 DEF Post, OutputType, PausedIsSilent, IInv, TypeOK
    <3>4. CASE OnError
      BY <3>4 DEF OnError, output, OutputType, PausedIsSilent, IInv, TypeOK
    <3> QED BY <1>9, <3>1, <3>2, <3>3, <3>4
  <2> QED BY <2>1 DEF IInv, TypeOK, OutputType, TablesStay, Loaded, NoTrackTwice,
                      ScanClears, stored, library, cursors, Occurs
<1>10. CASE Json
  <2> DEFINE l == current_playlist.tracks
             p == PeakNext(l, it_track)
             q == PeakPrevious(l, it_track)
  <2>1. /\ phase' \in {"run", "dead", "stuck"}
        /\ UNCHANGED <<stored, scanned, library, cursors, output, watch>>
        /\ \/ Push(<<>>)
           \/ l # <<>> /\ (Push(Looked(p) \o Looked(q)) \/ Push(Looked(p)))
    BY <1>10 DEF Json
  <2>2. pending' \in Seq(Statement)
    <3>1. pending \in Seq(Statement) /\ l \in Seq(Tracks) BY DEF IInv, TypeOK
    <3>2. CASE Push(<<>>)
      <4> HIDE DEF Statement
      <4> QED BY <3>1, <3>2 DEF Push
    <3>3. CASE l # <<>> /\ (Push(Looked(p) \o Looked(q)) \/ Push(Looked(p)))
      <4>1. Len(l) > 0 BY <3>1, <3>3
      <4>2. Looked(p) \in Seq(Statement) /\ Looked(q) \in Seq(Statement)
        BY <1>1, <3>1, <4>1, PeaksAreTracks, PushedAreStatements
      <4>3. \A x, y \in Seq(Statement) : /\ pending \o x \in Seq(Statement)
                                        /\ pending \o (x \o y) \in Seq(Statement)
        <5> HIDE DEF Statement
        <5> QED BY <3>1
      <4> QED BY <3>3, <4>2, <4>3, Zenon DEF Push
    <3> QED BY <2>1, <3>2, <3>3
  <2> QED BY <2>1, <2>2 DEF IInv, TypeOK, TablesStay, Loaded, NoTrackTwice, PausedIsSilent,
                      ScanClears, stored, library, cursors, output, Occurs
<1>11. ASSUME NEW f \in Files, Populate(f) PROVE IInv'
  <2>1. UNCHANGED <<stored, phase, playlist_tables, cursors, output, watch>> /\ scanned' = TRUE
    BY <1>11 DEF Populate
  <2>2. /\ pending' \in Seq(Statement) /\ db_catalog' \subseteq Tracks
        /\ playlists' \in Seq(Playlist) /\ Loaded'
    <3>1. /\ pending \in Seq(Statement) /\ db_catalog \subseteq Tracks
          /\ playlists \in Seq(Playlist) /\ Loaded
      BY DEF IInv, TypeOK, Playlist
    <3>2. CASE f.kind = "audio" /\ FindAudio(f)
      <4>1. f.path \in Tracks BY <3>2, PlayerAssumption DEF AudioFile, M3uFile
      <4>2. <<InsertPath(f.path)>> \in Seq(Statement) BY <4>1, PushedAreStatements
      <4> QED BY <2>1, <3>1, <3>2, <4>1, <4>2 DEF FindAudio, Push, Loaded, Occurs
    <3>3. CASE f.kind = "m3u" /\ FindM3u(f)
      <4> DEFINE known == \E i \in DOMAIN playlists : playlists[i].name = f.name
                 adds == AddToPlaylist(f.name, f.tracks)
      <4>1. f.name \in Playlists /\ f.tracks \in Seq(Tracks)
        BY <3>3, PlayerAssumption DEF AudioFile, M3uFile
      <4>2. adds \in Seq(Statement) /\ InsertPlaylist(f.name) \in Statement
        BY <4>1, PushedAreStatements
      <4>3. pending' = pending \o (adds \o <<InsertPlaylist(f.name)>> \o (IF known THEN adds ELSE <<>>))
        BY <3>3 DEF FindM3u, Push
      <4>4. pending' \in Seq(Statement)
        <5> HIDE DEF adds, known
        <5> QED BY <3>1, <4>2, <4>3
      <4>5. db_catalog' = db_catalog BY <3>3 DEF FindM3u
      <4>6. CASE known
        <5>1. playlists' = playlists BY <3>3, <4>6 DEF FindM3u
        <5> QED BY <2>1, <3>1, <4>4, <4>5, <5>1 DEF Loaded, Occurs
      <4>7. CASE ~known
        <5> DEFINE r == [name |-> f.name, tracks |-> f.tracks]
        <5>1. playlists' = Append(playlists, r) BY <3>3, <4>7 DEF FindM3u
        <5>2. r \in Playlist BY <4>1 DEF Playlist, Names
        <5>3. playlists' \in Seq(Playlist) BY <3>1, <5>1, <5>2
        <5>4. ~Occurs(f.name, playlist_tables) BY <3>1, <4>7 DEF Loaded, Occurs
        <5>5. \A j \in DOMAIN playlists : j \in DOMAIN playlists' /\ playlists'[j] = playlists[j]
          BY <3>1, <5>1
        <5>6. \A j \in DOMAIN playlists' : j \in DOMAIN playlists \/ playlists'[j] = r
          BY <3>1, <5>1
        <5>7. Loaded'
          <6>1. \A i \in DOMAIN playlist_tables :
                  \E j \in DOMAIN playlists' : playlists'[j].name = playlist_tables[i]
            BY <3>1, <5>5 DEF Loaded
          <6>2. ASSUME NEW j \in DOMAIN playlists', Occurs(playlists'[j].name, playlist_tables)
                PROVE  NoRepeats(playlists'[j].tracks)
            BY <3>1, <5>4, <5>5, <5>6, <6>2 DEF Loaded
          <6> QED BY <2>1, <6>1, <6>2 DEF Loaded, Occurs
        <5> QED BY <3>1, <4>4, <4>5, <5>3, <5>7
      <4> QED BY <4>6, <4>7
    <3> QED BY <1>11, <3>2, <3>3 DEF Populate
  <2> QED BY <2>1, <2>2 DEF IInv, TypeOK, TablesStay, NoTrackTwice, PausedIsSilent,
                      ScanClears, stored, cursors, output, Occurs, Playlist
<1>12. CASE Scanned
  <2>1. /\ playlist_tables \in Seq(Names) /\ pending \in Seq(Statement)
        /\ Occurs(settings, playlist_tables) /\ db_catalog \subseteq Tracks
        /\ \A i \in DOMAIN playlist_tables : HasTable(disk, playlist_tables[i])
        /\ scanned \in BOOLEAN
    BY DEF IInv, TypeOK, TablesStay
  <2> QED BY <1>12, <2>1, StartKeeps DEF Scanned
<1>13. CASE Execute
  <2>1. /\ disk \in Database /\ pending \in Seq(Statement) /\ NoRepeats(disk.catalog)
        /\ pending # <<>>
    BY <1>13 DEF IInv, TypeOK, NoTrackTwice, Execute
  <2>2. Head(pending) \in Statement /\ Tail(pending) \in Seq(Statement)
    BY <2>1
  <2>3. /\ disk' \in Executed(disk, Head(pending)) /\ pending' = Tail(pending)
        /\ UNCHANGED <<settings, phase, scanned, library, cursors, output, watch>>
    BY <1>13 DEF Execute
  <2>4. /\ disk' \in Database /\ NoRepeats(disk'.catalog)
        /\ \A m : HasTable(disk, m) => HasTable(disk', m)
    BY <2>1, <2>2, <2>3, ExecutedKeeps
  <2> QED BY <2>2, <2>3, <2>4 DEF IInv, TypeOK, TablesStay, Loaded, NoTrackTwice, PausedIsSilent,
                      ScanClears, library, cursors, output, Occurs
<1>14. CASE Restart
  <2>1. disk \in Database /\ disk.tables \in Seq(Names) /\ disk.catalog \in Seq(Tracks)
    BY DEF IInv, TypeOK, Database
  <2>2. \A i \in DOMAIN disk.tables : HasTable(disk, disk.tables[i]) BY DEF HasTable
  <2>3. Occurs(settings, disk.tables) BY DEF IInv, TablesStay, Occurs, HasTable
  <2>4. playlist_tables' = disk.tables /\ db_catalog' \subseteq Tracks /\ UNCHANGED stored
    BY <1>14, <2>1 DEF Restart
  <2>5. CASE disk.catalog # <<>>
    <3>1. Start(FromDb(disk.tables), <<>>, FALSE) /\ scanned' = FALSE BY <1>14, <2>5 DEF Restart
    <3>2. <<>> \in Seq(Statement) OBVIOUS
    <3> QED BY <2>1, <2>2, <2>3, <2>4, <3>1, <3>2, StartKeeps
  <2>6. CASE disk.catalog = <<>>
    <3>1. /\ phase' = "scan" /\ scanned' = TRUE /\ pending' = <<>>
          /\ playlists' = FromDb(disk.tables)
          /\ it' = 1 /\ it_track' = 0
          /\ current_playlist' = [name |-> Catalog, tracks |-> <<>>]
          /\ current_track' = "empty" /\ playbin' = "null" /\ is_paused' = FALSE
          /\ bus' = "none" /\ watch' = TRUE
      BY <1>14, <2>6 DEF Restart
    <3>2. NoRepeats(disk.catalog) BY DEF IInv, NoTrackTwice
    <3>3. /\ FromDb(disk.tables) \in Seq(Playlist) /\ Len(FromDb(disk.tables)) = Len(disk.tables)
          /\ \A k \in DOMAIN disk.tables : /\ FromDb(disk.tables)[k].name = disk.tables[k]
                                           /\ NoRepeats(FromDb(disk.tables)[k].tracks)
      BY <2>1, <3>2, FromDbLoads
    <3>4. Len(disk.tables) > 0 BY <2>1, <2>3 DEF Occurs
    <3>5. current_playlist' \in [name : Names, tracks : Seq(Tracks)] BY <3>1 DEF Names
    <3>6. TypeOK'
      <4>1. UNCHANGED stored /\ disk \in Database /\ settings \in Names BY <2>4 DEF IInv, TypeOK
      <4>2. playlist_tables' \in Seq(Names) /\ 1 \in 1..Len(playlist_tables') BY <2>1, <2>4, <3>4
      <4>3. <<>> \in Seq(Statement)
        <5> HIDE DEF Statement
        <5> QED OBVIOUS
      <4> QED BY <2>4, <3>1, <3>3, <3>5, <4>1, <4>2, <4>3 DEF TypeOK, stored, Playlist
    <3>7. TablesStay' BY <2>2, <2>3, <2>4 DEF TablesStay, stored, Occurs
    <3>8. Loaded'
      <4>1. DOMAIN FromDb(disk.tables) = DOMAIN disk.tables BY <2>1, <3>3
      <4>2. \A k \in DOMAIN disk.tables :
              \E j \in DOMAIN FromDb(disk.tables) : FromDb(disk.tables)[j].name = disk.tables[k]
        BY <3>3, <4>1
      <4>3. \A j \in DOMAIN FromDb(disk.tables) : NoRepeats(FromDb(disk.tables)[j].tracks)
        BY <3>3, <4>1
      <4> QED BY <2>4, <3>1, <4>2, <4>3 DEF Loaded
    <3>9. NoTrackTwice' BY <2>4, <3>1, <3>2 DEF NoTrackTwice, stored, NoRepeats
    <3> QED BY <3>1, <3>6, <3>7, <3>8, <3>9 DEF IInv, ScanClears, PausedIsSilent
  <2> QED BY <2>5, <2>6
<1>16. CASE Rescan
  BY <1>16 DEF Rescan, stored, library, cursors, output, IInv, TypeOK, TablesStay, Loaded,
               NoTrackTwice, ScanClears, PausedIsSilent, Occurs
<1>17. ASSUME NEW m \in Names, SetCurrentPlaylist(m) PROVE IInv'
  <2> DEFINE those == {j \in DOMAIN playlists : playlists[j].name = m}
             Latest(j) == \A h \in those : h <= j
             pl == IF those = {} THEN current_playlist ELSE playlists[CHOOSE j \in those : Latest(j)]
             k == IF those = {} THEN it_track ELSE Carried(pl.tracks)
  <2>1. Replay(pl, k) /\ UNCHANGED <<stored, scanned, library, it, watch>>
    BY <1>17 DEF SetCurrentPlaylist
  <2>2. pl \in Playlist /\ (Occurs(pl.name, playlist_tables) => NoRepeats(pl.tracks))
    <3>1. CASE those = {} BY <1>1, <3>1
    <3>2. CASE those # {}
      <4>1. playlists \in Seq(Playlist) BY DEF IInv, TypeOK, Playlist
      <4>2. PICK j \in those : Latest(j) BY <3>2, <4>1, LatestIndex
      <4>3. (CHOOSE h \in those : Latest(h)) \in those BY <4>2
      <4>4. PICK g \in DOMAIN playlists : pl = playlists[g] BY <3>2, <4>3
      <4> HIDE DEF pl
      <4>5. pl \in Playlist BY <4>1, <4>4
      <4> QED BY <4>4, <4>5 DEF IInv, Loaded
    <3> QED BY <3>1, <3>2
  <2>3. k \in Nat
    <3> HIDE DEF pl, those
    <3> QED BY <1>1, <2>2 DEF Carried, Playlist
  <2> HIDE DEF pl, k
  <2> QED BY <1>1, <2>1, <2>2, <2>3, ReplayKeeps
<1>15. CASE UNCHANGED vars
  BY <1>15 DEF vars, stored, library, cursors, output, IInv, TypeOK, TablesStay, Loaded,
               NoTrackTwice, ScanClears, PausedIsSilent, Occurs
<1> QED BY <1>3, <1>4, <1>5, <1>6, <1>8, <1>9, <1>10, <1>11, <1>12, <1>13, <1>14, <1>15, <1>16, <1>17
        DEF Next, Command

\* In every reachable state the invariant holds.
THEOREM InductiveInvariant == Spec => []IInv
  BY InitEstablishes, StepKeeps, PTL DEF Spec

-----------------------------------------------------------------------------
(* What follows from it *)

\* Every variable of the player keeps its type (TypeOK).
THEOREM TypeCorrect == Spec => []TypeOK
  BY InductiveInvariant, PTL DEF IInv

\* The settings file names the playlist that is current after every switch and every
\* start, for any library: named always finds the one the file names, since no table is
\* ever dropped.  Only set_current_playlist makes another one current unsaved.
THEOREM SettingsAreCurrent == Spec => SettingsNameCurrent
<1> DEFINE Chosen == \E n \in Names \ {settings} : SetCurrentPlaylist(n)
           A == phase' = "run" /\ settings' # current_playlist'.name =>
                  Chosen \/ (settings # current_playlist.name /\ ~(Switch \/ Scanned \/ Restart))
<1>1. ASSUME IInv, [Next]_vars PROVE [A]_vars
  <2> SUFFICES ASSUME phase' = "run", settings' # current_playlist'.name, vars' # vars
               PROVE  Chosen \/ (settings # current_playlist.name /\ ~(Switch \/ Scanned \/ Restart))
    OBVIOUS
  <2>1. ASSUME NEW pl, NEW i, Replay(pl, i) PROVE current_playlist' = pl
    BY <2>1 DEF Replay, PlayAt
  <2>2. ~Switch
    <3>1. ASSUME NEW i, NEW stopped, SwitchTo(i, stopped) PROVE FALSE
      BY <3>1 DEF SwitchTo, PlayAt
    <3> QED BY <3>1 DEF Switch, PlaylistUp, PlaylistDown, JoystickPlaylistDown
  <2>3. ~Scanned
    <3>1. SUFFICES ASSUME Scanned PROVE FALSE
      OBVIOUS
    <3>2. /\ playlist_tables \in Seq(Names) /\ pending \in Seq(Statement)
          /\ Occurs(settings, playlist_tables) /\ db_catalog \subseteq Tracks
          /\ \A i \in DOMAIN playlist_tables : HasTable(disk, playlist_tables[i])
          /\ scanned \in BOOLEAN
      BY <1>1 DEF IInv, TypeOK, TablesStay
    <3>3. current_playlist'.name = settings /\ settings' = settings
      BY <1>1, <3>1, <3>2, StartKeeps DEF Scanned, stored
    <3> QED BY <3>3
  <2>4. ~Restart
    <3>1. SUFFICES ASSUME Restart PROVE FALSE
      OBVIOUS
    <3>2. /\ disk.tables \in Seq(Names) /\ disk.catalog \in Seq(Tracks)
          /\ \A i \in DOMAIN disk.tables : HasTable(disk, disk.tables[i])
          /\ Occurs(settings, disk.tables)
      BY <1>1 DEF IInv, TypeOK, Database, TablesStay, Occurs, HasTable
    <3>3. /\ Start(FromDb(disk.tables), <<>>, FALSE) /\ scanned' = FALSE
          /\ playlist_tables' = disk.tables /\ db_catalog' \subseteq Tracks /\ UNCHANGED stored
      <4>1. {disk.catalog[i] : i \in DOMAIN disk.catalog} \subseteq Tracks BY <3>2
      <4>2. disk.catalog # <<>> BY <3>1 DEF Restart
      <4> QED BY <3>1, <4>1, <4>2, Zenon DEF Restart
    <3>4. <<>> \in Seq(Statement)
      <4> HIDE DEF Statement
      <4> QED OBVIOUS
    <3>5. current_playlist'.name = settings /\ settings' = settings
      BY <1>1, <3>2, <3>3, <3>4, StartKeeps DEF stored
    <3> QED BY <3>5
  <2>5. CASE \E n \in Names : SetCurrentPlaylist(n)
    <3>1. PICK n \in Names : SetCurrentPlaylist(n) BY <2>5
    <3>2. SUFFICES ASSUME n = settings, settings = current_playlist.name PROVE FALSE
      BY <2>2, <2>3, <2>4, <3>1
    <3> DEFINE those == {j \in DOMAIN playlists : playlists[j].name = n}
               Latest(j) == \A h \in those : h <= j
               c == CHOOSE j \in those : Latest(j)
    <3>3. settings' = settings BY <3>1 DEF SetCurrentPlaylist, stored
    <3>4. CASE those = {}
      <4>1. current_playlist' = current_playlist BY <2>1, <3>1, <3>4 DEF SetCurrentPlaylist
      <4> QED BY <3>2, <3>3, <4>1
    <3>5. CASE those # {}
      <4>1. playlists \in Seq(Playlist) BY <1>1 DEF IInv, TypeOK, Playlist
      <4>2. PICK j \in those : Latest(j) BY <3>5, <4>1, LatestIndex
      <4>3. c \in those BY <4>2
      <4>4. current_playlist' = playlists[c] BY <2>1, <3>1, <3>5 DEF SetCurrentPlaylist
      <4> QED BY <3>2, <3>3, <4>3, <4>4
    <3> QED BY <3>4, <3>5
  <2>6. CASE Play \/ NextTrack \/ PreviousTrack \/ OnEos
    <3>1. settings' = settings
      BY <2>6 DEF Play, NextTrack, PreviousTrack, OnEos, stored
    <3>2. current_playlist' = current_playlist
      BY <2>1, <2>6 DEF Play, NextTrack, PreviousTrack, OnEos, GoForward, GoBack
    <3> QED BY <2>2, <2>3, <2>4, <3>1, <3>2
  <2>7. CASE \/ Pause \/ Stop \/ Json \/ Post \/ OnError \/ (\E f \in Files : Populate(f))
             \/ Rescan \/ Execute
    <3>1. UNCHANGED <<settings, current_playlist>>
      BY <2>7 DEF Pause, Stop, Json, Post, OnError, Populate, Rescan, Execute, stored, cursors
    <3> QED BY <2>2, <2>3, <2>4, <3>1
  <2> QED BY <1>1, <2>2, <2>3, <2>4, <2>5, <2>6, <2>7 DEF Next, Command
<1> QED BY <1>1, InductiveInvariant, PTL DEF Spec, SettingsNameCurrent

\* is_paused, shown to every client, agrees with the pipeline after any sequence
\* of play, pause, stop and messages of the pipeline.
THEOREM PauseIsHonest == Spec => []PausedIsSilent
  BY InductiveInvariant, PTL DEF IInv

\* A step that moves the cursor by the list's own order.
Moves(i) ==
  /\ current_playlist' = current_playlist /\ it_track' = i
  /\ current_track' = current_playlist.tracks[i + 1]

\* player::next and previous that succeed play the neighbour they step to.
LEMMA StepsPlay ==
  ASSUME IInv, Inside, phase' = "run"
  PROVE  /\ NextTrack \/ OnEos => Moves(Forward(it_track, Len(current_playlist.tracks)))
         /\ PreviousTrack => Moves(Back(it_track, Len(current_playlist.tracks)))
<1> DEFINE n == Len(current_playlist.tracks)
<1>1. n \in Nat /\ it_track \in Nat /\ it_track < n BY DEF IInv, TypeOK, Inside
<1>2. ASSUME NEW i \in 0..(n - 1), Replay(current_playlist, i) PROVE Moves(i)
  BY <1>1, <1>2 DEF Replay, PlayAt, Moves
<1>3. Forward(it_track, n) \in 0..(n - 1) /\ Back(it_track, n) \in 0..(n - 1)
  BY <1>1, StepsInverse
<1> QED BY <1>2, <1>3 DEF NextTrack, OnEos, PreviousTrack, GoForward, GoBack

\* What json announces from a list of the database, where no path occurs twice.
LEMMA PeaksAreNeighbours ==
  ASSUME IInv, FromDatabase, NEW i \in Nat, i < Len(current_playlist.tracks)
  PROVE  LET l == current_playlist.tracks IN
         /\ PeakNext(l, i) = l[Forward(i, Len(l)) + 1]
         /\ PeakPrevious(l, i) = l[Back(i, Len(l)) + 1]
<1>1. current_playlist.tracks \in Seq(Tracks) /\ NoRepeats(current_playlist.tracks)
  BY DEF IInv, TypeOK, NoTrackTwice, FromDatabase, Occurs
<1>2. IndexOf(current_playlist.tracks, current_playlist.tracks[i + 1]) = i
  BY <1>1, IndexOfFinds
<1> QED BY <1>2 DEF PeakNext, PeakPrevious

\* The neighbours json announces by value are the ones next and previous reach by
\* cursor, for every list the database can come to hold (player.cpp:485-501).
THEOREM AnnouncementsHold == Spec => AnnouncedIsPlayed
<1> DEFINE A == Inside /\ FromDatabase /\ phase' = "run" =>
       /\ NextTrack \/ OnEos => current_track' = PeakNext(current_playlist.tracks, it_track)
       /\ PreviousTrack => current_track' = PeakPrevious(current_playlist.tracks, it_track)
<1>1. ASSUME IInv PROVE [A]_vars
  <2> SUFFICES ASSUME Inside, FromDatabase, phase' = "run" PROVE A
    OBVIOUS
  <2>1. it_track \in Nat /\ it_track < Len(current_playlist.tracks) BY <1>1 DEF IInv, TypeOK, Inside
  <2> QED BY <1>1, <2>1, StepsPlay, PeaksAreNeighbours DEF Moves
<1> QED BY <1>1, InductiveInvariant, PTL DEF AnnouncedIsPlayed

\* Right after next, previous is announced to lead back, and the other way round,
\* whatever the length of the list and wherever the cursor is in it.
THEOREM NeighboursHold == Spec => NeighboursAgree
<1> DEFINE A == Inside /\ FromDatabase /\ phase' = "run" =>
       /\ NextTrack \/ OnEos => PeakPrevious(current_playlist'.tracks, it_track') = CursorTrack
       /\ PreviousTrack => PeakNext(current_playlist'.tracks, it_track') = CursorTrack
<1>1. ASSUME IInv PROVE [A]_vars
  <2> DEFINE l == current_playlist.tracks
             f == Forward(it_track, Len(l))
             b == Back(it_track, Len(l))
  <2> SUFFICES ASSUME Inside, FromDatabase, phase' = "run" PROVE A
    OBVIOUS
  <2>1. Len(l) \in Nat /\ it_track \in Nat /\ it_track < Len(l) BY <1>1 DEF IInv, TypeOK, Inside
  <2>2. /\ f \in 0..(Len(l) - 1) /\ b \in 0..(Len(l) - 1)
        /\ Back(f, Len(l)) = it_track /\ Forward(b, Len(l)) = it_track
    <3> HIDE DEF l
    <3> QED BY <2>1, StepsInverse
  <2>3. PeakPrevious(l, f) = l[it_track + 1] /\ PeakNext(l, b) = l[it_track + 1]
    <3>1. f \in Nat /\ f < Len(l) /\ b \in Nat /\ b < Len(l)
      <4> HIDE DEF l, f, b
      <4> QED BY <2>1, <2>2
    <3> QED BY <1>1, <2>2, <3>1, PeaksAreNeighbours
  <2>4. /\ NextTrack \/ OnEos => current_playlist' = current_playlist /\ it_track' = f
        /\ PreviousTrack => current_playlist' = current_playlist /\ it_track' = b
    BY <1>1, StepsPlay DEF Moves
  <2> QED BY <2>3, <2>4 DEF CursorTrack
<1> QED BY <1>1, InductiveInvariant, PTL DEF NeighboursAgree

\* Whatever the library and whatever the order of operations, messages, rescans and
\* restarts, undefined behaviour is met for the four reasons DiesOnlyOf names, and an
\* operation fails to return only when a scan has run in the same process.
THEOREM NothingElseKills == Spec => DiesOnlyOf
<1> DEFINE Reasons == \/ Scanned \/ Restart
                      \/ current_track = "destroyed"
                      \/ it_track >= Len(current_playlist.tracks)
                      \/ it_track >= Len(current_playlist'.tracks)
           Waits == scanned /\ disk.catalog # <<>>
           A == /\ phase # "dead" /\ phase' = "dead" => Reasons
                /\ phase # "stuck" /\ phase' = "stuck" => Waits
           n == Len(current_playlist.tracks)
<1>1. ASSUME IInv, [Next]_vars PROVE [A]_vars
  <2> SUFFICES ASSUME \/ phase # "dead" /\ phase' = "dead" /\ ~Reasons
                      \/ phase # "stuck" /\ phase' = "stuck" /\ ~Waits
               PROVE  FALSE
    OBVIOUS
  <2>1. n \in Nat /\ it_track \in Nat BY <1>1 DEF IInv, TypeOK
  <2>2. ASSUME NEW pl, NEW i, NEW q, NEW gone, NEW cleared, NEW stopped,
               PlayAt(pl, i, q, Risks(gone, cleared), stopped)
        PROVE  /\ phase' = "dead" => gone \/ (i >= Len(pl.tracks) /\ current_playlist' = pl)
               /\ phase' = "stuck" => cleared /\ disk.catalog # <<>>
    <3>1. "dead" \in Risks(gone, cleared) => gone BY DEF Risks
    <3>2. "stuck" \in Risks(gone, cleared) => cleared BY DEF Risks
    <3>3. \A t : Known(t) => disk.catalog # <<>> BY DEF Known
    <3> QED BY <2>2, <3>1, <3>2, <3>3 DEF PlayAt
  <2>3. ASSUME NEW pl, NEW i, NEW stopped, PlayAt(pl, i, pending, CurrentRisks, stopped)
        PROVE  /\ ~(phase' = "stuck" /\ ~Waits)
               /\ phase' = "dead" => current_track = "destroyed" \/ (i >= Len(pl.tracks) /\ current_playlist' = pl)
    BY <2>2, <2>3 DEF CurrentRisks
  <2>4. CASE Play
    BY <2>3, <2>4 DEF Play, Replay
  <2>5. CASE NextTrack \/ OnEos
    <3>1. Replay(current_playlist, Forward(it_track, n)) BY <2>5 DEF NextTrack, OnEos, GoForward
    <3>2. phase' = "dead" => current_track = "destroyed" \/ Forward(it_track, n) >= n
      BY <2>3, <3>1 DEF Replay
    <3>3. ~(phase' = "stuck" /\ ~Waits) BY <2>3, <3>1 DEF Replay
    <3> QED BY <2>1, <3>2, <3>3 DEF Forward
  <2>6. CASE PreviousTrack
    <3>1. Replay(current_playlist, Back(it_track, n)) BY <2>6 DEF PreviousTrack, GoBack
    <3>2. phase' = "dead" => current_track = "destroyed" \/ Back(it_track, n) >= n
      BY <2>3, <3>1 DEF Replay
    <3>3. ~(phase' = "stuck" /\ ~Waits) BY <2>3, <3>1 DEF Replay
    <3> QED BY <2>1, <3>2, <3>3 DEF Back
  <2>7. ASSUME NEW pl, NEW stopped, PlayAt(pl, Carried(pl.tracks), pending, CurrentRisks, stopped)
        PROVE  FALSE
    <3>1. /\ ~(phase' = "stuck" /\ ~Waits)
          /\ phase' = "dead" => \/ current_track = "destroyed"
                               \/ (Carried(pl.tracks) >= Len(pl.tracks) /\ current_playlist' = pl)
      BY <2>3, <2>7
    <3>2. Carried(pl.tracks) = it_track \/ it_track = n BY DEF Carried
    <3> QED BY <2>1, <3>1, <3>2
  <2>8. CASE Switch
    <3>1. ASSUME NEW i, NEW stopped, SwitchTo(i, stopped) PROVE FALSE
      <4> DEFINE pl == Named(playlists, playlist_tables[i])
      <4>1. PlayAt(pl, Carried(pl.tracks), pending, CurrentRisks, stopped)
        BY <3>1 DEF SwitchTo
      <4> HIDE DEF pl
      <4> QED BY <2>7, <4>1
    <3> QED BY <2>8, <3>1 DEF Switch, PlaylistUp, PlaylistDown, JoystickPlaylistDown
  <2>9. CASE \E m \in Names : SetCurrentPlaylist(m)
    <3>1. PICK m \in Names : SetCurrentPlaylist(m) BY <2>9
    <3> DEFINE those == {j \in DOMAIN playlists : playlists[j].name = m}
               pl == IF those = {} THEN current_playlist
                     ELSE playlists[CHOOSE j \in those : \A h \in those : h <= j]
    <3>2. Replay(pl, IF those = {} THEN it_track ELSE Carried(pl.tracks))
      BY <3>1 DEF SetCurrentPlaylist
    <3>3. CASE those = {}
      <4>1. PlayAt(current_playlist, it_track, pending, CurrentRisks, FALSE)
        BY <3>2, <3>3 DEF Replay
      <4> QED BY <2>3, <4>1
    <3>4. CASE those # {}
      <4>1. PlayAt(pl, Carried(pl.tracks), pending, CurrentRisks, FALSE)
        BY <3>2, <3>4 DEF Replay
      <4> HIDE DEF pl
      <4> QED BY <2>7, <4>1
    <3> QED BY <3>3, <3>4
  <2>10. CASE Json
    <3>1. \A t : Known(t) => disk.catalog # <<>> BY DEF Known
    <3> QED BY <2>10, <3>1 DEF Json
  <2>11. CASE Restart
    <3>1. phase' # "stuck"
      <4>1. ASSUME NEW l, Start(l, <<>>, FALSE) PROVE phase' # "stuck"
        <5> DEFINE pl == Named(l, settings)
                   saved == SavedPosition(disk, pl.name)
                   i == IF saved < Len(pl.tracks) THEN saved ELSE 0
        <5>1. PlayAt(pl, i, <<>>, Risks(TRUE, FALSE), FALSE) BY <4>1 DEF Start
        <5> HIDE DEF pl, i
        <5> QED BY <2>2, <5>1
      <4> QED BY <2>11, <4>1 DEF Restart
    <3> QED BY <2>11, <3>1
  <2>12. CASE Scanned
    <3>1. scanned BY <1>1, <2>12 DEF IInv, ScanClears, Scanned
    <3>2. phase' = "stuck" => disk.catalog # <<>>
      <4> DEFINE pl == Named(FromDb(playlist_tables), settings)
                 saved == SavedPosition(disk, pl.name)
                 i == IF saved < Len(pl.tracks) THEN saved ELSE 0
      <4>1. PlayAt(pl, i, pending, Risks(TRUE, TRUE), FALSE) BY <2>12 DEF Scanned, Start
      <4> HIDE DEF pl, i
      <4> QED BY <2>2, <4>1
    <3> QED BY <2>12, <3>1, <3>2
  <2>13. CASE Stop
    BY <2>13 DEF Stop
  <2>14. CASE \/ Pause \/ Post \/ OnError \/ (\E f \in Files : Populate(f)) \/ Rescan \/ Execute
              \/ UNCHANGED vars
    <3>1. phase' = phase
      BY <2>14 DEF Pause, Post, OnError, Populate, Rescan, Execute, vars
    <3> QED BY <3>1
  <2> QED BY <1>1, <2>4, <2>5, <2>6, <2>8, <2>9, <2>10, <2>11, <2>12, <2>13, <2>14 DEF Next, Command
<1> QED BY <1>1, InductiveInvariant, PTL DEF Spec, DiesOnlyOf

\* Restarted with an empty write queue, the player plays the track it was on, in
\* the list it was in, whatever else is in the library.
THEOREM RestartResumes == Spec => ResumesWhereItStopped
<1> DEFINE A == /\ phase = "run" /\ phase' = "run" /\ pending = <<>>
                /\ settings = current_playlist.name
                /\ current_playlist.name \in disk.listed
                /\ current_playlist.tracks = SelectPlaylist(disk, current_playlist.name)
                /\ disk.catalog # <<>> /\ Inside /\ PositionSaved /\ Restart
                => current_playlist' = current_playlist /\ current_track' = CursorTrack
<1>1. ASSUME IInv PROVE [A]_vars
  <2> SUFFICES ASSUME Restart, phase' = "run", pending = <<>>, Inside, PositionSaved,
                      settings = current_playlist.name,
                      current_playlist.name \in disk.listed,
                      current_playlist.tracks = SelectPlaylist(disk, current_playlist.name),
                      disk.catalog # <<>>
               PROVE  current_playlist' = current_playlist /\ current_track' = CursorTrack
    OBVIOUS
  <2> DEFINE l == FromDb(disk.tables)
             pl == Named(l, settings)
             saved == SavedPosition(disk, pl.name)
             i == IF saved < Len(pl.tracks) THEN saved ELSE 0
  <2>1. disk \in Database /\ NoRepeats(disk.catalog) /\ disk.tables \in Seq(Names)
    BY <1>1 DEF IInv, TypeOK, NoTrackTwice, Database
  <2>2. settings = current_playlist.name /\ \E k \in DOMAIN disk.tables : disk.tables[k] = settings
    BY <1>1 DEF IInv, TablesStay, Occurs, HasTable
  <2>3. /\ l \in Seq(Playlist) /\ DOMAIN l = DOMAIN disk.tables /\ Len(l) > 0
        /\ \A k \in DOMAIN l : l[k].name = disk.tables[k] /\ l[k].tracks = SelectPlaylist(disk, disk.tables[k])
    BY <2>1, <2>2, FromDbLoads
  <2>4. pl.name = settings /\ \E k \in DOMAIN l : pl = l[k]
    <3> HIDE DEF l
    <3> QED BY <2>2, <2>3, NamedFinds
  <2>5. pl = current_playlist
    <3> HIDE DEF l, pl
    <3>1. PICK k \in DOMAIN l : pl = l[k] BY <2>4
    <3>2. pl \in Playlist /\ pl.tracks = current_playlist.tracks /\ pl.name = current_playlist.name
      BY <2>2, <2>3, <2>4, <3>1
    <3>3. current_playlist \in Playlist BY <1>1 DEF IInv, TypeOK, Playlist
    <3> QED BY <3>2, <3>3 DEF Playlist
  <2>6. saved = it_track
    <3>1. About(current_playlist.name) = {} BY DEF About
    <3>2. disk.current[current_playlist.name] = it_track
      BY <3>1 DEF PositionSaved, WillHaveRow, FinalPosition
    <3> QED BY <2>5, <3>2 DEF SavedPosition
  <2>7. PlayAt(pl, i, <<>>, Risks(TRUE, FALSE), FALSE) BY DEF Restart, Start
  <2> HIDE DEF l, pl, saved
  <2>8. i = it_track /\ i < Len(pl.tracks) BY <2>5, <2>6 DEF Inside
  <2>9. i \in Nat /\ Len(pl.tracks) \in Nat BY <1>1, <2>5, <2>8 DEF IInv, TypeOK
  <2> HIDE DEF i
  <2> QED BY <2>5, <2>7, <2>8, <2>9 DEF PlayAt, CursorTrack
<1> QED BY <1>1, InductiveInvariant, PTL DEF ResumesWhereItStopped

-----------------------------------------------------------------------------
(* The position on its way to the database *)

\* FinalPosition and WillHaveRow of module Player for any database d and queue q.
Concerns(s, n) == s.op \in {"playlist", "current"} /\ s.name = n
Last(q, n, k) ==
  /\ k \in DOMAIN q /\ Concerns(q[k], n)
  /\ \A j \in DOMAIN q : Concerns(q[j], n) => j <= k
Leaves(s) == IF s.op = "playlist" THEN 0 ELSE s.current
Final(d, q, n) ==
  IF \E k \in DOMAIN q : Last(q, n, k) THEN Leaves(q[CHOOSE k \in DOMAIN q : Last(q, n, k)]) ELSE d.current[n]
Row(d, q, n) == n \in d.listed \/ \E k \in DOMAIN q : q[k] = InsertPlaylist(n)
Saved(d, q, n, i) == Row(d, q, n) => Final(d, q, n) = i

\* The last statement about a playlist decides.
LEMMA LastDecides ==
  ASSUME NEW q \in Seq(Statement), NEW n, NEW d, NEW k, Last(q, n, k)
  PROVE  Final(d, q, n) = Leaves(q[k])
<1>1. k \in DOMAIN q /\ \A j \in DOMAIN q : Last(q, n, j) => j = k
  BY DEF Last
<1>2. (CHOOSE j \in DOMAIN q : Last(q, n, j)) = k BY <1>1
<1> QED BY <1>1, <1>2 DEF Final

\* If there is a statement about a playlist, there is a last one.
LEMMA LastExists ==
  ASSUME NEW q \in Seq(Statement), NEW n, NEW i \in DOMAIN q, Concerns(q[i], n)
  PROVE  \E k \in DOMAIN q : Last(q, n, k)
<1> DEFINE S == {Len(q) - j : j \in {h \in DOMAIN q : Concerns(q[h], n)}}
<1>1. S \in SUBSET Nat OBVIOUS
<1>2. S # {} OBVIOUS
<1>3. PICK m \in S : \A h \in S : m <= h
  <2> HIDE DEF S
  <2> QED BY <1>1, <1>2, LeastIndex
<1>4. PICK k \in DOMAIN q : m = Len(q) - k /\ Concerns(q[k], n) BY <1>3
<1>5. ASSUME NEW j \in DOMAIN q, Concerns(q[j], n) PROVE j <= k
  <2>1. Len(q) - j \in S BY <1>5
  <2>2. Len(q) - k <= Len(q) - j BY <1>3, <1>4, <2>1
  <2> QED BY <2>2
<1> QED BY <1>4, <1>5 DEF Last

\* FinalPosition in these terms.
Greatest(d, q, n, A) ==
  IF A = {} THEN d.current[n]
  ELSE LET i == CHOOSE i \in A : \A j \in A : j <= i
       IN IF q[i].op = "playlist" THEN 0 ELSE q[i].current

\* It is the statement at the greatest index, as FinalPosition has it.
LEMMA FinalIsGreatest ==
  ASSUME NEW d, NEW q \in Seq(Statement), NEW n,
         NEW A, A = {i \in DOMAIN q : q[i].op \in {"playlist", "current"} /\ q[i].name = n}
  PROVE  Final(d, q, n) = Greatest(d, q, n, A)
<1>1. \A i \in DOMAIN q : i \in A <=> Concerns(q[i], n) BY DEF Concerns
<1>2. A \in SUBSET DOMAIN q OBVIOUS
<1>3. CASE A = {}
  <2>1. ~ \E k \in DOMAIN q : Last(q, n, k) BY <1>1, <1>3 DEF Last
  <2> QED BY <1>3, <2>1 DEF Final, Greatest
<1>4. CASE A # {}
  <2>1. PICK a \in DOMAIN q : a \in A /\ Concerns(q[a], n) BY <1>1, <1>2, <1>4
  <2>2. PICK k \in DOMAIN q : Last(q, n, k) BY <2>1, LastExists
  <2>3. k \in A /\ \A j \in A : j <= k BY <1>1, <1>2, <2>2 DEF Last
  <2>4. \A h \in A : (\A j \in A : j <= h) => h = k
    <3>1. A \in SUBSET Nat BY <1>2
    <3> QED BY <2>3, <3>1
  <2>5. (CHOOSE i \in A : \A j \in A : j <= i) = k BY <2>3, <2>4
  <2>6. Final(d, q, n) = Leaves(q[k]) BY <2>2, LastDecides
  <2> QED BY <1>4, <2>5, <2>6 DEF Leaves, Greatest
<1> QED BY <1>3, <1>4

\* player::play pushes the position last.
LEMMA PlaySaves ==
  ASSUME NEW d, NEW q \in Seq(Statement), NEW n \in Names, NEW i \in Nat
  PROVE  Saved(d, q \o <<SetCurrent(n, i)>>, n, i)
<1> DEFINE r == q \o <<SetCurrent(n, i)>>
           k == Len(q) + 1
<1>1. SetCurrent(n, i) \in Statement BY PushedAreStatements
<1>2. r \in Seq(Statement) /\ Len(r) = k /\ r[k] = SetCurrent(n, i)
  <2> HIDE DEF Statement
  <2> QED BY <1>1
<1>3. Last(r, n, k) BY <1>2 DEF Last, Concerns, SetCurrent
<1> HIDE DEF r, k
<1>4. Final(d, r, n) = Leaves(r[k]) BY <1>2, <1>3, LastDecides
<1>5. Leaves(r[k]) = i BY <1>2 DEF Leaves, SetCurrent
<1> QED BY <1>4, <1>5 DEF Saved, r

\* A statement about a path changes no position.
LEMMA PathsKeepSaved ==
  ASSUME NEW d, NEW q \in Seq(Statement), NEW r \in Seq(Statement), NEW n, NEW i,
         \A k \in DOMAIN r : r[k].op = "path", Saved(d, q, n, i)
  PROVE  Saved(d, q \o r, n, i)
<1> DEFINE c == q \o r
<1>1. c \in Seq(Statement) /\ Len(c) = Len(q) + Len(r)
  <2> HIDE DEF Statement
  <2> QED OBVIOUS
<1>2. \A k \in DOMAIN q : k \in DOMAIN c /\ c[k] = q[k]
  <2> HIDE DEF Statement
  <2> QED OBVIOUS
<1>3. \A k \in DOMAIN c : k \in DOMAIN q \/ c[k].op = "path"
  <2> HIDE DEF Statement
  <2>1. \A k \in DOMAIN c : k \notin DOMAIN q => k - Len(q) \in DOMAIN r /\ c[k] = r[k - Len(q)]
    OBVIOUS
  <2> QED BY <2>1
<1> HIDE DEF c
<1>4. \A k : Last(c, n, k) <=> Last(q, n, k) BY <1>2, <1>3 DEF Last, Concerns
<1>5. Row(d, c, n) => Row(d, q, n) BY <1>2, <1>3 DEF Row, InsertPlaylist
<1>6. Final(d, c, n) = Final(d, q, n)
  <2>1. CASE \E k \in DOMAIN q : Last(q, n, k)
    <3>1. PICK k \in DOMAIN q : Last(q, n, k) BY <2>1
    <3>2. Last(c, n, k) /\ c[k] = q[k] BY <1>2, <1>4, <3>1
    <3> QED BY <1>1, <3>1, <3>2, LastDecides
  <2>2. CASE ~ \E k \in DOMAIN q : Last(q, n, k)
    <3>1. ~ \E k \in DOMAIN c : Last(c, n, k) BY <1>4, <2>2 DEF Last
    <3> QED BY <2>2, <3>1 DEF Final
  <2> QED BY <2>1, <2>2
<1> QED BY <1>5, <1>6 DEF Saved, c

\* A statement SQLite carries out moves what it says into the database.
LEMMA ExecuteKeepsSaved ==
  ASSUME NEW d \in Database, NEW q \in Seq(Statement), q # <<>>, NEW n \in Names, NEW i,
         NEW e \in Outcomes(d, Head(q)), e # d, Saved(d, q, n, i)
  PROVE  Saved(e, Tail(q), n, i)
<1> DEFINE s == Head(q)
           t == Tail(q)
<1>1. s \in Statement /\ t \in Seq(Statement) /\ Len(q) = Len(t) + 1 /\ q[1] = s
  <2> HIDE DEF Statement
  <2> QED OBVIOUS
<1>2. \A k \in DOMAIN t : k + 1 \in DOMAIN q /\ t[k] = q[k + 1]
  <2> HIDE DEF Statement
  <2> QED OBVIOUS
<1>3. \A k \in DOMAIN q : k = 1 \/ (k - 1 \in DOMAIN t /\ q[k] = t[k - 1])
  <2> HIDE DEF Statement
  <2> QED OBVIOUS
<1>4. /\ Concerns(s, n) => e.current[n] = Leaves(s) /\ n \in d.listed \cup {m \in {n} : s = InsertPlaylist(n)}
      /\ ~Concerns(s, n) => e.current[n] = d.current[n]
      /\ n \in e.listed => n \in d.listed \/ s = InsertPlaylist(n)
  <2> USE DEF Database, Names
  <2>1. CASE s.op = "create" \/ s.op = "replace"
    <3>1. e.current = d.current /\ e.listed = d.listed /\ ~Concerns(s, n)
      BY <2>1 DEF Outcomes, Concerns, HasTable
    <3> QED BY <3>1
  <2>2. CASE s.op = "path"
    <3>1. e = [d EXCEPT !.catalog = WithRow(@, s.track)] BY <2>2 DEF Outcomes
    <3>2. e.current = d.current /\ e.listed = d.listed /\ ~Concerns(s, n)
      BY <2>2, <3>1 DEF Concerns
    <3> QED BY <3>2
  <2>3. CASE s.op = "playlist"
    <3>1. s.name \in Playlists /\ s = InsertPlaylist(s.name)
      BY <1>1, <2>3 DEF Statement, InsertPlaylist
    <3>2. e = [d EXCEPT !.listed = @ \cup {s.name}, !.current[s.name] = 0] BY <2>3 DEF Outcomes
    <3>3. /\ e.listed = d.listed \cup {s.name}
          /\ e.current = [d.current EXCEPT ![s.name] = 0]
      BY <3>2
    <3> QED BY <2>3, <3>1, <3>3 DEF Concerns, Leaves
  <2>4. CASE s.op = "current"
    <3>1. s.name \in Names BY <1>1, <2>4 DEF Statement
    <3>2. s.name \in d.listed /\ e = [d EXCEPT !.current[s.name] = s.current] BY <2>4 DEF Outcomes
    <3>3. e.listed = d.listed /\ e.current = [d.current EXCEPT ![s.name] = s.current] BY <3>2
    <3> QED BY <2>4, <3>1, <3>2, <3>3 DEF Concerns, Leaves
  <2>5. s.op \in {"create", "replace", "path", "playlist", "current"} BY <1>1 DEF Statement
  <2> QED BY <2>1, <2>2, <2>3, <2>4, <2>5
<1> HIDE DEF s, t
<1>5. Row(e, t, n) => Row(d, q, n)
  <2>1. 1 \in DOMAIN q BY <1>1
  <2> QED BY <1>1, <1>2, <1>4, <2>1 DEF Row
<1>6. Final(e, t, n) = Final(d, q, n)
  <2>1. CASE \E k \in DOMAIN t : Last(t, n, k)
    <3>1. PICK k \in DOMAIN t : Last(t, n, k) BY <2>1
    <3>2. Last(q, n, k + 1)
      <4>1. k + 1 \in DOMAIN q /\ Concerns(q[k + 1], n) BY <1>2, <3>1 DEF Last
      <4>2. ASSUME NEW j \in DOMAIN q, Concerns(q[j], n) PROVE j <= k + 1
        BY <1>3, <3>1, <4>2 DEF Last
      <4> QED BY <4>1, <4>2 DEF Last
    <3> QED BY <1>1, <1>2, <3>1, <3>2, LastDecides
  <2>2. CASE ~ \E k \in DOMAIN t : Last(t, n, k)
    <3>1. \A k \in DOMAIN t : ~Concerns(t[k], n) BY <1>1, <2>2, LastExists
    <3>2. Final(e, t, n) = e.current[n] BY <2>2 DEF Final
    <3>3. CASE Concerns(s, n)
      <4>1. Last(q, n, 1) BY <1>1, <1>3, <3>1, <3>3 DEF Last
      <4>2. Final(d, q, n) = Leaves(s) BY <1>1, <4>1, LastDecides
      <4> QED BY <1>4, <3>2, <3>3, <4>2
    <3>4. CASE ~Concerns(s, n)
      <4>1. \A k \in DOMAIN q : ~Concerns(q[k], n) BY <1>1, <1>3, <3>1, <3>4
      <4>2. Final(d, q, n) = d.current[n] BY <4>1 DEF Final, Last
      <4> QED BY <1>4, <3>2, <3>4, <4>2
    <3> QED BY <3>3, <3>4
  <2> QED BY <2>1, <2>2
<1> QED BY <1>5, <1>6 DEF Saved, t

\* The position of the current playlist, once right in the database or on its way
\* there, stays right through every operation of the player and every statement
\* executed, for any queue: only a rescan or a refused statement spoils it.
THEOREM PositionsStaySaved == Spec => PositionStaysSaved
<1> DEFINE A == phase' = "run" /\ PositionSaved /\ ~PositionSaved' =>
                  (\E f \in Files : Populate(f)) \/ (Execute /\ disk' = disk)
<1>1. ASSUME IInv, [Next]_vars PROVE [A]_vars
  <2> SUFFICES ASSUME phase' = "run", PositionSaved, vars' # vars,
                      ~(\E f \in Files : Populate(f)), ~(Execute /\ disk' = disk)
               PROVE  PositionSaved'
    OBVIOUS
  <2> DEFINE n == current_playlist.name
  <2>1. IInv' BY <1>1, StepKeeps
  <2>2. /\ pending \in Seq(Statement) /\ disk \in Database /\ it_track \in Nat
        /\ current_playlist \in Playlist /\ n \in Names
    BY <1>1 DEF IInv, TypeOK, Playlist
  <2>3. pending' \in Seq(Statement) BY <2>1 DEF IInv, TypeOK
  <2>4. Saved(disk, pending, n, it_track)
    <3> DEFINE a == {i \in DOMAIN pending : pending[i].op \in {"playlist", "current"} /\ pending[i].name = n}
    <3>1. FinalPosition(n) = Greatest(disk, pending, n, a) BY DEF FinalPosition, About, Greatest
    <3>2. Final(disk, pending, n) = Greatest(disk, pending, n, a)
      <4> HIDE DEF Statement, a
      <4>1. a = {i \in DOMAIN pending : pending[i].op \in {"playlist", "current"} /\ pending[i].name = n}
        BY DEF a
      <4> QED BY <2>2, <4>1, FinalIsGreatest
    <3> QED BY <3>1, <3>2 DEF PositionSaved, WillHaveRow, Saved, Row
  <2>5. SUFFICES Saved(disk', pending', n', it_track')
    <3> DEFINE a == {i \in DOMAIN pending' : pending'[i].op \in {"playlist", "current"} /\ pending'[i].name = n'}
    <3>1. FinalPosition(n)' = Greatest(disk', pending', n', a) BY DEF FinalPosition, About, Greatest
    <3>2. Final(disk', pending', n') = Greatest(disk', pending', n', a)
      <4> HIDE DEF Statement, a
      <4>1. a = {i \in DOMAIN pending' : pending'[i].op \in {"playlist", "current"} /\ pending'[i].name = n'}
        BY DEF a
      <4> QED BY <2>3, <4>1, FinalIsGreatest
    <3> QED BY <2>5, <3>1, <3>2 DEF PositionSaved, WillHaveRow, Saved, Row
  <2>6. ASSUME NEW pl \in Playlist, NEW i \in Nat, NEW q \in Seq(Statement), NEW risks, NEW stopped,
               PlayAt(pl, i, q, risks, stopped)
        PROVE  Saved(disk', pending', n', it_track')
    <3> DEFINE r == q \o (IF i < Len(pl.tracks) THEN Looked(pl.tracks[i + 1]) ELSE <<>>)
    <3>1. current_playlist' = pl /\ it_track' = i BY <2>6 DEF PlayAt
    <3>2. pending' = r \o <<SetCurrent(pl.name, i)>> BY <2>6 DEF PlayAt
    <3>3. pl.name \in Names /\ pl.tracks \in Seq(Tracks) BY DEF Playlist
    <3>4. i < Len(pl.tracks) => Looked(pl.tracks[i + 1]) \in Seq(Statement)
      BY <3>3, PushedAreStatements
    <3>5. r \in Seq(Statement)
      <4> HIDE DEF Statement
      <4> QED BY <3>4
    <3> HIDE DEF r
    <3> QED BY <3>1, <3>2, <3>3, <3>5, PlaySaves
  <2>7. CASE Play \/ NextTrack \/ PreviousTrack \/ OnEos
    <3>1. \E i \in Nat : Replay(current_playlist, i)
      <4>1. /\ Forward(it_track, Len(current_playlist.tracks)) \in Nat
            /\ Back(it_track, Len(current_playlist.tracks)) \in Nat
        <5>1. Len(current_playlist.tracks) \in Nat BY <2>2 DEF Playlist
        <5> QED BY <2>2, <5>1, StepsType
      <4> QED BY <2>2, <2>7, <4>1 DEF Play, NextTrack, PreviousTrack, OnEos, GoForward, GoBack
    <3> QED BY <2>2, <2>6, <3>1 DEF Replay
  <2>8. ASSUME NEW i, NEW stopped, SwitchTo(i, stopped)
        PROVE  Saved(disk', pending', n', it_track')
    <3> DEFINE pl == Named(playlists, playlist_tables[i])
    <3>1. PlayAt(pl, Carried(pl.tracks), pending, CurrentRisks, stopped)
      BY <2>8 DEF SwitchTo
    <3>2. current_playlist' = pl /\ it_track' = Carried(pl.tracks) BY <3>1 DEF PlayAt
    <3>3. pl \in Playlist /\ Carried(pl.tracks) \in Nat BY <2>1, <3>2 DEF IInv, TypeOK, Playlist
    <3> HIDE DEF pl
    <3> QED BY <2>2, <2>6, <3>1, <3>3
  <2>9. CASE Switch
    BY <2>8, <2>9 DEF Switch, PlaylistUp, PlaylistDown, JoystickPlaylistDown
  <2>16. CASE \E m \in Names : SetCurrentPlaylist(m)
    <3>1. PICK pl, i : Replay(pl, i) BY <2>16 DEF SetCurrentPlaylist
    <3>2. current_playlist' = pl /\ it_track' = i BY <3>1 DEF Replay, PlayAt
    <3>3. pl \in Playlist /\ i \in Nat BY <2>1, <3>2 DEF IInv, TypeOK, Playlist
    <3> QED BY <2>2, <2>6, <3>1, <3>3 DEF Replay
  <2>10. ASSUME NEW l, NEW q \in Seq(Statement), NEW cleared, Start(l, q, cleared)
         PROVE  Saved(disk', pending', n', it_track')
    <3> DEFINE pl == Named(l, settings)
               saved == SavedPosition(disk, pl.name)
               i == IF saved < Len(pl.tracks) THEN saved ELSE 0
    <3>1. PlayAt(pl, i, q, Risks(TRUE, cleared), FALSE) BY <2>10 DEF Start
    <3>2. current_playlist' = pl /\ it_track' = i
      <4> HIDE DEF pl, i
      <4> QED BY <3>1 DEF PlayAt
    <3>3. pl \in Playlist /\ i \in Nat
      <4> HIDE DEF pl, i
      <4> QED BY <2>1, <3>2 DEF IInv, TypeOK, Playlist
    <3> HIDE DEF pl, i
    <3> QED BY <2>6, <3>1, <3>3
  <2>11. CASE Scanned
    BY <2>2, <2>10, <2>11 DEF Scanned
  <2>12. CASE Restart
    <3>1. <<>> \in Seq(Statement)
      <4> HIDE DEF Statement
      <4> QED OBVIOUS
    <3>2. Start(FromDb(disk.tables), <<>>, FALSE) BY <2>12 DEF Restart
    <3> QED BY <2>10, <3>1, <3>2
  <2>13. CASE Pause \/ Stop \/ Post \/ OnError \/ Rescan
    <3>1. UNCHANGED <<disk, pending, it_track, current_playlist>>
      BY <2>13 DEF Pause, Stop, Post, OnError, Rescan, stored, cursors
    <3> QED BY <2>4, <3>1
  <2>14. CASE Json
    <3>1. UNCHANGED <<disk, it_track, current_playlist>> BY <2>14 DEF Json, stored, cursors
    <3>2. \A t : \A k \in DOMAIN Looked(t) : Looked(t)[k].op = "path" BY DEF Looked, InsertPath
    <3> DEFINE l == current_playlist.tracks
               a == Looked(PeakNext(l, it_track))
               b == Looked(PeakPrevious(l, it_track))
    <3>3. CASE l = <<>>
      <4>1. pending' = pending
        <5> HIDE DEF Statement
        <5> QED BY <2>2, <2>14, <3>3 DEF Json, Push
      <4> QED BY <2>4, <3>1, <4>1
    <3>4. CASE l # <<>>
      <4>1. l \in Seq(Tracks) /\ Len(l) > 0 BY <2>2, <3>4 DEF Playlist
      <4>2. a \in Seq(Statement) /\ b \in Seq(Statement)
        BY <2>2, <4>1, PeaksAreTracks, PushedAreStatements
      <4>3. /\ \A k \in DOMAIN a : a[k].op = "path"
            /\ \A k \in DOMAIN b : b[k].op = "path"
        BY <3>2
      <4>4. pending' = pending \o (a \o b) BY <2>14, <3>4 DEF Json, Push
      <4> HIDE DEF a, b
      <4>5. a \o b \in Seq(Statement)
        <5> HIDE DEF Statement
        <5> QED BY <4>2
      <4>6. \A k \in DOMAIN (a \o b) : (a \o b)[k].op = "path"
        <5> HIDE DEF Statement
        <5>1. \A k \in DOMAIN (a \o b) : \/ k \in DOMAIN a /\ (a \o b)[k] = a[k]
                                         \/ k - Len(a) \in DOMAIN b /\ (a \o b)[k] = b[k - Len(a)]
          BY <4>2
        <5> QED BY <4>3, <5>1
      <4> QED BY <2>2, <2>4, <3>1, <4>4, <4>5, <4>6, PathsKeepSaved
    <3> QED BY <3>3, <3>4
  <2>15. CASE Execute
    <3>1. /\ pending # <<>> /\ disk' \in Executed(disk, Head(pending)) /\ pending' = Tail(pending)
          /\ UNCHANGED <<it_track, current_playlist>>
      BY <2>15 DEF Execute, cursors
    <3>2. disk' # disk BY <2>15
    <3>3. disk' \in Outcomes(disk, Head(pending)) BY <3>1, <3>2 DEF Executed
    <3> QED BY <2>2, <2>4, <3>1, <3>2, <3>3, ExecuteKeepsSaved
  <2> QED BY <1>1, <2>7, <2>9, <2>11, <2>12, <2>13, <2>14, <2>15, <2>16 DEF Next, Command
<1> QED BY <1>1, InductiveInvariant, PTL DEF Spec, PositionStaysSaved

-----------------------------------------------------------------------------
(* The catalog *)

\* The list module Catalog implements over its rows, as the player's database has it.
Listed == INSTANCE CatalogList WITH list <- disk.catalog

\* Only the insertion of a path adds to the catalog, at its end.
LEMMA OutcomesAdd ==
  ASSUME NEW d \in Database, NEW s \in Statement, NEW e \in Executed(d, s)
  PROVE  \/ e.catalog = d.catalog
         \/ \E t \in Tracks : ~Listed!In(d.catalog, t) /\ e.catalog = Append(d.catalog, t)
<1> USE LibraryAssumption DEF Names, Database
<1>1. CASE e = d
  BY <1>1
<1>2. CASE s.op = "create" /\ e \in Outcomes(d, s)
  BY <1>2 DEF Outcomes
<1>3. CASE s.op = "replace" /\ e \in Outcomes(d, s)
  BY <1>3 DEF Outcomes
<1>4. CASE s.op = "path" /\ e \in Outcomes(d, s)
  <2>1. s.track \in Tracks
    BY <1>4 DEF Statement
  <2>2. e = [d EXCEPT !.catalog = WithRow(@, s.track)]
    BY <1>4 DEF Outcomes
  <2>3. e.catalog = WithRow(d.catalog, s.track)
    BY <2>2
  <2> QED
    BY <2>1, <2>3 DEF WithRow, Listed!In
<1>5. CASE s.op = "playlist" /\ e \in Outcomes(d, s)
  BY <1>5 DEF Outcomes
<1>6. CASE s.op = "current" /\ e \in Outcomes(d, s)
  BY <1>6 DEF Outcomes
<1>7. s.op \in {"create", "replace", "path", "playlist", "current"}
  BY DEF Statement
<1> QED
  BY <1>1, <1>2, <1>3, <1>4, <1>5, <1>6, <1>7 DEF Executed

\* The catalog of this module is a list that only grows at its end, as it is when the
\* rows are modelled one by one (CatalogKeepsList of CatalogProofs): both see the
\* statements of db.cpp:74-87 and the SELECT DISTINCT of db.cpp:241 alike.
THEOREM CatalogIsListed == Spec => Listed!Spec
<1>1. Init => Listed!Init
  BY DEF Init, EmptyDatabase, Listed!Init
<1>2. IInv /\ [Next]_vars => [Listed!Next]_(disk.catalog)
  <2> SUFFICES ASSUME IInv, [Next]_vars PROVE Listed!Next \/ disk'.catalog = disk.catalog
    OBVIOUS
  <2>1. CASE Execute
    <3> DEFINE s == Head(pending)
    <3>1. disk \in Database /\ pending \in Seq(Statement) /\ pending # <<>> /\ disk' \in Executed(disk, s)
      BY <2>1 DEF IInv, TypeOK, Execute
    <3>2. s \in Statement
      <4> HIDE DEF Statement
      <4> QED BY <3>1
    <3> HIDE DEF s
    <3> QED BY <3>1, <3>2, OutcomesAdd DEF Listed!Next, Listed!Add
  <2>2. CASE ~Execute
    <3>1. disk' = disk
      BY <2>2 DEF vars, stored, Next, Command, Switch, Play, NextTrack, PreviousTrack, Pause, Stop, PlaylistUp,
                  PlaylistDown, JoystickPlaylistDown, SwitchTo, SetCurrentPlaylist, Json, Post, OnEos, OnError,
                  Populate, Rescan, Scanned, Restart
    <3> QED BY <3>1
  <2> QED BY <2>1, <2>2
<1> QED
  BY <1>1, <1>2, InductiveInvariant, PTL DEF Spec, Listed!Spec

=============================================================================
