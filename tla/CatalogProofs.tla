--------------------------- MODULE CatalogProofs ---------------------------
(***************************************************************************)
(* What module Catalog promises, for any files, any number of threads and  *)
(* any length of the catalog and the queue.                                *)
(***************************************************************************)
EXTENDS Catalog, SequenceTheorems, WellFoundedInduction, TLAPS

\* All rows there ever are: none carries what the constructor read from a file.
FreshRow == {r \in Row : r.tags = "none" /\ r.hash = "-1"}

Insertion(r) == [op |-> "insert", row |-> r]
Keys == Tracks \cup {Uri(t) : t \in Tracks}
Insertions == {Insertion(r) : r \in FreshRow}
Updates == {SetDuration(k, d) : k \in Keys, d \in Durations}
Statements == Insertions \cup Updates \cup {UpdateTrack}

New(t) == [at |-> "new", path |-> t]
Old(r) == [at |-> "found", row |-> r]

\* A constructor is at work on a path that was looked for.
CtorStates ==
  {Idle} \cup {New(t) : t \in Tracks \cap looked} \cup {Old(r) : r \in {s \in FreshRow : s.path \in looked}}

DataInv ==
  /\ rows \in Seq(FreshRow)
  /\ pending \in Seq(Statements)
  /\ known \subseteq Tracks /\ wanted \subseteq Tracks /\ looked \subseteq Tracks
  /\ ctor \in [Threads -> CtorStates]

Stored(t, i) == i \in DOMAIN rows /\ rows[i].path = t
Coming(t, i) == i \in DOMAIN pending /\ pending[i].op = "insert" /\ pending[i].row.path = t

\* Of a path no track was constructed for there is one row or one insertion, and
\* the scan that pushed it knows the path.
ScanInv ==
  \A t \in Tracks \ looked :
    /\ \A i, j : Stored(t, i) /\ Stored(t, j) => i = j
    /\ \A i, j : ~(Stored(t, i) /\ Coming(t, j))
    /\ \A i, j : Coming(t, i) /\ Coming(t, j) => i = j
    /\ t \notin known => \A i : ~Stored(t, i) /\ ~Coming(t, i)

IInv == DataInv /\ ScanInv

-----------------------------------------------------------------------------
(* Rows and statements *)

\* The row of a path the scan or the constructor inserts is fresh.
LEMMA BareIsFresh ==
  ASSUME NEW t \in Tracks
  PROVE  Bare(t) \in FreshRow /\ Bare(t).path = t
BY DEF Bare, FreshRow, Row, Tags, Hashes, Durations

\* A set of positions that is not empty has a first one.
LEMMA FirstPosition ==
  ASSUME NEW S \in SUBSET Nat, S # {}
  PROVE  \E i \in S : \A j \in S : i <= j
<1> DEFINE Less == {ss \in Nat \X Nat : ss[1] < ss[2]}
<1>1. IsWellFoundedOn(Less, Nat)
  BY NatLessThanWellFounded DEF OpToRel
<1>2. PICK i \in S : \A j \in S : <<j, i>> \notin Less
  <2> HIDE DEF Less
  <2> QED BY <1>1, WFMin
<1>3. \A j \in S : ~(j < i)
  BY <1>2
<1> QED BY <1>3

\* select_track returns a fresh row of the path it was asked for.
LEMMA SelectedIsFresh ==
  ASSUME rows \in Seq(FreshRow), NEW t, Found(t)
  PROVE  Selected(t) \in FreshRow /\ Selected(t).path = t
<1> DEFINE i == CHOOSE k \in RowsOf(t) : \A j \in RowsOf(t) : k <= j
<1>1. RowsOf(t) \in SUBSET Nat /\ RowsOf(t) # {}
  BY DEF Found, RowsOf
<1>2. \E k \in RowsOf(t) : \A j \in RowsOf(t) : k <= j
  BY <1>1, FirstPosition
<1>3. i \in RowsOf(t)
  BY <1>2
<1> HIDE DEF i
<1>4. rows[i] \in FreshRow /\ rows[i].path = t
  BY <1>3 DEF RowsOf
<1>5. Selected(t) = [rows[i] EXCEPT !.duration = "uninitialized"]
  BY DEF Selected, i
<1> QED
  BY <1>4, <1>5 DEF FreshRow, Row, Durations

\* What a statement does to fresh rows leaves them fresh; only an insertion adds
\* one, the last, and the paths of the others stay.
LEMMA ExecutedKeeps ==
  ASSUME NEW r \in Seq(FreshRow), NEW s \in Statements
  PROVE  /\ Executed(r, s) \in Seq(FreshRow)
         /\ s.op = "insert" => Executed(r, s) = Append(r, s.row) /\ s.row \in FreshRow
         /\ s.op # "insert" =>
              /\ DOMAIN Executed(r, s) = DOMAIN r
              /\ \A i \in DOMAIN r : Executed(r, s)[i].path = r[i].path
<1>1. CASE s \in Insertions
  <2>1. PICK x \in FreshRow : s = Insertion(x)
    BY <1>1 DEF Insertions
  <2>2. s.op = "insert" /\ s.row = x
    BY <2>1 DEF Insertion
  <2>3. Executed(r, s) = Append(r, x)
    BY <2>2 DEF Executed
  <2> QED
    BY <2>2, <2>3, AppendProperties
<1>2. CASE s \in Updates
  <2>1. PICK k \in Keys, d \in Durations : s = SetDuration(k, d)
    BY <1>2 DEF Updates
  <2>2. s.op = "duration" /\ s.key = k /\ s.duration = d
    BY <2>1 DEF SetDuration
  <2>3. Executed(r, s) = [i \in DOMAIN r |-> IF r[i].path = k THEN [r[i] EXCEPT !.duration = d] ELSE r[i]]
    BY <2>2 DEF Executed
  <2>4. \A i \in DOMAIN r : r[i] \in FreshRow
    OBVIOUS
  <2>5. \A x \in FreshRow : [x EXCEPT !.duration = d] \in FreshRow /\ [x EXCEPT !.duration = d].path = x.path
    BY DEF FreshRow, Row
  <2>6. \A i \in DOMAIN r : Executed(r, s)[i] \in FreshRow /\ Executed(r, s)[i].path = r[i].path
    BY <2>3, <2>4, <2>5
  <2>7. DOMAIN Executed(r, s) = 1..Len(r) /\ Len(r) \in Nat
    BY <2>3
  <2>8. Executed(r, s) \in Seq(FreshRow)
    <3>1. Executed(r, s) \in [1..Len(r) -> FreshRow]
      BY <2>3, <2>6
    <3> HIDE DEF Executed
    <3> QED BY <3>1, <2>7, SeqDef
  <2> QED
    BY <2>2, <2>6, <2>7, <2>8
<1>3. CASE s = UpdateTrack
  <2>1. s.op = "invalid"
    BY <1>3 DEF UpdateTrack
  <2> QED
    BY <2>1 DEF Executed
<1> QED
  BY <1>1, <1>2, <1>3 DEF Statements

\* What is pushed is a statement.
LEMMA Pushes ==
  ASSUME DataInv, NEW s \in Statements, pending' = Append(pending, s)
  PROVE  /\ pending' \in Seq(Statements)
         /\ s.op # "insert" => \A t, i : Coming(t, i)' <=> Coming(t, i)
         /\ \A t, i : Coming(t, i)' /\ s.row.path # t => Coming(t, i)
<1>1. pending \in Seq(Statements)
  BY DEF DataInv
<1>2. pending' \in Seq(Statements) /\ DOMAIN pending' = DOMAIN pending \cup {Len(pending) + 1}
  BY <1>1
<1>3. pending'[Len(pending) + 1] = s /\ \A i \in DOMAIN pending : pending'[i] = pending[i]
  BY <1>1
<1>4. Len(pending) + 1 \notin DOMAIN pending
  BY <1>1
<1> QED
  BY <1>2, <1>3, <1>4 DEF Coming

\* A step that changes no row, knows no less, and pushes nothing about a path no
\* track was constructed for.
LEMMA OthersKeepScanInv ==
  ASSUME ScanInv, rows' = rows, known' = known, looked \subseteq looked',
         \A t \in Tracks \ looked' : \A i : Coming(t, i)' => Coming(t, i)
  PROVE  ScanInv'
<1>1. \A t, i : Stored(t, i)' <=> Stored(t, i)
  BY DEF Stored
<1> QED
  BY <1>1 DEF ScanInv

-----------------------------------------------------------------------------
(* The inductive invariant *)

\* The catalog starts empty.
LEMMA InitIInv == Init => IInv
  BY DEF Init, IInv, DataInv, ScanInv, Stored, Coming, CtorStates

\* A step of the scan.
LEMMA ScanKeepsIInv ==
  ASSUME IInv, NEW t \in Audio, Scan(t)
  PROVE  IInv'
<1>1. t \in Tracks
  BY CatalogAssumption
<1>2. /\ t \notin known /\ known' = known \cup {t}
      /\ pending' = Append(pending, Insertion(Bare(t)))
      /\ UNCHANGED <<rows, ctor, wanted, looked>>
  BY DEF Scan, InsertPath, Insertion
<1>3. Insertion(Bare(t)) \in Statements
  BY <1>1, BareIsFresh DEF Statements, Insertions
<1>4. pending' \in Seq(Statements)
  BY <1>2, <1>3, Pushes DEF IInv
<1>5. DataInv'
  BY <1>1, <1>2, <1>4 DEF IInv, DataInv, CtorStates
<1>6. \A u, i : Stored(u, i)' <=> Stored(u, i)
  BY <1>2 DEF Stored
<1>7. pending \in Seq(Statements)
  BY DEF IInv, DataInv
<1>8. \A u, i : Coming(u, i)' => Coming(u, i) \/ (u = t /\ i = Len(pending) + 1)
  BY <1>1, <1>2, <1>7, BareIsFresh DEF Coming, Insertion
<1>9. ScanInv'
  BY <1>2, <1>6, <1>8 DEF IInv, ScanInv
<1> QED
  BY <1>5, <1>9 DEF IInv

\* The constructor of track.
LEMMA ConstructKeepsIInv ==
  ASSUME IInv, NEW x \in Threads, Construct(x)
  PROVE  IInv'
<1>1. DataInv /\ ScanInv /\ ctor[x] \in CtorStates
  BY DEF IInv, DataInv
<1>2. ASSUME NEW t \in Tracks, Look(x, t) PROVE IInv'
  <2>1. looked' = looked \cup {t} /\ UNCHANGED <<rows, known, wanted>>
    BY <1>2 DEF Look
  <2>2. CtorStates \subseteq CtorStates' /\ t \in Tracks \cap looked'
    BY <2>1 DEF CtorStates
  <2>3. CASE Found(t) /\ ctor' = [ctor EXCEPT ![x] = Old(Selected(t))] /\ UNCHANGED pending
    <3>1. Selected(t) \in FreshRow /\ Selected(t).path = t
      BY <1>1, <2>3, SelectedIsFresh DEF DataInv
    <3>2. Old(Selected(t)) \in CtorStates'
      BY <2>2, <3>1 DEF CtorStates
    <3>3. DataInv'
      BY <1>1, <2>1, <2>2, <2>3, <3>2 DEF DataInv
    <3>4. ScanInv'
      BY <1>1, <2>1, <2>3, OthersKeepScanInv DEF Coming
    <3> QED
      BY <3>3, <3>4 DEF IInv
  <2>4. CASE ctor' = [ctor EXCEPT ![x] = New(t)] /\ pending' = Append(pending, Insertion(Bare(t)))
    <3>1. Insertion(Bare(t)) \in Statements /\ Insertion(Bare(t)).row.path = t
      BY BareIsFresh DEF Statements, Insertions, Insertion
    <3>2. pending' \in Seq(Statements) /\ \A u, i : Coming(u, i)' /\ t # u => Coming(u, i)
      BY <1>1, <2>4, <3>1, Pushes
    <3>3. New(t) \in CtorStates'
      BY <2>2 DEF CtorStates
    <3>4. DataInv'
      BY <1>1, <2>1, <2>2, <2>4, <3>2, <3>3 DEF DataInv
    <3>5. ScanInv'
      BY <1>1, <2>1, <3>2, OthersKeepScanInv
    <3> QED
      BY <3>4, <3>5 DEF IInv
  <2> QED
    BY <1>2, <2>3, <2>4 DEF Look, InsertPath, Insertion, New, Old
<1>3. ASSUME NEW r \in FreshRow, r.path \in looked,
             ctor' = [ctor EXCEPT ![x] = Idle], wanted' \subseteq Tracks,
             pending' = Append(pending, Insertion(r)) \/ UNCHANGED pending,
             UNCHANGED <<rows, known, looked>>
      PROVE  IInv'
  <2>1. Insertion(r) \in Statements /\ Insertion(r).row.path = r.path
    BY DEF Statements, Insertions, Insertion
  <2>2. pending' \in Seq(Statements) /\ \A u, i : Coming(u, i)' /\ r.path # u => Coming(u, i)
    BY <1>1, <1>3, <2>1, Pushes DEF DataInv, Coming
  <2>3. DataInv'
    BY <1>1, <1>3, <2>2 DEF DataInv, CtorStates
  <2>4. ScanInv'
    BY <1>1, <1>3, <2>2, OthersKeepScanInv
  <2> QED
    BY <2>3, <2>4 DEF IInv
<1>4. CASE FinishNew(x)
  <2>1. PICK t \in Tracks \cap looked : ctor[x] = New(t)
    BY <1>1, <1>4 DEF FinishNew, CtorStates, Idle, Old
  <2>2. ctor[x].path = t
    BY <2>1 DEF New
  <2>3. Bare(t) \in FreshRow /\ Bare(t).path = t
    BY <2>1, BareIsFresh
  <2> QED
    BY <1>1, <1>3, <1>4, <2>1, <2>2, <2>3 DEF FinishNew, InsertPath, Insertion, DataInv
<1>5. CASE FinishChanged(x) \/ FinishSame(x)
  <2>1. PICK r \in FreshRow : ctor[x] = Old(r) /\ r.path \in looked
    BY <1>1, <1>5 DEF FinishChanged, FinishSame, CtorStates, Idle, New
  <2>2. ctor[x].row = r /\ r.path \in Tracks
    BY <2>1 DEF Old, FreshRow, Row
  <2> QED
    BY <1>1, <1>3, <1>5, <2>1, <2>2
    DEF FinishChanged, FinishSame, InsertTrack, Insertion, DataInv
<1> QED
  BY <1>2, <1>4, <1>5 DEF Construct

\* Durations and tags.
LEMMA UpdatesKeepIInv ==
  ASSUME IInv, PushSong \/ \E t \in Tracks : Measure(t) \/ Duratin(t)
  PROVE  IInv'
<1>1. ASSUME NEW s \in Updates \cup {UpdateTrack}, pending' = Append(pending, s)
      PROVE  pending' \in Seq(Statements) /\ \A t, i : Coming(t, i)' => Coming(t, i)
  <2>1. s \in Statements /\ s.op # "insert"
    BY DEF Statements, Updates, SetDuration, UpdateTrack
  <2> QED
    BY <1>1, <2>1, Pushes DEF IInv
<1>2. \A t \in Tracks : /\ SetDuration(Uri(t), "seconds") \in Updates
                        /\ SetDuration(t, "nanoseconds") \in Updates
  <2>1. "seconds" \in Durations /\ "nanoseconds" \in Durations
    BY DEF Durations
  <2>2. \A t \in Tracks : t \in Keys /\ Uri(t) \in Keys
    BY DEF Keys
  <2>3. \A k \in Keys, d \in Durations : SetDuration(k, d) \in Updates
    BY DEF Updates
  <2> QED
    BY <2>1, <2>2, <2>3
<1>3. pending' \in Seq(Statements) /\ \A t, i : Coming(t, i)' => Coming(t, i)
  BY <1>1, <1>2 DEF PushSong, Measure, Duratin, IInv, DataInv, Coming
<1>4. UNCHANGED <<rows, known, ctor, looked>> /\ wanted' \subseteq wanted
  BY DEF PushSong, Measure, Duratin
<1>5. DataInv'
  BY <1>3, <1>4 DEF IInv, DataInv, CtorStates
<1>6. ScanInv'
  BY <1>3, <1>4, OthersKeepScanInv DEF IInv
<1> QED
  BY <1>5, <1>6 DEF IInv

\* The write queue, whether it executes a statement or fails to.
LEMMA ExecuteKeepsIInv ==
  ASSUME IInv, Execute
  PROVE  IInv'
<1> DEFINE s == Head(pending)
<1>1. /\ pending # <<>> /\ pending \in Seq(Statements) /\ rows \in Seq(FreshRow)
      /\ rows' = rows \/ rows' = Executed(rows, s)
      /\ pending' = Tail(pending) /\ UNCHANGED <<known, ctor, wanted, looked>>
  BY DEF Execute, IInv, DataInv
<1>2. s \in Statements /\ pending' \in Seq(Statements) /\ s = pending[1] /\ 1 \in DOMAIN pending
  BY <1>1, HeadTailProperties
<1>3. \A i \in DOMAIN pending' : i + 1 \in DOMAIN pending /\ pending'[i] = pending[i + 1] /\ i \in Nat \ {0}
  BY <1>1, HeadTailProperties
<1> HIDE DEF s
<1>4. rows' \in Seq(FreshRow)
  BY <1>1, <1>2, ExecutedKeeps
<1>5. DataInv'
  BY <1>1, <1>2, <1>4 DEF IInv, DataInv, CtorStates
<1>6. \A t, i : Coming(t, i)' => Coming(t, i + 1) /\ i \in Nat \ {0}
  <2> SUFFICES ASSUME NEW t, NEW i, Coming(t, i)' PROVE Coming(t, i + 1) /\ i \in Nat \ {0}
    OBVIOUS
  <2>1. i \in DOMAIN pending' /\ pending'[i].op = "insert" /\ pending'[i].row.path = t
    BY DEF Coming
  <2>2. i + 1 \in DOMAIN pending /\ pending'[i] = pending[i + 1] /\ i \in Nat \ {0}
    BY <1>3, <2>1
  <2> QED
    BY <2>1, <2>2 DEF Coming
<1>7. s.op # "insert" \/ rows' = rows => \A t, i : Stored(t, i)' <=> Stored(t, i)
  <2>1. CASE rows' = rows
    BY <2>1 DEF Stored
  <2>2. CASE s.op # "insert" /\ rows' = Executed(rows, s)
    <3>1. DOMAIN rows' = DOMAIN rows /\ \A i \in DOMAIN rows : rows'[i].path = rows[i].path
      BY <1>1, <1>2, <2>2, ExecutedKeeps
    <3> QED
      BY <3>1 DEF Stored
  <2> QED
    BY <1>1, <2>1, <2>2
<1>8. s.op = "insert" /\ rows' # rows =>
        /\ Coming(s.row.path, 1)
        /\ \A t, i : Stored(t, i)' => Stored(t, i) \/ (t = s.row.path /\ i = Len(rows) + 1)
  <2> SUFFICES ASSUME s.op = "insert", rows' # rows
               PROVE  /\ Coming(s.row.path, 1)
                      /\ \A t, i : Stored(t, i)' => Stored(t, i) \/ (t = s.row.path /\ i = Len(rows) + 1)
    OBVIOUS
  <2>1. rows' = Append(rows, s.row)
    BY <1>1, <1>2, ExecutedKeeps
  <2>2. Coming(s.row.path, 1)
    BY <1>2 DEF Coming
  <2> QED
    BY <1>1, <2>1, <2>2 DEF Stored
<1>9. ScanInv'
  <2> SUFFICES ASSUME NEW t \in Tracks \ looked
               PROVE  /\ \A i, j : Stored(t, i)' /\ Stored(t, j)' => i = j
                      /\ \A i, j : ~(Stored(t, i)' /\ Coming(t, j)')
                      /\ \A i, j : Coming(t, i)' /\ Coming(t, j)' => i = j
                      /\ t \notin known => \A i : ~Stored(t, i)' /\ ~Coming(t, i)'
    BY <1>1 DEF ScanInv
  <2>1. /\ \A i, j : Stored(t, i) /\ Stored(t, j) => i = j
        /\ \A i, j : ~(Stored(t, i) /\ Coming(t, j))
        /\ \A i, j : Coming(t, i) /\ Coming(t, j) => i = j
        /\ t \notin known => \A i : ~Stored(t, i) /\ ~Coming(t, i)
    BY DEF IInv, ScanInv
  <2>2. \A i, j : Coming(t, i)' /\ Coming(t, j)' => i = j
    <3> SUFFICES ASSUME NEW i, NEW j, Coming(t, i)', Coming(t, j)' PROVE i = j
      OBVIOUS
    <3>1. i + 1 = j + 1 /\ i \in Nat /\ j \in Nat
      BY <1>6, <2>1
    <3> QED
      BY <3>1
  <2>3. CASE s.op # "insert" \/ rows' = rows
    BY <1>6, <1>7, <2>1, <2>2, <2>3
  <2>4. CASE s.op = "insert" /\ rows' # rows
    <3>1. t = s.row.path => \A i : ~Coming(t, i)'
      <4> SUFFICES ASSUME t = s.row.path, NEW i, Coming(t, i)' PROVE FALSE
        OBVIOUS
      <4>1. i + 1 = 1 /\ i \in Nat \ {0}
        BY <1>6, <1>8, <2>1, <2>4
      <4> QED
        BY <4>1
    <3> QED
      BY <1>6, <1>8, <2>1, <2>2, <2>4, <3>1
  <2> QED
    BY <2>3, <2>4
<1> QED
  BY <1>5, <1>9 DEF IInv

\* The end of the process and the next start.
LEMMA RestartKeepsIInv ==
  ASSUME IInv, Restart
  PROVE  IInv'
<1>1. /\ pending' = <<>> /\ known' = {rows[i].path : i \in DOMAIN rows}
      /\ ctor' = [x \in Threads |-> Idle] /\ wanted' = {} /\ UNCHANGED <<rows, looked>>
  BY DEF Restart
<1>2. \A i \in DOMAIN rows : rows[i].path \in Tracks
  BY DEF IInv, DataInv, FreshRow, Row
<1>3. DataInv'
  BY <1>1, <1>2 DEF IInv, DataInv, CtorStates
<1>4. (\A t, i : ~Coming(t, i)') /\ (\A t, i : Stored(t, i)' <=> Stored(t, i))
  BY <1>1 DEF Coming, Stored
<1>5. \A t, i : Stored(t, i) => t \in known'
  BY <1>1 DEF Stored
<1>6. ScanInv'
  BY <1>1, <1>4, <1>5 DEF IInv, ScanInv
<1> QED
  BY <1>3, <1>6 DEF IInv

\* Every step keeps it.
LEMMA NextKeepsIInv == IInv /\ [Next]_vars => IInv'
<1> SUFFICES ASSUME IInv, [Next]_vars PROVE IInv'
  OBVIOUS
<1>1. CASE UNCHANGED vars
  BY <1>1 DEF vars, IInv, DataInv, ScanInv, CtorStates, Stored, Coming
<1> QED
  BY <1>1, ScanKeepsIInv, ConstructKeepsIInv, UpdatesKeepIInv, ExecuteKeepsIInv, RestartKeepsIInv DEF Next

\* In every reachable state of the catalog the invariant holds (track.cpp:38-100,
\* db.cpp:74-87).
THEOREM InductiveInvariant == Spec => []IInv
  BY InitIInv, NextKeepsIInv, PTL DEF Spec

\* Every variable of the catalog keeps its type.
THEOREM TypeCorrect == Spec => []TypeOK
<1>1. IInv => TypeOK
  <2> SUFFICES ASSUME IInv PROVE TypeOK
    OBVIOUS
  <2>1. rows \in Seq(Row)
    BY DEF IInv, DataInv, FreshRow
  <2>2. ASSUME NEW i \in DOMAIN pending
        PROVE  \/ pending[i].op = "insert" /\ pending[i].row \in Row
               \/ pending[i].op = "duration" /\ pending[i].duration \in Durations
               \/ pending[i] = UpdateTrack
    <3>1. pending[i] \in Statements
      BY DEF IInv, DataInv
    <3> QED
      BY <3>1 DEF Statements, Insertions, Insertion, Updates, SetDuration, FreshRow
  <2>3. ASSUME NEW x \in Threads
        PROVE  \/ ctor[x] = Idle
               \/ ctor[x].at = "new" /\ ctor[x].path \in Tracks
               \/ ctor[x].at = "found" /\ ctor[x].row \in Row
    <3>1. ctor[x] \in CtorStates
      BY DEF IInv, DataInv
    <3> QED
      BY <3>1 DEF CtorStates, New, Old, FreshRow
  <2> QED
    BY <2>1, <2>2, <2>3 DEF IInv, DataInv, TypeOK
<1> QED
  BY <1>1, InductiveInvariant, PTL

\* Whichever of a path's rows select_track comes to first, it returns the same tags
\* and hash: none, because what the constructor reads from the file never reaches
\* a row (track.cpp:77-83, db.cpp:177).
THEOREM AllRowsAgree == Spec => []AnyRowWillDo
<1>1. IInv => AnyRowWillDo
  BY DEF IInv, DataInv, AnyRowWillDo, FreshRow
<1> QED
  BY <1>1, InductiveInvariant, PTL

\* However often the scan runs and the process restarts, a file has one row until
\* a track is constructed for it (player.cpp:118-126).
THEOREM OneRowOfAScan == Spec => []ScanAddsOneRow
<1>1. IInv => ScanAddsOneRow
  BY DEF IInv, ScanInv, ScanAddsOneRow, Stored, Coming, Inserts
<1> QED
  BY <1>1, InductiveInvariant, PTL

-----------------------------------------------------------------------------
(* The list of paths *)

\* A set that holds 0 and with every number the next one holds all up to N.
LEMMA Induction ==
  ASSUME NEW N \in Nat, NEW S, 0 \in S, \A n \in 1..N : n - 1 \in S => n \in S
  PROVE  0..N \subseteq S
<1> DEFINE T == (0..N) \ S
<1> SUFFICES ASSUME T # {} PROVE FALSE
  OBVIOUS
<1>1. PICK i \in T : \A j \in T : i <= j
  <2>1. T \in SUBSET Nat
    OBVIOUS
  <2> HIDE DEF T
  <2> QED BY <2>1, FirstPosition
<1>2. i \in 1..N /\ i - 1 \notin T
  BY <1>1
<1> QED
  BY <1>1, <1>2

\* What SELECT DISTINCT makes of the first m paths, one path after the other.
OneMore(p, n, l) == IF Known(p, n) THEN l ELSE Append(l, p[n])

Selects(h, p, m) ==
  /\ h \in [0..m -> Seq(Tracks)] /\ h[0] = <<>>
  /\ \A n \in 1..m : h[n] = OneMore(p, n, h[n - 1])

LEMMA DistinctSelects ==
  ASSUME NEW p \in Seq(Tracks)
  PROVE  Selects(DistinctUpto(p), p, Len(p))
<1> DEFINE N == Len(p)
           S == {m \in 0..N : \E h : Selects(h, p, m)}
           u == DistinctUpto(p)
<1>1. N \in Nat /\ \A n \in 1..N : p[n] \in Tracks
  OBVIOUS
<1> HIDE DEF N
<1>2. 0 \in S
  <2> DEFINE h == [n \in 0..0 |-> <<>>]
  <2>1. Selects(h, p, 0)
    BY DEF Selects
  <2> HIDE DEF h
  <2> QED BY <1>1, <2>1
<1>3. ASSUME NEW m \in 1..N, m - 1 \in S PROVE m \in S
  <2>1. PICK h : Selects(h, p, m - 1)
    BY <1>3
  <2> DEFINE last == OneMore(p, m, h[m - 1])
             g == [n \in 0..m |-> IF n = m THEN last ELSE h[n]]
  <2>2. last \in Seq(Tracks)
    <3>1. m - 1 \in 0..(m - 1) /\ h[m - 1] \in Seq(Tracks)
      BY <1>1, <2>1 DEF Selects
    <3> QED BY <1>1, <3>1 DEF OneMore
  <2> HIDE DEF last
  <2>3. g \in [0..m -> Seq(Tracks)]
    BY <1>1, <2>1, <2>2 DEF Selects
  <2>4. g[m] = last /\ \A n \in 0..(m - 1) : g[n] = h[n]
    BY <1>1
  <2> HIDE DEF g
  <2>5. g[0] = <<>> /\ g[m - 1] = h[m - 1]
    BY <1>1, <2>1, <2>4 DEF Selects
  <2>6. ASSUME NEW n \in 1..m PROVE g[n] = OneMore(p, n, g[n - 1])
    <3>1. CASE n = m
      BY <2>4, <2>5, <3>1 DEF last
    <3>2. CASE n # m
      <4>1. n \in 1..(m - 1) /\ n - 1 \in 0..(m - 1) /\ n \in 0..(m - 1)
        BY <1>1, <3>2
      <4> QED BY <2>1, <2>4, <4>1 DEF Selects
    <3> QED BY <3>1, <3>2
  <2>7. Selects(g, p, m)
    BY <2>3, <2>5, <2>6 DEF Selects
  <2> QED BY <1>1, <2>7
<1>4. PICK h : Selects(h, p, N)
  <2> HIDE DEF S
  <2>1. 0..N \subseteq S
    BY <1>1, <1>2, <1>3, Induction
  <2> QED BY <1>1, <2>1 DEF S
<1>5. h = [n \in 0..N |-> IF n = 0 THEN <<>> ELSE OneMore(p, n, h[n - 1])]
  BY <1>1, <1>4 DEF Selects
<1>6. u = [n \in 0..N |-> IF n = 0 THEN <<>> ELSE OneMore(p, n, u[n - 1])]
  BY <1>5 DEF DistinctUpto, OneMore, N
<1> HIDE DEF u
<1>7. 0..N \subseteq {n \in 0..N : u[n] = h[n]}
  <2> DEFINE R == {n \in 0..N : u[n] = h[n]}
  <2>1. 0 \in R
    BY <1>1, <1>4, <1>6 DEF Selects
  <2>2. ASSUME NEW n \in 1..N, n - 1 \in R PROVE n \in R
    <3>1. n \in 0..N /\ n # 0 /\ u[n - 1] = h[n - 1]
      BY <1>1, <2>2
    <3>2. u[n] = OneMore(p, n, u[n - 1])
      BY <1>6, <3>1
    <3>3. h[n] = OneMore(p, n, h[n - 1])
      BY <1>4 DEF Selects
    <3> QED BY <3>1, <3>2, <3>3
  <2> HIDE DEF R
  <2>3. 0..N \subseteq R
    BY <1>1, <2>1, <2>2, Induction
  <2> QED BY <2>3 DEF R
<1>8. u = h
  BY <1>5, <1>6, <1>7
<1> QED
  BY <1>4, <1>8 DEF N, u

\* It holds the paths that there are, and no others.
LEMMA DistinctHas ==
  ASSUME NEW p \in Seq(Tracks), NEW t
  PROVE  List!In(DistinctUpto(p)[Len(p)], t) <=> \E i \in 1..Len(p) : p[i] = t
<1> DEFINE N == Len(p)
           u == DistinctUpto(p)
           S == {n \in 0..N : List!In(u[n], t) <=> \E i \in 1..n : p[i] = t}
<1>1. N \in Nat /\ Selects(u, p, N) /\ \A n \in 1..N : p[n] \in Tracks
  BY DistinctSelects
<1> HIDE DEF N, u
<1>2. 0 \in S
  BY <1>1 DEF Selects, List!In
<1>3. ASSUME NEW n \in 1..N, n - 1 \in S PROVE n \in S
  <2>1. n - 1 \in 0..N /\ u[n - 1] \in Seq(Tracks) /\ p[n] \in Tracks
    BY <1>1 DEF Selects
  <2>2. List!In(u[n - 1], t) <=> \E i \in 1..(n - 1) : p[i] = t
    BY <1>3
  <2>3. CASE Known(p, n)
    <3>1. u[n] = u[n - 1]
      BY <1>1, <2>3 DEF Selects, OneMore
    <3>2. (\E i \in 1..n : p[i] = t) <=> \E i \in 1..(n - 1) : p[i] = t
      BY <1>1, <2>3 DEF Known
    <3> QED BY <2>2, <3>1, <3>2
  <2>4. CASE ~Known(p, n)
    <3> DEFINE sofar == u[n - 1]
               e == p[n]
               m == Append(sofar, e)
    <3>1. u[n] = m
      BY <1>1, <2>4 DEF Selects, OneMore
    <3>2. List!In(m, t) <=> List!In(sofar, t) \/ e = t
      <4>1. sofar \in Seq(Tracks) /\ e \in Tracks
        BY <2>1
      <4> HIDE DEF sofar, e
      <4>2. DOMAIN m = DOMAIN sofar \cup {Len(sofar) + 1} /\ m[Len(sofar) + 1] = e /\ \A i \in DOMAIN sofar : m[i] = sofar[i]
        BY <4>1, AppendProperties
      <4> HIDE DEF m
      <4> DEFINE k == Len(sofar) + 1
      <4> HIDE DEF k
      <4>3. (\E i \in DOMAIN m : m[i] = t) <=> (\E i \in DOMAIN sofar : sofar[i] = t) \/ e = t
        BY <4>2 DEF k
      <4> QED BY <4>3 DEF List!In
    <3>3. (\E i \in 1..n : p[i] = t) <=> (\E i \in 1..(n - 1) : p[i] = t) \/ p[n] = t
      BY <1>1
    <3> HIDE DEF m
    <3>4. List!In(u[n], t) <=> \E i \in 1..n : p[i] = t
      BY <2>2, <3>1, <3>2, <3>3
    <3>5. n \in 0..N
      BY <1>1
    <3> QED BY <3>4, <3>5
  <2> QED BY <2>3, <2>4
<1> HIDE DEF S
<1>4. 0..N \subseteq S
  BY <1>1, <1>2, <1>3, Induction
<1> QED
  BY <1>1, <1>4 DEF S, N, u

\* A row more leaves the list as it is when its path is there, and is its last otherwise.
LEMMA DistinctAppend ==
  ASSUME NEW p \in Seq(Tracks), NEW t \in Tracks
  PROVE  DistinctUpto(Append(p, t))[Len(p) + 1] =
           IF List!In(DistinctUpto(p)[Len(p)], t) THEN DistinctUpto(p)[Len(p)]
           ELSE Append(DistinctUpto(p)[Len(p)], t)
<1> DEFINE N == Len(p)
           q == Append(p, t)
           u == DistinctUpto(p)
           v == DistinctUpto(q)
           S == {n \in 0..N : u[n] = v[n]}
<1>1. /\ N \in Nat /\ q \in Seq(Tracks) /\ Len(q) = N + 1
      /\ q[N + 1] = t /\ \A n \in 1..N : q[n] = p[n]
  OBVIOUS
<1>2. Selects(u, p, N) /\ Selects(v, q, N + 1)
  BY <1>1, DistinctSelects
<1>3. \A n \in 1..N : n - 1 \in 0..N /\ \A l : OneMore(q, n, l) = OneMore(p, n, l)
  <2>1. \A n \in 1..N : Known(q, n) <=> Known(p, n)
    BY <1>1 DEF Known
  <2> HIDE DEF q
  <2> QED BY <1>1, <2>1 DEF OneMore
<1>4. Known(q, N + 1) <=> \E i \in 1..N : p[i] = t
  <2>1. (N + 1) - 1 = N
    BY <1>1
  <2> QED BY <1>1, <2>1 DEF Known
<1>5. List!In(u[N], t) <=> Known(q, N + 1)
  BY <1>4, DistinctHas
<1> HIDE DEF N, q, u, v
<1>6. 0 \in S
  BY <1>1, <1>2 DEF Selects
<1>7. ASSUME NEW n \in 1..N, n - 1 \in S PROVE n \in S
  <2>1. n \in 1..(N + 1)
    BY <1>1
  <2> QED BY <1>1, <1>2, <1>3, <1>7, <2>1 DEF Selects
<1> HIDE DEF S
<1>8. 0..N \subseteq S
  BY <1>1, <1>6, <1>7, Induction
<1>9. u[N] = v[N]
  BY <1>1, <1>8 DEF S
<1>10. v[N + 1] = IF Known(q, N + 1) THEN v[N] ELSE Append(v[N], t)
  <2>1. N + 1 \in 1..(N + 1) /\ (N + 1) - 1 = N
    BY <1>1
  <2> QED BY <1>1, <1>2, <2>1 DEF Selects, OneMore
<1> QED
  BY <1>5, <1>9, <1>10 DEF N, q, u, v

\* Only an insertion of a path that is not there yet changes the list.
LEMMA ExecuteKeepsList ==
  ASSUME IInv, Execute
  PROVE  List!Next \/ Seen(rows') = Seen(rows)
<1> DEFINE s == Head(pending)
           p == Paths(rows)
<1>1. rows \in Seq(FreshRow) /\ s \in Statements /\ (rows' = rows \/ rows' = Executed(rows, s))
  BY DEF Execute, IInv, DataInv
<1>2. p \in Seq(Tracks) /\ Len(p) = Len(rows) /\ Len(rows) \in Nat
  BY <1>1 DEF Paths, FreshRow, Row
<1> HIDE DEF s
<1>3. CASE s.op = "insert" /\ rows' = Executed(rows, s)
  <2>1. rows' = Append(rows, s.row) /\ s.row \in FreshRow
    BY <1>1, <1>3, ExecutedKeeps
  <2> DEFINE t == s.row.path
  <2>2. t \in Tracks
    BY <2>1 DEF FreshRow, Row
  <2>3. Len(rows') = Len(p) + 1 /\ Paths(rows') = Append(p, t)
    <3>1. /\ rows' \in Seq(FreshRow) /\ Len(rows') = Len(rows) + 1 /\ rows'[Len(rows) + 1] = s.row
          /\ \A i \in 1..Len(rows) : rows'[i] = rows[i]
      BY <1>1, <2>1
    <3>2. Append(p, t) \in Seq(Tracks) /\ Len(Append(p, t)) = Len(rows) + 1 /\ Append(p, t)[Len(rows) + 1] = t
          /\ \A i \in 1..Len(rows) : Append(p, t)[i] = rows[i].path
      <4>1. \A i \in 1..Len(rows) : p[i] = rows[i].path
        BY <1>1 DEF Paths
      <4> HIDE DEF p, t
      <4> QED BY <1>2, <2>2, <4>1
    <3>3. /\ Paths(rows') \in Seq(Tracks) /\ Len(Paths(rows')) = Len(rows) + 1
          /\ \A i \in 1..(Len(rows) + 1) : Paths(rows')[i] = rows'[i].path
      BY <1>2, <3>1 DEF Paths, FreshRow, Row
    <3> HIDE DEF p
    <3>4. \A i \in 1..(Len(rows) + 1) : Append(p, t)[i] = Paths(rows')[i]
      BY <1>2, <3>1, <3>2, <3>3
    <3> HIDE DEF t
    <3> QED BY <1>2, <3>1, <3>2, <3>3, <3>4, SeqEqual
  <2> HIDE DEF p, t
  <2>4. Seen(rows') = IF List!In(Seen(rows), t) THEN Seen(rows) ELSE Append(Seen(rows), t)
    BY <1>2, <2>2, <2>3, DistinctAppend DEF Seen, p
  <2> QED
    BY <2>2, <2>4 DEF List!Next, List!Add
<1>4. CASE s.op # "insert" \/ rows' = rows
  <2>1. DOMAIN rows' = DOMAIN rows /\ \A i \in DOMAIN rows : rows'[i].path = rows[i].path
    BY <1>1, <1>4, ExecutedKeeps
  <2>2. Paths(rows') = Paths(rows)
    BY <2>1 DEF Paths
  <2>3. Len(rows') = Len(rows)
    <3>1. rows' \in Seq(FreshRow)
      BY <1>1, ExecutedKeeps
    <3> QED BY <1>1, <2>1, <3>1
  <2> QED
    BY <2>2, <2>3 DEF Seen
<1> QED
  BY <1>1, <1>3, <1>4

\* For any files and threads, the paths a reader of db_catalog sees are a list that
\* only grows at its end, with no path twice: rows inserted again, durations, lost
\* statements and restarts never move one (db.cpp:74-87, 236-263).
THEOREM CatalogKeepsList == Spec => KeepsList
<1>1. Init => List!Init
  <2> SUFFICES ASSUME Init PROVE Seen(rows) = <<>>
    BY DEF List!Init
  <2>1. rows = <<>> /\ Len(rows) = 0 /\ Paths(rows) = <<>>
    BY DEF Init, Paths
  <2>2. <<>> \in Seq(Tracks) /\ Len(<<>>) = 0
    OBVIOUS
  <2>3. DistinctUpto(<<>>)[0] = <<>>
    BY <2>2, DistinctSelects DEF Selects
  <2> QED BY <2>1, <2>3 DEF Seen
<1>2. IInv /\ [Next]_vars => [List!Next]_(Seen(rows))
  <2> SUFFICES ASSUME IInv, [Next]_vars PROVE List!Next \/ Seen(rows') = Seen(rows)
    BY DEF Seen
  <2>1. CASE Execute
    BY <2>1, ExecuteKeepsList
  <2>2. CASE ~Execute
    <3>1. rows' = rows
      BY <2>2 DEF vars, Next, Scan, Construct, Look, FinishNew, FinishChanged, FinishSame, Measure, Duratin,
                  PushSong, Restart
    <3> QED BY <3>1
  <2> QED BY <2>1, <2>2
<1> QED
  BY <1>1, <1>2, InductiveInvariant, PTL DEF Spec, KeepsList, List!Spec

\* Of which it follows that playlist and client are never shown a path twice,
\* although the rows repeat it (db.cpp:16, 241).
THEOREM NoPathTwice == Spec => [](\A i, j \in DOMAIN Seen(rows) : Seen(rows)[i] = Seen(rows)[j] => i = j)
<1> DEFINE Once(l) == \A i, j \in DOMAIN l : l[i] = l[j] => i = j
           Inv == Seen(rows) \in Seq(Tracks) /\ Once(Seen(rows))
<1>1. List!Init => Inv
  BY DEF List!Init
<1>2. Inv /\ [List!Next]_(Seen(rows)) => Inv'
  <2> SUFFICES ASSUME Inv, [List!Next]_(Seen(rows)) PROVE Inv'
    OBVIOUS
  <2> DEFINE l == Seen(rows)
             m == Seen(rows')
  <2>1. l \in Seq(Tracks) /\ Once(l)
    OBVIOUS
  <2>2. m = l \/ \E t \in Tracks : ~List!In(l, t) /\ m = Append(l, t)
    BY DEF List!Next, List!Add
  <2> HIDE DEF l, m
  <2>3. ASSUME NEW t \in Tracks, ~List!In(l, t), m = Append(l, t) PROVE m \in Seq(Tracks) /\ Once(m)
    <3>1. \A i \in DOMAIN l : l[i] # t
      BY <2>3 DEF List!In
    <3> QED BY <2>1, <2>3, <3>1
  <2>4. m \in Seq(Tracks) /\ Once(m)
    BY <2>1, <2>2, <2>3
  <2> QED BY <2>4 DEF m
<1>3. Inv => Once(Seen(rows))
  OBVIOUS
<1> HIDE DEF Inv
<1> QED
  BY <1>1, <1>2, <1>3, CatalogKeepsList, PTL DEF KeepsList, List!Spec

=============================================================================
