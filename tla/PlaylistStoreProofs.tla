------------------------ MODULE PlaylistStoreProofs ------------------------
(***************************************************************************)
(* What module PlaylistStore promises, for any paths, any length of the    *)
(* list and the queue, and any lists that are inserted.                    *)
(***************************************************************************)
EXTENDS PlaylistStore, SequenceTheorems, WellFoundedInduction, TLAPS

\* As long as no statement is refused the queue leads from the table to the one that
\* was asked for last, and only over tables that were asked for or hold nothing.
StoreInv ==
  ~refused =>
    /\ InTheEnd = goal
    /\ \A n \in 0..Len(pending) :
         Drained(table, pending)[n] \in asked \cup {NoTable, Holding({})}

\* The file reads back as the tracks exported so far, all or all but the first.
\* The first is lost only to the header, which the line of its tags spares it.
ExportInv ==
  LET l == exported.list
      i == export.i
  IN IF export = NoExport THEN ExportReadsBack
     ELSE /\ ~exported.done /\ l = tracks
          /\ i \in 1..Len(l) \/ (export.at = "track" /\ i = Len(l) + 1)
          /\ lines = <<>> => i = 1
          /\ exported.known => l # <<>> /\ l[1] \in catalog
          /\ exported.known /\ export.at = "path" => lines # <<>>
          /\ \/ Existing(lines) = Kept(l)[i - 1]
             \/ i > 1 /\ ~exported.known /\ Existing(lines) = Kept(Tail(l))[i - 2]

IInv == TypeOK /\ StoreInv /\ ExportInv

-----------------------------------------------------------------------------
(* Induction and recursion *)

\* A set that holds 0 and with every number the next one holds all up to N.
LEMMA Induction ==
  ASSUME NEW N \in Nat, NEW S, 0 \in S, \A n \in 1..N : n - 1 \in S => n \in S
  PROVE  0..N \subseteq S
<1> DEFINE Less == {ss \in Nat \X Nat : ss[1] < ss[2]}
           T == (0..N) \ S
<1>1. IsWellFoundedOn(Less, Nat)
  BY NatLessThanWellFounded DEF OpToRel
<1> SUFFICES ASSUME T # {} PROVE FALSE
  OBVIOUS
<1>2. PICK i \in T : \A j \in T : <<j, i>> \notin Less
  <2>1. T \in SUBSET Nat
    OBVIOUS
  <2> HIDE DEF Less, T
  <2> QED BY <1>1, <2>1, WFMin
<1>3. i \in 1..N
  BY <1>2
<1>4. <<i - 1, i>> \in Less
  BY <1>3
<1>5. i - 1 \notin T
  BY <1>2, <1>4
<1> QED
  BY <1>2, <1>3, <1>5

\* What a recursion computes exists.
Steps(N, D) == [(1..N) \X D -> D]
Solves(h, N, D, d, step) ==
  h \in [0..N -> D] /\ h[0] = d /\ \A n \in 1..N : h[n] = step[<<n, h[n - 1]>>]

LEMMA Recursion ==
  ASSUME NEW N \in Nat, NEW D, NEW d \in D, NEW step \in Steps(N, D)
  PROVE  \E h : Solves(h, N, D, d, step)
<1> DEFINE S == {m \in 0..N : \E h : Solves(h, m, D, d, step)}
<1> USE DEF Steps
<1>1. 0 \in S
  <2> DEFINE h == [n \in 0..0 |-> d]
  <2>1. Solves(h, 0, D, d, step) /\ 0 \in 0..N
    BY DEF Solves
  <2> HIDE DEF h
  <2> QED BY <2>1
<1>2. ASSUME NEW m \in 1..N, m - 1 \in S PROVE m \in S
  <2>1. PICK h : Solves(h, m - 1, D, d, step)
    BY <1>2
  <2> DEFINE g == [n \in 0..m |-> IF n = m THEN step[<<m, h[m - 1]>>] ELSE h[n]]
  <2>2. m - 1 \in 0..(m - 1) /\ h[m - 1] \in D /\ <<m, h[m - 1]>> \in (1..N) \X D
    BY <2>1 DEF Solves
  <2>3. g \in [0..m -> D]
    BY <2>1, <2>2 DEF Solves
  <2>4. g[m] = step[<<m, h[m - 1]>>] /\ \A n \in 0..(m - 1) : g[n] = h[n]
    OBVIOUS
  <2> HIDE DEF g
  <2>5. g[0] = d
    BY <2>1, <2>4 DEF Solves
  <2>6. g[m] = step[<<m, g[m - 1]>>]
    BY <2>2, <2>4
  <2>7. ASSUME NEW n \in 1..(m - 1) PROVE g[n] = step[<<n, g[n - 1]>>]
    <3>1. n - 1 \in 0..(m - 1) /\ n \in 0..(m - 1)
      OBVIOUS
    <3> QED BY <2>1, <2>4, <3>1 DEF Solves
  <2>8. Solves(g, m, D, d, step)
    BY <2>3, <2>5, <2>6, <2>7 DEF Solves
  <2> QED BY <2>8
<1>3. N \in S
  <2> HIDE DEF S
  <2>1. 0..N \subseteq S
    BY <1>1, <1>2, Induction
  <2> QED BY <2>1
<1> QED
  BY <1>3

\* Kept takes the paths of files, one line after the other.
LEMMA KeptSteps ==
  ASSUME NEW D, NEW l \in Seq(D)
  PROVE  /\ Kept(l) \in [0..Len(l) -> Seq(Files)] /\ Kept(l)[0] = <<>>
         /\ \A n \in 1..Len(l) :
              Kept(l)[n] = IF l[n] \in Files THEN Append(Kept(l)[n - 1], l[n]) ELSE Kept(l)[n - 1]
<1> DEFINE Line(n, s) == IF l[n] \in Files THEN Append(s, l[n]) ELSE s
           step == [p \in (1..Len(l)) \X Seq(Files) |-> Line(p[1], p[2])]
<1>1. step \in [(1..Len(l)) \X Seq(Files) -> Seq(Files)]
  <2>1. \A p \in (1..Len(l)) \X Seq(Files) : Line(p[1], p[2]) \in Seq(Files)
    OBVIOUS
  <2> QED BY <2>1
<1>2. Len(l) \in Nat /\ <<>> \in Seq(Files)
  OBVIOUS
<1>3. PICK h \in [0..Len(l) -> Seq(Files)] :
        h[0] = <<>> /\ \A n \in 1..Len(l) : h[n] = step[<<n, h[n - 1]>>]
  <2> DEFINE N == Len(l)
             All == Seq(Files)
             none == <<>>
  <2>1. N \in Nat /\ none \in All /\ step \in Steps(N, All)
    BY <1>1, <1>2 DEF Steps
  <2>2. \E h : Solves(h, N, All, none, step)
    <3> HIDE DEF step, N, All, none
    <3> QED BY <2>1, Recursion
  <2> QED BY <2>2 DEF Solves
<1>4. \A n \in 1..Len(l) : h[n] = Line(n, h[n - 1])
  <2> SUFFICES ASSUME NEW n \in 1..Len(l) PROVE h[n] = Line(n, h[n - 1])
    OBVIOUS
  <2>1. n - 1 \in 0..Len(l)
    BY <1>2
  <2>2. <<n, h[n - 1]>> \in (1..Len(l)) \X Seq(Files)
    BY <2>1
  <2>3. step[<<n, h[n - 1]>>] = Line(n, h[n - 1])
    BY <2>2
  <2> QED BY <1>3, <2>3
<1>5. h = [n \in 0..Len(l) |-> IF n = 0 THEN <<>> ELSE Line(n, h[n - 1])]
  <2> HIDE DEF Line
  <2> QED BY <1>3, <1>4
<1>6. Kept(l) = [n \in 0..Len(l) |-> IF n = 0 THEN <<>> ELSE Line(n, Kept(l)[n - 1])]
  BY <1>5 DEF Kept
<1> HIDE DEF Line, step
<1>7. \A n \in 0..Len(l) : Kept(l)[n] = h[n]
  <2> DEFINE S == {n \in 0..Len(l) : Kept(l)[n] = h[n]}
  <2>1. 0 \in S
    BY <1>3, <1>6
  <2>2. ASSUME NEW n \in 1..Len(l), n - 1 \in S PROVE n \in S
    BY <1>4, <1>6, <2>2
  <2> HIDE DEF S
  <2>3. 0..Len(l) \subseteq S
    BY <1>2, <2>1, <2>2, Induction
  <2> QED BY <2>3 DEF S
<1>8. Kept(l) = h
  BY <1>6, <1>7
<1> QED
  BY <1>3, <1>4, <1>8 DEF Line

\* Lists that begin alike are kept alike.
LEMMA KeptAlike ==
  ASSUME NEW D, NEW l \in Seq(D), NEW m \in Seq(D), NEW k \in Nat,
         k <= Len(l), k <= Len(m), \A i \in 1..k : l[i] = m[i]
  PROVE  \A n \in 0..k : Kept(l)[n] = Kept(m)[n]
<1> DEFINE S == {n \in 0..k : Kept(l)[n] = Kept(m)[n]}
<1>1. 0 \in S
  BY KeptSteps
<1>2. ASSUME NEW n \in 1..k, n - 1 \in S PROVE n \in S
  <2>1. n \in 1..Len(l) /\ n \in 1..Len(m) /\ l[n] = m[n] /\ Kept(l)[n - 1] = Kept(m)[n - 1]
    BY <1>2
  <2> QED BY <2>1, KeptSteps
<1> HIDE DEF S
<1>3. 0..k \subseteq S
  BY <1>1, <1>2, Induction
<1> QED
  BY <1>3 DEF S

\* One more line adds one path, if it names a file.
LEMMA ExistingAppend ==
  ASSUME NEW D, NEW l \in Seq(D), NEW x \in D
  PROVE  /\ Existing(Append(l, x)) = IF x \in Files THEN Append(Existing(l), x) ELSE Existing(l)
         /\ Existing(<<>>) = <<>> /\ Existing(l) \in Seq(Files)
<1>1. Append(l, x) \in Seq(D) /\ Len(Append(l, x)) = Len(l) + 1 /\ Append(l, x)[Len(l) + 1] = x
      /\ Len(l) \in Nat /\ \A i \in 1..Len(l) : l[i] = Append(l, x)[i]
  OBVIOUS
<1>2. Kept(l)[Len(l)] = Kept(Append(l, x))[Len(l)]
  <2> DEFINE m == Append(l, x)
             k == Len(l)
  <2>1. m \in Seq(D) /\ k \in Nat /\ k <= Len(l) /\ k <= Len(m) /\ k \in 0..k /\ \A i \in 1..k : l[i] = m[i]
    BY <1>1
  <2>2. \A n \in 0..k : Kept(l)[n] = Kept(m)[n]
    <3> HIDE DEF m, k
    <3> QED BY <2>1, KeptAlike
  <2> QED BY <2>1, <2>2
<1>3. Kept(Append(l, x))[Len(l) + 1] =
        IF x \in Files THEN Append(Kept(Append(l, x))[Len(l)], x) ELSE Kept(Append(l, x))[Len(l)]
  <2>1. Len(l) + 1 \in 1..Len(Append(l, x)) /\ (Len(l) + 1) - 1 = Len(l)
    BY <1>1
  <2> QED BY <1>1, <2>1, KeptSteps
<1>4. <<>> \in Seq(D) /\ Kept(<<>>)[0] = <<>>
  BY KeptSteps
<1>5. Kept(l)[Len(l)] \in Seq(Files)
  BY <1>1, KeptSteps
<1> QED
  BY <1>1, <1>2, <1>3, <1>4, <1>5 DEF Existing

\* The paths kept so far are the beginning of those kept in the end.
LEMMA KeptGrows ==
  ASSUME NEW D, NEW l \in Seq(D), NEW k \in 0..Len(l)
  PROVE  IsPrefix(Kept(l)[k], Existing(l))
<1> DEFINE S == {d \in 0..(Len(l) - k) : IsPrefix(Kept(l)[k], Kept(l)[k + d])}
<1>1. \A n \in 0..Len(l) : Kept(l)[n] \in Seq(Files)
  BY KeptSteps
<1>2. 0 \in S
  BY <1>1 DEF IsPrefix
<1>3. ASSUME NEW d \in 1..(Len(l) - k), d - 1 \in S PROVE d \in S
  <2> DEFINE s == Kept(l)[k]
             t == Kept(l)[k + (d - 1)]
  <2>1. k + d \in 1..Len(l) /\ (k + d) - 1 = k + (d - 1) /\ k + (d - 1) \in 0..Len(l)
    OBVIOUS
  <2>2. Kept(l)[k + d] = IF l[k + d] \in Files THEN Append(t, l[k + d]) ELSE t
    BY <2>1, KeptSteps
  <2>3. s \in Seq(Files) /\ t \in Seq(Files) /\ IsPrefix(s, t)
    BY <1>1, <1>3, <2>1
  <2> HIDE DEF s, t
  <2>4. ASSUME NEW x \in Files PROVE IsPrefix(s, Append(t, x))
    BY <2>3 DEF IsPrefix
  <2>5. IsPrefix(s, Kept(l)[k + d])
    BY <2>2, <2>3, <2>4
  <2> QED BY <2>5 DEF s
<1> HIDE DEF S
<1>4. Len(l) - k \in Nat /\ Len(l) - k \in 0..(Len(l) - k) /\ k + (Len(l) - k) = Len(l)
  OBVIOUS
<1>5. 0..(Len(l) - k) \subseteq S
  BY <1>2, <1>3, <1>4, Induction
<1>6. Len(l) - k \in S
  BY <1>4, <1>5
<1> QED
  BY <1>4, <1>6 DEF S, Existing

-----------------------------------------------------------------------------
(* The table *)

\* What a statement does to a table that exists, and to one that does not.
LEMMA ChangedTable ==
  ASSUME NEW tb \in Table
  PROVE  /\ Changed(tb, Drop) = NoTable
         /\ Changed(tb, Create) = Holding(tb.rows)
         /\ \A S \in SUBSET Tracks :
              Changed(tb, Replace(S)) = IF tb.exists THEN Holding(tb.rows \cup S) ELSE NoTable
         /\ \A t \in Tracks :
              Changed(tb, Delete(t)) = IF tb.exists THEN Holding(tb.rows \ {t}) ELSE NoTable
         /\ \A t \in Tracks : Changed(tb, Insert(t)) = tb
         /\ tb.rows \in SUBSET Tracks /\ tb.exists \in BOOLEAN
         /\ tb = IF tb.exists THEN Holding(tb.rows) ELSE NoTable
<1>1. PICK S \in SUBSET Tracks : (tb = NoTable /\ S = {}) \/ tb = Holding(S)
  BY DEF Table
<1>2. CASE tb = NoTable
  <2>1. tb.exists = FALSE /\ tb.rows = {}
    BY <1>2 DEF NoTable
  <2> QED
    BY <1>2, <2>1 DEF Changed, Create, Drop, Replace, Delete, Insert, NoTable, Holding
<1>3. CASE tb = Holding(S)
  <2>1. tb.exists = TRUE /\ tb.rows = S
    BY <1>3 DEF Holding
  <2>2. Changed(tb, Drop) = NoTable /\ Changed(tb, Create) = Holding(S)
    BY <1>3, <2>1 DEF Changed, Create, Drop, Holding
  <2>3. ASSUME NEW R \in SUBSET Tracks PROVE Changed(tb, Replace(R)) = Holding(S \cup R)
    BY <1>3, <2>1 DEF Changed, Replace, Holding
  <2>4. ASSUME NEW t \in Tracks
        PROVE  Changed(tb, Delete(t)) = Holding(S \ {t}) /\ Changed(tb, Insert(t)) = tb
    BY <1>3, <2>1 DEF Changed, Delete, Insert, Holding
  <2> QED
    BY <1>3, <2>1, <2>2, <2>3, <2>4
<1> QED
  BY <1>1, <1>2, <1>3

LEMMA ChangedIsTable ==
  ASSUME NEW tb \in Table, NEW s \in Statements
  PROVE  Changed(tb, s) \in Table
<1>1. NoTable \in Table /\ \A S \in SUBSET Tracks : Holding(S) \in Table
  BY DEF Table
<1>2. tb.rows \in SUBSET Tracks
  BY ChangedTable
<1>3. CASE s \in {Create, Drop}
  BY <1>1, <1>2, <1>3, ChangedTable
<1>4. ASSUME NEW S \in SUBSET Tracks, s = Replace(S) PROVE Changed(tb, s) \in Table
  <2>1. tb.rows \cup S \in SUBSET Tracks
    BY <1>2
  <2> QED
    BY <1>1, <1>4, <2>1, ChangedTable
<1>5. ASSUME NEW t \in Tracks, s = Delete(t) \/ s = Insert(t) PROVE Changed(tb, s) \in Table
  <2>1. Holding(tb.rows \ {t}) \in Table
    BY <1>1, <1>2
  <2> QED
    BY <1>1, <1>5, <2>1, ChangedTable
<1> QED
  BY <1>3, <1>4, <1>5 DEF Statements

\* Drained executes the statements one after the other.
LEMMA DrainedSteps ==
  ASSUME NEW tb \in Table, NEW q \in Seq(Statements)
  PROVE  /\ Drained(tb, q) \in [0..Len(q) -> Table] /\ Drained(tb, q)[0] = tb
         /\ \A n \in 1..Len(q) : Drained(tb, q)[n] = Changed(Drained(tb, q)[n - 1], q[n])
<1> DEFINE N == Len(q)
           step == [p \in (1..N) \X Table |-> Changed(p[2], q[p[1]])]
<1>1. N \in Nat /\ \A n \in 1..N : q[n] \in Statements /\ n - 1 \in 0..N
  OBVIOUS
<1>2. step \in Steps(N, Table)
  <2>1. \A p \in (1..N) \X Table : Changed(p[2], q[p[1]]) \in Table
    <3> HIDE DEF N
    <3> QED BY <1>1, ChangedIsTable
  <2> QED BY <2>1 DEF Steps
<1>3. PICK h \in [0..N -> Table] : h[0] = tb /\ \A n \in 1..N : h[n] = step[<<n, h[n - 1]>>]
  <2> HIDE DEF step, N
  <2>1. \E h : Solves(h, N, Table, tb, step)
    BY <1>1, <1>2, Recursion
  <2> QED BY <2>1 DEF Solves
<1> HIDE DEF N
<1>4. \A n \in 1..N : h[n] = Changed(h[n - 1], q[n])
  <2> SUFFICES ASSUME NEW n \in 1..N PROVE h[n] = Changed(h[n - 1], q[n])
    OBVIOUS
  <2>1. <<n, h[n - 1]>> \in (1..N) \X Table
    BY <1>1
  <2>2. step[<<n, h[n - 1]>>] = Changed(h[n - 1], q[n])
    BY <2>1
  <2> QED BY <1>3, <2>2
<1> HIDE DEF step
<1>5. h = [n \in 0..N |-> IF n = 0 THEN tb ELSE Changed(h[n - 1], q[n])]
  BY <1>1, <1>3, <1>4
<1>6. Drained(tb, q) = [n \in 0..N |-> IF n = 0 THEN tb ELSE Changed(Drained(tb, q)[n - 1], q[n])]
  BY <1>5 DEF Drained, N
<1>7. \A n \in 0..N : Drained(tb, q)[n] = h[n]
  <2> DEFINE S == {n \in 0..N : Drained(tb, q)[n] = h[n]}
  <2>1. 0 \in S
    BY <1>1, <1>3, <1>6
  <2>2. ASSUME NEW n \in 1..N, n - 1 \in S PROVE n \in S
    BY <1>1, <1>4, <1>6, <2>2
  <2> HIDE DEF S
  <2>3. 0..N \subseteq S
    BY <1>1, <2>1, <2>2, Induction
  <2> QED BY <2>3 DEF S
<1>8. Drained(tb, q) = h
  BY <1>6, <1>7
<1> QED
  BY <1>3, <1>4, <1>8 DEF N

\* A queue within another one, behind its first d statements, leads over the same
\* tables from there.
Within(r, q, d) == d + Len(r) <= Len(q) /\ \A i \in 1..Len(r) : q[i + d] = r[i]

LEMMA DrainedWithin ==
  ASSUME NEW tb \in Table, NEW q \in Seq(Statements), NEW r \in Seq(Statements), NEW d \in Nat,
         Within(r, q, d)
  PROVE  \A n \in 0..Len(r) : Drained(tb, q)[n + d] = Drained(Drained(tb, q)[d], r)[n]
<1> DEFINE base == Drained(tb, q)[d]
           S == {n \in 0..Len(r) : Drained(tb, q)[n + d] = Drained(base, r)[n]}
<1> USE DEF Within
<1>1. base \in Table
  <2>1. d \in 0..Len(q)
    OBVIOUS
  <2> QED BY <2>1, DrainedSteps
<1> HIDE DEF base
<1>2. 0 \in S
  BY <1>1, DrainedSteps DEF base
<1>3. ASSUME NEW n \in 1..Len(r), n - 1 \in S PROVE n \in S
  <2>1. n \in 1..Len(r) /\ n + d \in 1..Len(q) /\ q[n + d] = r[n] /\ (n - 1) + d = (n + d) - 1
    OBVIOUS
  <2>2. Drained(tb, q)[(n + d) - 1] = Drained(base, r)[n - 1]
    BY <1>3, <2>1
  <2>3. Drained(tb, q)[n + d] = Changed(Drained(tb, q)[(n + d) - 1], q[n + d])
    BY <2>1, DrainedSteps
  <2>4. Drained(base, r)[n] = Changed(Drained(base, r)[n - 1], r[n])
    BY <1>1, <2>1, DrainedSteps
  <2> QED BY <2>1, <2>2, <2>3, <2>4
<1> HIDE DEF S
<1>4. Len(r) \in Nat
  OBVIOUS
<1>5. 0..Len(r) \subseteq S
  BY <1>2, <1>3, <1>4, Induction
<1> QED
  BY <1>5 DEF S, base

\* The tables on the way through two queues, one behind the other.
LEMMA DrainedConcat ==
  ASSUME NEW tb \in Table, NEW p \in Seq(Statements), NEW q \in Seq(Statements)
  PROVE  /\ p \o q \in Seq(Statements) /\ Len(p \o q) = Len(p) + Len(q)
         /\ \A n \in 0..Len(p) : Drained(tb, p \o q)[n] = Drained(tb, p)[n]
         /\ \A n \in 0..Len(q) : Drained(tb, p \o q)[n + Len(p)] = Drained(Drained(tb, p)[Len(p)], q)[n]
<1> DEFINE pq == p \o q
           k == Len(p)
           m == Len(q)
<1>1. /\ pq \in Seq(Statements) /\ Len(pq) = k + m /\ k \in Nat /\ m \in Nat /\ 0 \in Nat
      /\ Within(p, pq, 0) /\ Within(q, pq, k)
  <2>1. /\ pq \in Seq(Statements) /\ Len(pq) = k + m /\ k \in Nat /\ m \in Nat
        /\ \A i \in 1..k : pq[i] = p[i] /\ i + 0 = i
        /\ \A i \in 1..m : pq[i + k] = q[i]
    OBVIOUS
  <2> HIDE DEF pq
  <2> QED BY <2>1 DEF Within
<1> HIDE DEF pq
<1>2. Drained(tb, pq)[0] = tb
  BY <1>1, DrainedSteps
<1>3. \A n \in 0..k : Drained(tb, pq)[n + 0] = Drained(Drained(tb, pq)[0], p)[n]
  BY <1>1, DrainedWithin
<1>4. \A n \in 0..k : n + 0 = n
  BY <1>1
<1>5. \A n \in 0..k : Drained(tb, pq)[n] = Drained(tb, p)[n]
  BY <1>2, <1>3, <1>4
<1>6. \A n \in 0..m : Drained(tb, pq)[n + k] = Drained(Drained(tb, pq)[k], q)[n]
  BY <1>1, DrainedWithin
<1>7. Drained(tb, pq)[k] = Drained(tb, p)[k]
  BY <1>1, <1>5
<1> QED
  BY <1>1, <1>5, <1>6, <1>7 DEF pq

\* The statements q lead from table g to tb, over nothing else than an empty table
\* or none.
Leads(q, g, tb) ==
  /\ Drained(g, q)[Len(q)] = tb
  /\ \A n \in 0..Len(q) : Drained(g, q)[n] \in {g, tb, NoTable, Holding({})}

\* A call whose statements lead from the table asked for before, or from any, to
\* the one it asks for.
LEMMA CallKeepsStoreInv ==
  ASSUME TypeOK, StoreInv, NEW q \in Seq(Statements), NEW tb, NEW save \in BOOLEAN,
         Call(q, tb, save), table' = table,
         \A g \in Table : save \/ g = goal => Leads(q, g, tb)
  PROVE  StoreInv'
<1> SUFFICES ASSUME ~refused'
             PROVE  /\ Drained(table, pending')[Len(pending')] = goal'
                    /\ \A n \in 0..Len(pending') :
                         Drained(table, pending')[n] \in asked' \cup {NoTable, Holding({})}
  BY DEF StoreInv, InTheEnd
<1> DEFINE base == Drained(table, pending)[Len(pending)]
           k == Len(pending)
<1>1. /\ table \in Table /\ pending \in Seq(Statements) /\ k \in Nat /\ Len(q) \in Nat
      /\ pending' = pending \o q /\ goal' = tb
      /\ ~refused \/ (save /\ pending = <<>>)
      /\ asked' = IF pending = <<>> THEN {table, tb} ELSE asked \cup {tb}
  BY DEF TypeOK, Call
<1>2. /\ Len(pending') = k + Len(q)
      /\ \A n \in 0..k : Drained(table, pending')[n] = Drained(table, pending)[n]
      /\ \A n \in 0..Len(q) : Drained(table, pending')[n + k] = Drained(base, q)[n]
  BY <1>1, DrainedConcat
<1>3. base \in Table /\ k \in 0..k /\ Drained(table, pending)[0] = table
  BY <1>1, DrainedSteps
<1>4. pending = <<>> => k = 0 /\ base = table
  BY <1>1, <1>3
<1>5. ~refused => base = goal /\ \A n \in 0..k : Drained(table, pending)[n] \in asked \cup {NoTable, Holding({})}
  BY DEF StoreInv, InTheEnd
<1> HIDE DEF base, k
<1>6. /\ Drained(base, q)[Len(q)] = tb
      /\ \A n \in 0..Len(q) : Drained(base, q)[n] \in {base, tb, NoTable, Holding({})}
  BY <1>1, <1>3, <1>5 DEF Leads
<1>7. Drained(table, pending')[Len(pending')] = goal'
  <2>1. Len(q) \in 0..Len(q) /\ Len(pending') = Len(q) + k
    BY <1>1, <1>2
  <2> QED BY <1>1, <1>2, <1>6, <2>1
<1>8. ASSUME NEW n \in 0..k
      PROVE  Drained(table, pending)[n] \in asked' \cup {NoTable, Holding({})}
  BY <1>1, <1>3, <1>4, <1>5
<1>9. base \in asked' \cup {NoTable, Holding({})}
  BY <1>3, <1>8 DEF base, k
<1>10. ASSUME NEW n \in 0..Len(pending')
       PROVE  Drained(table, pending')[n] \in asked' \cup {NoTable, Holding({})}
  <2>1. CASE n <= k
    BY <1>1, <1>2, <1>8, <2>1
  <2>2. CASE n > k
    <3>1. n - k \in 0..Len(q) /\ (n - k) + k = n
      BY <1>1, <1>2, <2>2
    <3>2. Drained(table, pending')[n] = Drained(base, q)[n - k]
      BY <1>2, <3>1
    <3>3. Drained(base, q)[n - k] \in {base, tb, NoTable, Holding({})} /\ tb \in asked'
      BY <1>1, <1>6, <3>1
    <3> QED BY <1>9, <3>2, <3>3
  <2> QED BY <1>1, <1>2, <2>1, <2>2
<1> QED
  BY <1>7, <1>10

\* What the queues of up to three statements lead to.
LEMMA ShortQueues ==
  ASSUME NEW g \in Table, NEW q \in Seq(Statements)
  PROVE  /\ Len(q) = 0 => Leads(q, g, g)
         /\ Len(q) = 1 => Leads(q, g, Changed(g, q[1]))
         /\ Len(q) = 2 /\ Changed(g, q[1]) \in {g, NoTable, Holding({})} =>
              Leads(q, g, Changed(Changed(g, q[1]), q[2]))
         /\ Len(q) = 3 /\ Changed(g, q[1]) \in {g, NoTable, Holding({})}
              /\ Changed(Changed(g, q[1]), q[2]) \in {g, NoTable, Holding({})} =>
              Leads(q, g, Changed(Changed(Changed(g, q[1]), q[2]), q[3]))
<1> DEFINE h == Drained(g, q)
<1>1. h[0] = g /\ \A n \in 1..Len(q) : h[n] = Changed(h[n - 1], q[n])
  BY DrainedSteps
<1> HIDE DEF h
<1>2. /\ Len(q) \in Nat
      /\ Len(q) >= 1 => h[1] = Changed(g, q[1])
  BY <1>1
<1>3. Len(q) >= 2 => h[2] = Changed(Changed(g, q[1]), q[2])
  BY <1>1, <1>2
<1>4. Len(q) >= 3 => h[3] = Changed(Changed(Changed(g, q[1]), q[2]), q[3])
  BY <1>1, <1>3
<1>5. /\ \A n \in 0..0 : n = 0
      /\ \A n \in 0..1 : n = 0 \/ n = 1
      /\ \A n \in 0..2 : n = 0 \/ n = 1 \/ n = 2
      /\ \A n \in 0..3 : n = 0 \/ n = 1 \/ n = 2 \/ n = 3
  OBVIOUS
<1>6. CASE Len(q) = 0
  BY <1>1, <1>5, <1>6 DEF Leads, h
<1>7. CASE Len(q) = 1
  BY <1>1, <1>2, <1>5, <1>7 DEF Leads, h
<1>8. CASE Len(q) = 2
  BY <1>1, <1>2, <1>3, <1>5, <1>8 DEF Leads, h
<1>9. CASE Len(q) = 3
  BY <1>1, <1>2, <1>3, <1>4, <1>5, <1>9 DEF Leads, h
<1> QED
  BY <1>6, <1>7, <1>8, <1>9

\* add_to_playlist adds the list to the rows, in one statement.
LEMMA AddLeads ==
  ASSUME NEW g \in Table, NEW l \in Seq(Tracks)
  PROVE  /\ AddToPlaylist(l) \in Seq(Statements)
         /\ l = <<>> => Leads(AddToPlaylist(l), g, g)
         /\ l # <<>> => /\ Holding(g.rows \cup ToSet(l)) \in Table
                        /\ Leads(AddToPlaylist(l), g, Holding(g.rows \cup ToSet(l)))
<1> DEFINE q == AddToPlaylist(l)
           S == ToSet(l)
           h == Changed(g, Create)
<1>1. CASE l = <<>>
  <2>1. q \in Seq(Statements) /\ Len(q) = 0
    BY <1>1 DEF AddToPlaylist
  <2> HIDE DEF q
  <2>2. Leads(q, g, g)
    BY <2>1, ShortQueues
  <2> QED
    BY <1>1, <2>1, <2>2 DEF q
<1>2. CASE l # <<>>
  <2>1. S \in SUBSET Tracks
    BY DEF ToSet
  <2>2. Create \in Statements /\ Replace(S) \in Statements
    BY <2>1 DEF Statements
  <2>3. q = <<Create, Replace(S)>>
    BY <1>2 DEF AddToPlaylist
  <2> HIDE DEF S, q
  <2>4. q \in Seq(Statements) /\ Len(q) = 2 /\ q[1] = Create /\ q[2] = Replace(S)
    BY <2>2, <2>3
  <2>5. h = Holding(g.rows) /\ g.rows \in SUBSET Tracks
    BY ChangedTable
  <2>6. h = g \/ h = Holding({})
    <3>1. CASE g.exists
      BY <2>5, <3>1, ChangedTable
    <3>2. CASE ~g.exists
      <4>1. g = NoTable /\ NoTable.rows = {}
        BY <3>2, ChangedTable DEF NoTable
      <4> QED BY <2>5, <4>1
    <3> QED BY <3>1, <3>2
  <2>7. h \in Table /\ h.exists /\ h.rows = g.rows
    <3>1. Holding(g.rows) \in Table
      BY <2>5 DEF Table
    <3>2. Holding(g.rows).exists /\ Holding(g.rows).rows = g.rows
      BY DEF Holding
    <3> HIDE DEF h
    <3> QED BY <2>5, <3>1, <3>2
  <2>8. Holding(g.rows \cup S) \in Table
    <3>1. g.rows \cup S \in SUBSET Tracks
      BY <2>1, <2>5
    <3> QED BY <3>1 DEF Table
  <2>9. Changed(h, Replace(S)) = Holding(g.rows \cup S)
    <3> HIDE DEF h
    <3> QED BY <2>1, <2>7, ChangedTable
  <2>10. Leads(q, g, Holding(g.rows \cup S))
    BY <2>4, <2>6, <2>9, ShortQueues
  <2> QED
    BY <1>2, <2>4, <2>8, <2>10 DEF S, q
<1> QED
  BY <1>1, <1>2

\* The statements of a save lead to the list from any table.
LEMMA SaveLeads ==
  ASSUME NEW g \in Table, NEW l \in Seq(Tracks)
  PROVE  /\ Saved(l) \in Seq(Statements)
         /\ l = <<>> => NoTable \in Table /\ Leads(Saved(l), g, NoTable)
         /\ l # <<>> => Holding(ToSet(l)) \in Table /\ Leads(Saved(l), g, Holding(ToSet(l)))
<1> DEFINE q == Saved(l)
           S == ToSet(l)
<1>1. NoTable \in Table /\ Drop \in Statements /\ Create \in Statements /\ Changed(g, Drop) = NoTable
  BY ChangedTable DEF Table, Statements
<1>2. CASE l = <<>>
  <2>1. q = <<Drop>>
    BY <1>2 DEF Saved, AddToPlaylist
  <2> HIDE DEF q
  <2>2. q \in Seq(Statements) /\ Len(q) = 1 /\ q[1] = Drop
    BY <1>1, <2>1
  <2>3. Leads(q, g, NoTable)
    BY <1>1, <2>2, ShortQueues
  <2> QED
    BY <1>1, <1>2, <2>2, <2>3 DEF q
<1>3. CASE l # <<>>
  <2>1. S \in SUBSET Tracks
    BY DEF ToSet
  <2>2. Replace(S) \in Statements
    BY <2>1 DEF Statements
  <2> HIDE DEF S
  <2> DEFINE one == <<Drop>>
             add == <<Create, Replace(S)>>
  <2>3. q = one \o add
    BY <1>3 DEF Saved, AddToPlaylist, S
  <2>4. q \in Seq(Statements) /\ Len(q) = 3 /\ q[1] = Drop /\ q[2] = Create /\ q[3] = Replace(S)
    <3>1. one \in Seq(Statements) /\ Len(one) = 1 /\ one[1] = Drop
      BY <1>1
    <3>2. add \in Seq(Statements) /\ Len(add) = 2 /\ add[1] = Create /\ add[2] = Replace(S)
      BY <1>1, <2>2
    <3> HIDE DEF q, one, add
    <3>3. /\ q \in Seq(Statements) /\ Len(q) = Len(one) + Len(add)
          /\ \A i \in 1..Len(one) + Len(add) : q[i] = IF i <= Len(one) THEN one[i] ELSE add[i - Len(one)]
      BY <2>3, <3>1, <3>2, ConcatProperties
    <3>4. Len(q) = 3 /\ \A i \in 1..3 : q[i] = IF i <= 1 THEN one[i] ELSE add[i - 1]
      BY <3>1, <3>2, <3>3
    <3> QED BY <3>1, <3>2, <3>3, <3>4
  <2> HIDE DEF q
  <2>5. Changed(NoTable, Create) = Holding({})
    BY <1>1, ChangedTable DEF NoTable
  <2>6. Holding({}) \in Table /\ Holding({}).exists /\ Holding({}).rows \cup S = S /\ Holding(S) \in Table
    BY <2>1 DEF Table, Holding
  <2>7. Changed(Holding({}), Replace(S)) = Holding(S)
    BY <2>1, <2>6, ChangedTable
  <2>8. Leads(q, g, Holding(S))
    BY <1>1, <2>4, <2>5, <2>7, ShortQueues
  <2> QED
    BY <1>3, <2>4, <2>6, <2>8 DEF S, q
<1> QED
  BY <1>2, <1>3

-----------------------------------------------------------------------------
(* The list *)

\* What is inserted between two lists ends up between them.
LEMMA InsertBetween ==
  ASSUME NEW D, NEW x \in Seq(D), NEW y \in Seq(D), NEW e \in D
  PROVE  InsertAt(x \o y, Len(x) + 1, e) = Append(x, e) \o y
<1> DEFINE xy == x \o y
<1>1. SubSeq(xy, 1, (Len(x) + 1) - 1) = x
  OBVIOUS
<1>2. SubSeq(xy, Len(x) + 1, Len(xy)) = y
  OBVIOUS
<1>3. InsertAt(xy, Len(x) + 1, e) = x \o <<e>> \o y
  BY <1>1, <1>2 DEF InsertAt
<1>4. x \o <<e>> = Append(x, e)
  OBVIOUS
<1> QED
  BY <1>3, <1>4

LEMMA AppendBehind ==
  ASSUME NEW D, NEW x \in Seq(D), NEW y \in Seq(D), NEW e \in D
  PROVE  x \o (y \o <<e>>) = Append(x \o y, e)
<1>1. x \o (y \o <<e>>) \in Seq(D) /\ Append(x \o y, e) \in Seq(D)
  OBVIOUS
<1>2. Len(x \o (y \o <<e>>)) = Len(Append(x \o y, e))
  OBVIOUS
<1>3. \A i \in 1..Len(Append(x \o y, e)) : (x \o (y \o <<e>>))[i] = Append(x \o y, e)[i]
  OBVIOUS
<1> QED
  BY <1>1, <1>2, <1>3, SeqEqual

\* insert_after puts the paths, the last one first, behind the first `at` tracks.
LEMMA EmplacedBetween ==
  ASSUME NEW D, NEW l \in Seq(D), NEW at \in 0..Len(l), NEW paths \in Seq(D)
  PROVE  /\ Emplaced(l, at, paths) = SubSeq(l, 1, at) \o Reverse(paths) \o SubSeq(l, at + 1, Len(l))
         /\ Emplaced(l, at, paths) \in Seq(D)
<1> DEFINE N == Len(paths)
           r == Reverse(paths)
           front == SubSeq(l, 1, at)
           back == SubSeq(l, at + 1, Len(l))
           Round(n) == (front \o SubSeq(r, 1, n)) \o back
<1>1. N \in Nat /\ r \in Seq(D) /\ Len(r) = N /\ \A n \in 1..N : r[n] \in D
  BY DEF Reverse
<1>2. /\ front \in Seq(D) /\ back \in Seq(D) /\ Len(front) = at /\ at \in Nat
      /\ front \o back = l
  <2>1. /\ front \in Seq(D) /\ Len(front) = at /\ at \in Nat
        /\ \A i \in 1..at : front[i] = l[i]
    OBVIOUS
  <2>2. /\ back \in Seq(D) /\ Len(back) = Len(l) - at
        /\ \A i \in 1..(Len(l) - at) : back[i] = l[at + i]
    OBVIOUS
  <2> HIDE DEF front, back
  <2>3. /\ front \o back \in Seq(D) /\ Len(front \o back) = Len(l)
        /\ \A i \in 1..Len(l) : (front \o back)[i] = IF i <= at THEN front[i] ELSE back[i - at]
    BY <2>1, <2>2, ConcatProperties
  <2>4. ASSUME NEW i \in 1..Len(l) PROVE (front \o back)[i] = l[i]
    <3>1. CASE i <= at
      BY <2>1, <2>3, <3>1
    <3>2. CASE ~(i <= at)
      <4>1. i - at \in 1..(Len(l) - at) /\ at + (i - at) = i
        BY <3>2
      <4> QED BY <2>2, <2>3, <3>2, <4>1
    <3> QED BY <3>1, <3>2
  <2> QED
    BY <2>1, <2>2, <2>3, <2>4, SeqEqual
<1>3. SubSeq(r, 1, 0) = <<>> /\ SubSeq(r, 1, N) = r
  BY <1>1
<1> HIDE DEF N, r, front, back
<1>4. \A n \in 0..N : SubSeq(r, 1, n) \in Seq(D) /\ Len(SubSeq(r, 1, n)) = n
  BY <1>1
<1>5. Round(0) = l
  BY <1>2, <1>3
<1>6. ASSUME NEW n \in 1..N PROVE Round(n) = InsertAt(Round(n - 1), at + n, r[n])
  <2> DEFINE s == SubSeq(r, 1, n - 1)
             x == front \o s
  <2>1. s \in Seq(D) /\ Len(s) = n - 1 /\ r[n] \in D
    BY <1>1, <1>4
  <2>2. SubSeq(r, 1, n) = s \o <<r[n]>>
    <3>1. 1 \in 1..Len(r) /\ n \in 1..Len(r)
      BY <1>1
    <3> QED BY <1>1, <3>1, SubSeqRecursiveSecond
  <2> HIDE DEF s
  <2>3. x \in Seq(D) /\ Len(x) + 1 = at + n
    <3>1. x \in Seq(D) /\ Len(x) = Len(front) + Len(s)
      BY <1>2, <2>1, ConcatProperties
    <3> HIDE DEF x
    <3> QED BY <1>1, <1>2, <2>1, <3>1
  <2>4. front \o SubSeq(r, 1, n) = Append(x, r[n])
    <3>1. front \in Seq(D) /\ s \in Seq(D) /\ r[n] \in D
      BY <1>2, <2>1
    <3>2. front \o (s \o <<r[n]>>) = Append(front \o s, r[n])
      BY <3>1, AppendBehind
    <3> QED BY <2>2, <3>2
  <2> HIDE DEF x
  <2>5. InsertAt(x \o back, Len(x) + 1, r[n]) = Append(x, r[n]) \o back
    BY <1>2, <2>1, <2>3, InsertBetween
  <2> QED
    BY <2>3, <2>4, <2>5 DEF x, s
<1> DEFINE f == [n \in 0..N |-> Round(n)]
<1>7. f = [n \in 0..N |-> IF n = 0 THEN l ELSE InsertAt(f[n - 1], at + n, r[n])]
  <2> HIDE DEF Round
  <2>1. \A n \in 1..N : f[n - 1] = Round(n - 1)
    BY <1>1
  <2> QED
    BY <1>1, <1>5, <1>6, <2>1
<1> DEFINE g == Rounds(l, at, paths)
<1>8. g = [n \in 0..N |-> IF n = 0 THEN l ELSE InsertAt(g[n - 1], at + n, r[n])]
  <2> HIDE DEF f
  <2> QED BY <1>7 DEF Rounds, N, r
<1> HIDE DEF g, Round
<1>9. 0..N \subseteq {n \in 0..N : g[n] = f[n]}
  <2> DEFINE S == {n \in 0..N : g[n] = f[n]}
  <2>1. 0 \in S
    BY <1>1, <1>5, <1>8
  <2>2. ASSUME NEW n \in 1..N, n - 1 \in S PROVE n \in S
    BY <1>1, <1>7, <1>8, <2>2
  <2> HIDE DEF S
  <2>3. 0..N \subseteq S
    BY <1>1, <2>1, <2>2, Induction
  <2> QED BY <2>3 DEF S
<1>10. g[N] = Round(N)
  BY <1>1, <1>9
<1>11. Round(N) = front \o r \o back /\ Round(N) \in Seq(D)
  <2>1. Round(N) = front \o r \o back
    BY <1>3 DEF Round
  <2>2. front \o r \in Seq(D)
    BY <1>1, <1>2, ConcatProperties
  <2> QED
    BY <1>2, <2>1, <2>2, ConcatProperties
<1> QED
  BY <1>10, <1>11 DEF Emplaced, g, N, r, front, back

-----------------------------------------------------------------------------
(* The inductive invariant *)

\* Nothing is stored, waiting or exported at the beginning.
LEMMA InitIInv == Init => IInv
<1> SUFFICES ASSUME Init PROVE IInv
  OBVIOUS
<1>1. NoTable \in Table /\ <<>> \in Seq(Statements) /\ <<>> \in Seq(Tracks) /\ Len(<<>>) = 0
  BY DEF Table
<1>2. TypeOK
  <2>1. tracks \in Seq(Tracks) /\ lines \in Seq(Tracks \cup {Comment}) /\ pending \in Seq(Statements)
    BY DEF Init
  <2>2. table \in Table /\ catalog \subseteq Tracks /\ goal \in Table /\ asked \subseteq Table /\ refused \in BOOLEAN
    BY <1>1 DEF Init
  <2>3. export = NoExport
    BY DEF Init
  <2>4. exported \in [list : Seq(Tracks), known : BOOLEAN, done : BOOLEAN]
    BY <1>1 DEF Init
  <2> QED
    BY <2>1, <2>2, <2>3, <2>4 DEF TypeOK
<1>3. StoreInv
  <2>1. Drained(NoTable, <<>>)[0] = NoTable
    BY <1>1, DrainedSteps
  <2>2. \A n \in 0..0 : n = 0
    OBVIOUS
  <2> QED
    BY <1>1, <2>1, <2>2 DEF Init, StoreInv, InTheEnd
<1>4. ExportInv
  <2>1. Existing(<<>>) = <<>>
    <3>1. Kept(<<>>)[0] = <<>>
      BY <1>1, KeptSteps
    <3> QED BY <1>1, <3>1 DEF Existing
  <2>2. IsPrefix(<<>>, <<>>)
    BY DEF IsPrefix
  <2> QED
    BY <2>1, <2>2 DEF Init, ExportInv, ExportReadsBack
<1> QED
  BY <1>2, <1>3, <1>4 DEF IInv

\* What a call leaves in the queue and asks for has its type.
LEMMA CallKeepsTypes ==
  ASSUME TypeOK, NEW q \in Seq(Statements), NEW tb \in Table, NEW save \in BOOLEAN, Call(q, tb, save)
  PROVE  /\ pending' \in Seq(Statements) /\ goal' \in Table
         /\ asked' \subseteq Table /\ refused' \in BOOLEAN
<1>1. NoTable \in Table
  BY DEF Table
<1>2. pending' \in Seq(Statements)
  BY DEF Call, TypeOK
<1> QED
  BY <1>1, <1>2 DEF Call, TypeOK

\* Steps beside an export, and steps outside of one that leave the file alone.
LEMMA OthersKeepExportInv ==
  ASSUME ExportInv, UNCHANGED file, catalog \subseteq catalog', export = NoExport \/ tracks' = tracks
  PROVE  ExportInv'
<1>1. UNCHANGED <<lines, export, exported>>
  BY DEF file
<1>2. CASE export = NoExport
  BY <1>1, <1>2 DEF ExportInv, ExportReadsBack
<1>3. CASE export # NoExport
  BY <1>1, <1>3 DEF ExportInv
<1> QED
  BY <1>2, <1>3

\* insert_after, with and without a save.
LEMMA EditKeepsIInv ==
  ASSUME IInv, Edit
  PROVE  IInv'
<1>1. TypeOK /\ StoreInv /\ ExportInv /\ export = NoExport
  BY DEF IInv, Edit
<1>2. PICK paths \in Batches, save \in BOOLEAN, curr \in 0..(Len(tracks) + 1) : InsertAfter(curr, paths, save)
  BY DEF Edit
<1> DEFINE at == IF curr > Len(tracks) THEN Len(tracks) ELSE curr
           l == Emplaced(tracks, at, paths)
           tb == IF l = <<>> THEN NoTable ELSE Holding(ToSet(l))
<1>3. l \in Seq(Tracks)
  <2>1. tracks \in Seq(Tracks) /\ paths \in Seq(Tracks) /\ at \in 0..Len(tracks)
    BY <1>1, PlaylistStoreAssumption DEF TypeOK
  <2> HIDE DEF at
  <2> QED BY <2>1, EmplacedBetween
<1>4. /\ tracks' = l /\ UNCHANGED <<table, catalog>> /\ UNCHANGED file
      /\ IF save THEN Call(Saved(l), tb, TRUE) ELSE UNCHANGED <<pending, ghosts>>
  BY <1>2 DEF InsertAfter
<1> HIDE DEF l
<1>5. ExportInv'
  BY <1>1, <1>4, OthersKeepExportInv
<1>6. tb \in Table /\ Saved(l) \in Seq(Statements) /\ \A g \in Table : Leads(Saved(l), g, tb)
  <2>1. goal \in Table
    BY <1>1 DEF TypeOK
  <2> QED BY <1>3, <2>1, SaveLeads
<1> HIDE DEF tb
<1>7. /\ pending' \in Seq(Statements) /\ goal' \in Table
      /\ asked' \subseteq Table /\ refused' \in BOOLEAN /\ StoreInv'
  <2>1. CASE save
    BY <1>1, <1>4, <1>6, <2>1, CallKeepsTypes, CallKeepsStoreInv
  <2>2. CASE ~save
    BY <1>1, <1>4, <2>2 DEF TypeOK, ghosts, StoreInv, InTheEnd
  <2> QED BY <2>1, <2>2
<1>8. TypeOK'
  <2>1. UNCHANGED <<lines, export, exported>>
    BY <1>4 DEF file
  <2> QED
    BY <1>1, <1>3, <1>4, <1>7, <2>1 DEF TypeOK, NoExport
<1> QED
  BY <1>5, <1>7, <1>8 DEF IInv

\* A path is added or removed.
LEMMA PathKeepsIInv ==
  ASSUME IInv, NEW t \in Tracks, AddPath(t) \/ RemoveFromPlaylist(t)
  PROVE  IInv'
<1>1. TypeOK /\ StoreInv /\ ExportInv /\ goal \in Table
  BY DEF IInv, TypeOK
<1>2. PICK s \in Statements : /\ Call(<<s>>, Changed(goal, s), FALSE)
                              /\ UNCHANGED <<tracks, table, catalog>> /\ UNCHANGED file
  BY DEF AddPath, RemoveFromPlaylist, Statements
<1>3. Changed(goal, s) \in Table
  BY <1>1, ChangedIsTable
<1> DEFINE q == <<s>>
<1>4. q \in Seq(Statements) /\ Len(q) = 1 /\ q[1] = s /\ Call(q, Changed(goal, s), FALSE)
  <2>1. q \in Seq(Statements) /\ Len(q) = 1 /\ q[1] = s
    OBVIOUS
  <2> QED BY <1>2, <2>1
<1> HIDE DEF q
<1>5. Leads(q, goal, Changed(goal, s))
  BY <1>1, <1>4, ShortQueues
<1>6. ExportInv'
  BY <1>1, <1>2, OthersKeepExportInv
<1>7. /\ pending' \in Seq(Statements) /\ goal' \in Table
      /\ asked' \subseteq Table /\ refused' \in BOOLEAN
  BY <1>1, <1>3, <1>4, CallKeepsTypes
<1>8. StoreInv'
  BY <1>1, <1>2, <1>4, <1>5, CallKeepsStoreInv
<1>9. TypeOK'
  BY <1>1, <1>2, <1>7 DEF TypeOK, file
<1> QED
  BY <1>6, <1>8, <1>9 DEF IInv

\* A file is read.
LEMMA ImportKeepsIInv ==
  ASSUME IInv, Import
  PROVE  IInv'
<1> DEFINE l == Existing(lines)
           q == AddToPlaylist(l)
           tb == IF l = <<>> THEN goal ELSE Holding(goal.rows \cup ToSet(l))
<1>1. /\ TypeOK /\ StoreInv /\ ExportInv /\ goal \in Table
      /\ export = NoExport /\ tracks' = l /\ Call(q, tb, FALSE)
      /\ UNCHANGED <<table, catalog>> /\ UNCHANGED file
  BY DEF IInv, TypeOK, Import
<1>2. l \in Seq(Tracks)
  <2>1. lines \in Seq(Tracks \cup {Comment})
    BY <1>1 DEF TypeOK
  <2>2. l \in Seq(Files)
    BY <2>1, ExistingAppend
  <2> HIDE DEF l
  <2> QED BY <2>2, PlaylistStoreAssumption, SeqMonotonic
<1> HIDE DEF l
<1>3. q \in Seq(Statements) /\ tb \in Table /\ Leads(q, goal, tb)
  BY <1>1, <1>2, AddLeads
<1> HIDE DEF q, tb
<1>4. ExportInv'
  BY <1>1, OthersKeepExportInv
<1>5. /\ pending' \in Seq(Statements) /\ goal' \in Table
      /\ asked' \subseteq Table /\ refused' \in BOOLEAN
  BY <1>1, <1>3, CallKeepsTypes
<1>6. StoreInv'
  BY <1>1, <1>3, CallKeepsStoreInv
<1>7. TypeOK'
  BY <1>1, <1>2, <1>5 DEF TypeOK, file
<1> QED
  BY <1>4, <1>6, <1>7 DEF IInv

\* How far an export is, as a record.
LEMMA ExportRecord ==
  ASSUME TypeOK
  PROVE  /\ export = NoExport => export.at = "none"
         /\ export # NoExport => /\ export.at \in {"track", "tags", "path"} /\ export.i \in 1..(Len(tracks) + 1)
                                 /\ export = [at |-> export.at, i |-> export.i]
         /\ \A a, n : [at |-> a, i |-> n] # NoExport
<1>1. NoExport.at = "none"
  BY DEF NoExport
<1>2. \A a, n : [at |-> a, i |-> n] # NoExport
  <2> SUFFICES ASSUME NEW a, NEW n, [at |-> a, i |-> n] = [at |-> "none"] PROVE FALSE
    BY DEF NoExport
  <2>1. "i" \in DOMAIN [at |-> a, i |-> n] /\ "i" \notin DOMAIN [at |-> "none"]
    OBVIOUS
  <2> QED BY <2>1
<1>3. ASSUME export # NoExport
      PROVE  /\ export.at \in {"track", "tags", "path"} /\ export.i \in 1..(Len(tracks) + 1)
             /\ export = [at |-> export.at, i |-> export.i]
  <2>1. export \in [at : {"track", "tags", "path"}, i : 1..(Len(tracks) + 1)]
    BY <1>3 DEF TypeOK
  <2> QED BY <2>1
<1> QED
  BY <1>1, <1>2, <1>3

\* What is exported so far is the beginning of what the finished file reads back as.
LEMMA ExportReads ==
  ASSUME TypeOK, ExportInv
  PROVE  ExportReadsBack
<1> DEFINE l == exported.list
           i == export.i
<1>1. l \in Seq(Tracks) /\ exported.known \in BOOLEAN
  BY DEF TypeOK
<1>2. CASE export = NoExport
  BY <1>2 DEF ExportInv
<1>3. CASE export # NoExport
  <2>1. /\ ~exported.done /\ i \in 1..(Len(l) + 1)
        /\ \/ Existing(lines) = Kept(l)[i - 1]
           \/ i > 1 /\ ~exported.known /\ Existing(lines) = Kept(Tail(l))[i - 2]
    BY <1>1, <1>3 DEF ExportInv
  <2> HIDE DEF l, i
  <2>2. CASE Existing(lines) = Kept(l)[i - 1]
    <3>1. i - 1 \in 0..Len(l)
      BY <1>1, <2>1
    <3>2. IsPrefix(Existing(lines), Existing(l))
      BY <1>1, <2>2, <3>1, KeptGrows
    <3> QED BY <2>1, <3>2 DEF ExportReadsBack, l
  <2>3. CASE i > 1 /\ ~exported.known /\ Existing(lines) = Kept(Tail(l))[i - 2]
    <3> DEFINE m == Tail(l)
    <3>1. m \in Seq(Tracks) /\ i - 2 \in 0..Len(m) /\ l # <<>>
      BY <1>1, <2>1, <2>3
    <3> HIDE DEF m
    <3>2. IsPrefix(Kept(m)[i - 2], Existing(m))
      BY <3>1, KeptGrows
    <3>3. IsPrefix(Existing(lines), Existing(Tail(l)))
      BY <2>3, <3>2 DEF m
    <3> QED BY <2>1, <2>3, <3>1, <3>3 DEF ExportReadsBack, l
  <2> QED BY <2>1, <2>2, <2>3
<1> QED
  BY <1>2, <1>3

\* The file is opened.
LEMMA ExportOpenKeepsIInv ==
  ASSUME IInv, ExportOpen
  PROVE  IInv'
<1>1. /\ TypeOK /\ StoreInv /\ UNCHANGED <<tracks, table, catalog, pending, goal, asked, refused>>
      /\ lines' = <<>> /\ export' = [at |-> "track", i |-> 1]
      /\ exported' = [list |-> tracks, known |-> tracks # <<>> /\ tracks[1] \in catalog, done |-> FALSE]
  BY DEF IInv, ExportOpen, stored, ghosts
<1>2. tracks \in Seq(Tracks) /\ Len(tracks) \in Nat
  BY <1>1 DEF TypeOK
<1>3. StoreInv'
  BY <1>1 DEF StoreInv, InTheEnd
<1>4. TypeOK'
  <2>1. lines' \in Seq(Tracks \cup {Comment})
    BY <1>1
  <2>2. export' \in [at : {"track", "tags", "path"}, i : 1..(Len(tracks') + 1)]
    BY <1>1, <1>2
  <2>3. exported' \in [list : Seq(Tracks), known : BOOLEAN, done : BOOLEAN]
    BY <1>1, <1>2
  <2> QED
    BY <1>1, <2>1, <2>2, <2>3 DEF TypeOK
<1>5. ExportInv'
  <2>1. export' # NoExport
    BY <1>1, ExportRecord
  <2>2. /\ exported'.list = tracks /\ exported'.known = (tracks # <<>> /\ tracks[1] \in catalog)
        /\ exported'.done = FALSE /\ export'.at = "track" /\ export'.i = 1
    BY <1>1
  <2>3. 1 \in 1..Len(tracks) \/ 1 = Len(tracks) + 1
    BY <1>2
  <2>4. Existing(lines') = Kept(tracks)[1 - 1]
    BY <1>1, <1>2, ExistingAppend, KeptSteps
  <2> QED
    BY <1>1, <2>1, <2>2, <2>3, <2>4 DEF ExportInv, NoExport
<1> QED
  BY <1>3, <1>4, <1>5 DEF IInv

\* The statement a track inserts itself with leads nowhere else.
LEMMA InsertLeads ==
  ASSUME TypeOK, StoreInv, NEW t \in Tracks, pending' = Append(pending, Insert(t)),
         UNCHANGED <<table, goal, asked, refused>>
  PROVE  pending' \in Seq(Statements) /\ StoreInv'
<1> DEFINE q == <<Insert(t)>>
           base == Drained(table, pending)[Len(pending)]
           k == Len(pending)
<1>1. table \in Table /\ pending \in Seq(Statements) /\ Insert(t) \in Statements /\ k \in Nat
  BY DEF TypeOK, Statements
<1>2. q \in Seq(Statements) /\ Len(q) = 1 /\ q[1] = Insert(t) /\ pending' = pending \o q
  BY <1>1
<1> HIDE DEF q
<1>3. /\ pending' \in Seq(Statements) /\ Len(pending') = k + 1
      /\ \A n \in 0..k : Drained(table, pending')[n] = Drained(table, pending)[n]
      /\ \A n \in 0..1 : Drained(table, pending')[n + k] = Drained(base, q)[n]
  <2> DEFINE both == pending \o q
  <2>1. /\ both \in Seq(Statements) /\ Len(both) = k + Len(q)
        /\ \A n \in 0..k : Drained(table, both)[n] = Drained(table, pending)[n]
        /\ \A n \in 0..Len(q) : Drained(table, both)[n + k] = Drained(base, q)[n]
    BY <1>1, <1>2, DrainedConcat
  <2> HIDE DEF both, base, k
  <2>2. both = pending'
    BY <1>2 DEF both
  <2> QED BY <1>2, <2>1, <2>2
<1>4. base \in Table
  BY <1>1, DrainedSteps
<1>5. Drained(base, q)[1] = base
  BY <1>2, <1>4, ChangedTable, ShortQueues DEF Leads
<1>6. Drained(table, pending')[Len(pending')] = base
  <2>1. 1 \in 0..1 /\ 1 + k = k + 1
    BY <1>1
  <2> HIDE DEF base, k
  <2> QED BY <1>3, <1>5, <2>1
<1>7. ASSUME ~refused, NEW n \in 0..Len(pending')
      PROVE  Drained(table, pending')[n] \in asked \cup {NoTable, Holding({})}
  <2>1. \A m \in 0..k : Drained(table, pending)[m] \in asked \cup {NoTable, Holding({})}
    BY <1>7 DEF StoreInv
  <2>2. CASE n \in 0..k
    BY <1>3, <2>1, <2>2
  <2>3. CASE n = Len(pending')
    <3>1. base \in asked \cup {NoTable, Holding({})}
      BY <1>1, <2>1
    <3> QED BY <1>6, <2>3, <3>1
  <2> QED BY <1>1, <1>3, <2>2, <2>3
<1> QED
  BY <1>3, <1>6, <1>7 DEF StoreInv, InTheEnd

\* The constructor of track.
LEMMA ExportTrackKeepsIInv ==
  ASSUME IInv, ExportTrack
  PROVE  IInv'
<1> DEFINE t == tracks[export.i]
<1>1. /\ TypeOK /\ StoreInv /\ ExportInv /\ export.at = "track" /\ export.i <= Len(tracks)
      /\ pending' = IF t \in Files \ catalog THEN Append(pending, Insert(t)) ELSE pending
      /\ export' = [export EXCEPT !.at = "tags"]
      /\ UNCHANGED <<tracks, table, catalog, lines, exported, goal, asked, refused>>
  BY DEF IInv, ExportTrack, ghosts
<1>2. /\ export # NoExport /\ export.i \in 1..Len(tracks) /\ tracks \in Seq(Tracks)
      /\ export' = [at |-> "tags", i |-> export.i] /\ export' # NoExport
  BY <1>1, ExportRecord DEF TypeOK
<1>3. t \in Tracks
  BY <1>2
<1>4. pending' \in Seq(Statements) /\ StoreInv'
  <2>1. CASE t \in Files \ catalog
    BY <1>1, <1>3, <2>1, InsertLeads
  <2>2. CASE t \notin Files \ catalog
    BY <1>1, <2>2 DEF TypeOK, StoreInv, InTheEnd
  <2> QED BY <2>1, <2>2
<1>5. TypeOK'
  <2>1. tracks' = tracks /\ export.i \in 1..(Len(tracks) + 1)
    BY <1>1, <1>2
  <2>2. export' \in [at : {"track", "tags", "path"}, i : 1..(Len(tracks') + 1)]
    BY <1>2, <2>1
  <2> QED
    BY <1>1, <1>4, <2>2 DEF TypeOK
<1>6. ExportInv'
  <2>1. export'.at = "tags" /\ export'.i = export.i
    BY <1>2
  <2> QED
    BY <1>1, <1>2, <2>1 DEF ExportInv, NoExport
<1> QED
  BY <1>4, <1>5, <1>6 DEF IInv

\* A comment reads back as nothing.
LEMMA WrittenReads ==
  ASSUME TypeOK, NEW x \in Tracks \cup {Comment}, Written(x)
  PROVE  /\ lines' \in Seq(Tracks \cup {Comment}) /\ lines' # <<>>
         /\ lines = <<>> \/ x \notin Files => Existing(lines') = Existing(lines)
         /\ lines # <<>> /\ x \in Files => Existing(lines') = Append(Existing(lines), x)
         /\ lines = <<>> => Existing(lines') = <<>>
<1> DEFINE y == IF lines = <<>> THEN Comment ELSE x
<1>1. lines \in Seq(Tracks \cup {Comment}) /\ y \in Tracks \cup {Comment} /\ lines' = Append(lines, y)
  BY DEF TypeOK, Written
<1>2. Comment \notin Files
  BY PlaylistStoreAssumption DEF Comment
<1>3. /\ Existing(lines') = IF y \in Files THEN Append(Existing(lines), y) ELSE Existing(lines)
      /\ Existing(<<>>) = <<>>
  BY <1>1, ExistingAppend
<1>4. lines' \in Seq(Tracks \cup {Comment}) /\ lines' # <<>>
  <2> HIDE DEF y
  <2> QED BY <1>1
<1> QED
  BY <1>2, <1>3, <1>4

\* The line of the tags: the first one takes the place behind the header.
LEMMA ExportTagsKeepsIInv ==
  ASSUME IInv, ExportTags
  PROVE  IInv'
<1>1. /\ TypeOK /\ StoreInv /\ ExportInv /\ export.at = "tags"
      /\ IF tracks[export.i] \in catalog THEN Written(Comment) ELSE lines' = lines
      /\ export' = [export EXCEPT !.at = "path"]
      /\ UNCHANGED <<tracks, table, catalog, pending, exported, goal, asked, refused>>
  BY DEF IInv, ExportTags, stored, ghosts
<1>2. /\ export # NoExport /\ export.i \in 1..(Len(tracks) + 1)
      /\ export' = [at |-> "path", i |-> export.i] /\ export' # NoExport
  BY <1>1, ExportRecord
<1>3. export'.at = "path" /\ export'.i = export.i
  BY <1>2
<1>4. Comment \notin Files
  BY PlaylistStoreAssumption DEF Comment
<1>5. /\ lines' \in Seq(Tracks \cup {Comment}) /\ Existing(lines') = Existing(lines)
      /\ lines' = <<>> => lines = <<>> /\ tracks[export.i] \notin catalog
  <2>1. CASE tracks[export.i] \in catalog
    BY <1>1, <1>4, <2>1, WrittenReads
  <2>2. CASE tracks[export.i] \notin catalog
    BY <1>1, <2>2 DEF TypeOK
  <2> QED BY <2>1, <2>2
<1>6. StoreInv'
  BY <1>1 DEF StoreInv, InTheEnd
<1>7. TypeOK'
  <2>1. export' \in [at : {"track", "tags", "path"}, i : 1..(Len(tracks') + 1)]
    BY <1>1, <1>2
  <2> QED
    BY <1>1, <1>5, <2>1 DEF TypeOK
<1>8. ExportInv'
  BY <1>1, <1>2, <1>3, <1>5 DEF ExportInv, NoExport
<1> QED
  BY <1>6, <1>7, <1>8 DEF IInv

\* The line of a path is lost only right behind the header.
LEMMA ExportPathKeepsIInv ==
  ASSUME IInv, ExportPath
  PROVE  IInv'
<1> DEFINE l == exported.list
           i == export.i
           t == tracks[export.i]
<1>1. /\ TypeOK /\ StoreInv /\ ExportInv /\ export.at = "path" /\ Written(t)
      /\ export' = [at |-> "track", i |-> export.i + 1]
      /\ UNCHANGED <<tracks, table, catalog, pending, exported, goal, asked, refused>>
  BY DEF IInv, ExportPath, stored, ghosts
<1>2. export # NoExport /\ export' # NoExport /\ export'.at = "track" /\ export'.i = i + 1
  BY <1>1, ExportRecord
<1>3. /\ ~exported.done /\ l = tracks /\ i \in 1..Len(l) /\ l \in Seq(Tracks)
      /\ lines = <<>> => i = 1
      /\ exported.known => l # <<>> /\ l[1] \in catalog
      /\ exported.known => lines # <<>>
      /\ \/ Existing(lines) = Kept(l)[i - 1]
         \/ i > 1 /\ ~exported.known /\ Existing(lines) = Kept(Tail(l))[i - 2]
  BY <1>1, <1>2 DEF ExportInv, TypeOK
<1>4. t \in Tracks /\ t = l[i]
  BY <1>3
<1>5. /\ lines' \in Seq(Tracks \cup {Comment}) /\ lines' # <<>>
      /\ lines = <<>> => Existing(lines') = <<>>
      /\ lines # <<>> => Existing(lines') = IF t \in Files THEN Append(Existing(lines), t) ELSE Existing(lines)
  BY <1>1, <1>4, WrittenReads
<1>6. StoreInv'
  BY <1>1 DEF StoreInv, InTheEnd
<1>7. TypeOK'
  <2>1. i + 1 \in 1..(Len(tracks) + 1)
    BY <1>3
  <2>2. export' \in [at : {"track", "tags", "path"}, i : 1..(Len(tracks') + 1)]
    <3> HIDE DEF i
    <3> QED BY <1>1, <2>1 DEF i
  <2> QED
    BY <1>1, <1>5, <2>2 DEF TypeOK
<1> HIDE DEF l, i, t
<1>8. Existing(lines') = Kept(l)[i] \/ (i + 1 > 1 /\ ~exported.known /\ Existing(lines') = Kept(Tail(l))[i - 1])
  <2> DEFINE m == Tail(l)
  <2>1. m \in Seq(Tracks) /\ Len(m) = Len(l) - 1 /\ \A n \in 1..Len(m) : m[n] = l[n + 1]
    BY <1>3
  <2> HIDE DEF m
  <2>2. CASE lines = <<>>
    <3>1. Kept(m)[0] = <<>> /\ i - 1 = 0 /\ i + 1 > 1
      BY <1>3, <2>1, <2>2, KeptSteps
    <3> QED BY <1>3, <1>5, <2>2, <3>1 DEF m
  <2>3. CASE lines # <<>> /\ Existing(lines) = Kept(l)[i - 1]
    BY <1>3, <1>4, <1>5, <2>3, KeptSteps
  <2>4. CASE lines # <<>> /\ i > 1 /\ ~exported.known /\ Existing(lines) = Kept(m)[i - 2]
    <3>1. i - 1 \in 1..Len(m) /\ (i - 1) - 1 = i - 2 /\ m[i - 1] = t /\ i + 1 > 1
      BY <1>3, <1>4, <2>1, <2>4
    <3>2. Kept(m)[i - 1] = IF t \in Files THEN Append(Kept(m)[i - 2], t) ELSE Kept(m)[i - 2]
      BY <2>1, <3>1, KeptSteps
    <3> QED BY <1>5, <2>4, <3>1, <3>2 DEF m
  <2> QED BY <1>3, <2>2, <2>3, <2>4 DEF m
<1>9. ExportInv'
  <2>1. i + 1 \in 1..Len(l) \/ i + 1 = Len(l) + 1
    BY <1>3
  <2>2. (i + 1) - 1 = i /\ (i + 1) - 2 = i - 1
    BY <1>3
  <2>3. exported' = exported /\ l = exported.list /\ export'.at = "track" /\ export'.i = i + 1 /\ export' # NoExport
        /\ tracks' = tracks /\ catalog' = catalog
    BY <1>1, <1>2 DEF l
  <2> HIDE DEF l
  <2> QED
    BY <1>3, <1>5, <1>8, <2>1, <2>2, <2>3 DEF ExportInv, NoExport
<1> QED
  BY <1>6, <1>7, <1>9 DEF IInv

\* The file is closed.
LEMMA ExportCloseKeepsIInv ==
  ASSUME IInv, ExportClose
  PROVE  IInv'
<1> DEFINE l == exported.list
           i == export.i
<1>1. /\ TypeOK /\ StoreInv /\ ExportInv /\ export.at = "track" /\ i > Len(tracks)
      /\ lines' = IF lines = <<>> THEN <<Comment>> ELSE lines
      /\ export' = NoExport /\ exported' = [exported EXCEPT !.done = TRUE]
      /\ UNCHANGED <<tracks, table, catalog, pending, goal, asked, refused>>
  BY DEF IInv, ExportClose, stored, ghosts
<1>2. export # NoExport
  BY <1>1, ExportRecord
<1>3. /\ l = tracks /\ i = Len(l) + 1 /\ l \in Seq(Tracks)
      /\ lines = <<>> => i = 1
      /\ \/ Existing(lines) = Kept(l)[i - 1]
         \/ i > 1 /\ ~exported.known /\ Existing(lines) = Kept(Tail(l))[i - 2]
  <2>1. i \in 1..(Len(tracks) + 1) /\ tracks \in Seq(Tracks)
    BY <1>1, <1>2, ExportRecord DEF TypeOK
  <2> QED
    BY <1>1, <1>2, <2>1 DEF ExportInv
<1>4. exported'.list = l /\ exported'.known = exported.known /\ exported'.done = TRUE
      /\ exported' \in [list : Seq(Tracks), known : BOOLEAN, done : BOOLEAN]
  BY <1>1 DEF TypeOK
<1>5. lines' \in Seq(Tracks \cup {Comment}) /\ Existing(lines') = Existing(lines)
  <2>1. lines \in Seq(Tracks \cup {Comment})
    BY <1>1 DEF TypeOK
  <2>2. CASE lines = <<>>
    <3>1. Written(Comment) /\ Comment \notin Files
      <4>1. lines' = Append(<<>>, Comment)
        BY <1>1, <2>2
      <4> QED BY <2>2, <4>1, PlaylistStoreAssumption DEF Written, Comment
    <3> QED BY <1>1, <3>1, WrittenReads
  <2>3. CASE lines # <<>>
    BY <1>1, <2>1, <2>3
  <2> QED BY <2>2, <2>3
<1>6. StoreInv'
  BY <1>1 DEF StoreInv, InTheEnd
<1>7. TypeOK'
  BY <1>1, <1>4, <1>5 DEF TypeOK
<1> HIDE DEF l, i
<1>8. Existing(lines) = Existing(l) \/ (l # <<>> /\ ~exported.known /\ Existing(lines) = Existing(Tail(l)))
  <2>1. CASE Existing(lines) = Kept(l)[i - 1]
    BY <1>3, <2>1 DEF Existing
  <2>2. CASE i > 1 /\ ~exported.known /\ Existing(lines) = Kept(Tail(l))[i - 2]
    <3>1. l # <<>> /\ i - 2 = Len(Tail(l))
      BY <1>3, <2>2
    <3> QED BY <2>2, <3>1 DEF Existing
  <2> QED BY <1>3, <2>1, <2>2
<1>9. ExportInv'
  BY <1>1, <1>4, <1>5, <1>8 DEF ExportInv, ExportReadsBack
<1> QED
  BY <1>6, <1>7, <1>9 DEF IInv

\* The thread of the queue executes the first statement, or SQLite refuses it.
LEMMA ExecuteKeepsIInv ==
  ASSUME IInv, Execute
  PROVE  IInv'
<1> DEFINE s == Head(pending)
           q == Tail(pending)
<1>1. /\ TypeOK /\ StoreInv /\ ExportInv /\ pending # <<>> /\ pending' = q
      /\ tracks' = tracks /\ UNCHANGED file
      /\ \/ /\ table' = Changed(table, s)
            /\ catalog' = IF s.op = "insert" THEN catalog \cup {s.path} ELSE catalog
            /\ asked' = IF Len(pending) = 1 /\ ~refused THEN {table'} ELSE asked
            /\ goal' = goal /\ refused' = refused
         \/ /\ refused' = TRUE /\ goal' = NoTable /\ asked' = {}
            /\ table' = table /\ catalog' = catalog
  BY DEF IInv, Execute
<1>2. /\ pending \in Seq(Statements) /\ table \in Table /\ goal \in Table
      /\ asked \subseteq Table /\ catalog \subseteq Tracks /\ refused \in BOOLEAN
  BY <1>1 DEF TypeOK
<1>3. /\ s \in Statements /\ q \in Seq(Statements) /\ Len(q) = Len(pending) - 1 /\ Len(pending) \in Nat \ {0}
      /\ pending[1] = s /\ Within(q, pending, 1)
  BY <1>1, <1>2 DEF Within
<1>4. s.op = "insert" => s.path \in Tracks
  BY <1>3 DEF Statements, Create, Drop, Replace, Delete, Insert
<1> HIDE DEF s, q
<1>5. Changed(table, s) \in Table /\ NoTable \in Table
  BY <1>2, <1>3, ChangedIsTable DEF Table
<1>6. TypeOK'
  <2>1. UNCHANGED <<tracks, lines, export, exported>>
    BY <1>1 DEF file
  <2>2. /\ table' \in Table /\ catalog' \subseteq Tracks /\ pending' \in Seq(Statements)
        /\ goal' \in Table /\ asked' \subseteq Table /\ refused' \in BOOLEAN
    BY <1>1, <1>2, <1>3, <1>4, <1>5
  <2> QED BY <1>1, <2>1, <2>2 DEF TypeOK
<1>7. ExportInv'
  <2>1. catalog \subseteq catalog'
    BY <1>1
  <2> QED BY <1>1, <2>1, OthersKeepExportInv
<1>8. StoreInv'
  <2> SUFFICES ASSUME ~refused'
               PROVE  /\ Drained(table', q)[Len(q)] = goal'
                      /\ \A n \in 0..Len(q) : Drained(table', q)[n] \in asked' \cup {NoTable, Holding({})}
    BY <1>1 DEF StoreInv, InTheEnd
  <2>1. /\ ~refused /\ table' = Changed(table, s) /\ goal' = goal
        /\ asked' = IF Len(pending) = 1 THEN {table'} ELSE asked
    BY <1>1
  <2>2. /\ Drained(table, pending)[Len(pending)] = goal
        /\ \A n \in 0..Len(pending) : Drained(table, pending)[n] \in asked \cup {NoTable, Holding({})}
    BY <1>1, <2>1 DEF StoreInv, InTheEnd
  <2>3. Drained(table, pending)[1] = table'
    <3>1. 1 \in 1..Len(pending) /\ 1 - 1 = 0
      BY <1>3
    <3> QED BY <1>2, <1>3, <2>1, <3>1, DrainedSteps
  <2>4. \A n \in 0..Len(q) : Drained(table, pending)[n + 1] = Drained(table', q)[n]
    <3>1. 1 \in Nat
      OBVIOUS
    <3> QED BY <1>2, <1>3, <2>3, <3>1, DrainedWithin
  <2>5. Len(q) \in 0..Len(q) /\ Len(q) + 1 = Len(pending)
    BY <1>3
  <2>6. ASSUME NEW n \in 0..Len(q) PROVE Drained(table', q)[n] \in asked' \cup {NoTable, Holding({})}
    <3>1. CASE Len(pending) = 1
      <4>1. n = 0
        BY <1>3, <3>1
      <4>2. Drained(Changed(table, s), q)[0] = Changed(table, s)
        BY <1>3, <1>5, DrainedSteps
      <4> QED BY <2>1, <3>1, <4>1, <4>2
    <3>2. CASE Len(pending) # 1
      <4>1. n + 1 \in 0..Len(pending)
        BY <1>3
      <4> QED BY <2>1, <2>2, <2>4, <3>2, <4>1
    <3> QED BY <3>1, <3>2
  <2> QED
    BY <2>1, <2>2, <2>4, <2>5, <2>6
<1> QED
  BY <1>6, <1>7, <1>8 DEF IInv

\* The process ends, and the next one starts.
LEMMA RestartKeepsIInv ==
  ASSUME IInv, Restart
  PROVE  IInv'
<1>1. /\ TypeOK /\ ExportInv /\ pending' = <<>> /\ export' = NoExport /\ tracks' = SortedPaths[table.rows]
      /\ goal' = table /\ asked' = {table} /\ refused' = FALSE
      /\ UNCHANGED <<table, catalog, lines, exported>>
  BY DEF IInv, Restart
<1>2. table \in Table
  BY <1>1 DEF TypeOK
<1>3. tracks' \in Seq(Tracks)
  <2> DEFINE S == table.rows
  <2>1. S \in SUBSET Tracks
    BY <1>2, ChangedTable
  <2> HIDE DEF S
  <2>2. SortedPaths[S] \in Seq(S)
    BY <2>1, PlaylistStoreAssumption
  <2>3. SortedPaths[S] \in Seq(Tracks)
    BY <2>1, <2>2, SeqMonotonic
  <2> QED BY <1>1, <2>3 DEF S
<1>4. <<>> \in Seq(Statements) /\ Len(<<>>) = 0
  OBVIOUS
<1>5. TypeOK'
  BY <1>1, <1>2, <1>3, <1>4 DEF TypeOK
<1>6. StoreInv'
  <2>1. Drained(table, <<>>)[0] = table
    BY <1>2, <1>4, DrainedSteps
  <2>2. \A n \in 0..0 : n = 0
    OBVIOUS
  <2> QED
    BY <1>1, <1>4, <2>1, <2>2 DEF StoreInv, InTheEnd
<1>7. ExportInv'
  <2>1. ExportReadsBack
    BY <1>1, ExportReads
  <2> QED BY <1>1, <2>1 DEF ExportInv, ExportReadsBack
<1> QED
  BY <1>5, <1>6, <1>7 DEF IInv

\* Every step keeps the invariant.
LEMMA NextKeepsIInv == IInv /\ [Next]_vars => IInv'
<1> SUFFICES ASSUME IInv, [Next]_vars PROVE IInv'
  OBVIOUS
<1>1. CASE Edit
  BY <1>1, EditKeepsIInv
<1>2. ASSUME NEW t \in Tracks, AddPath(t) \/ RemoveFromPlaylist(t) PROVE IInv'
  BY <1>2, PathKeepsIInv
<1>3. CASE ExportOpen
  BY <1>3, ExportOpenKeepsIInv
<1>4. CASE ExportTrack
  BY <1>4, ExportTrackKeepsIInv
<1>5. CASE ExportTags
  BY <1>5, ExportTagsKeepsIInv
<1>6. CASE ExportPath
  BY <1>6, ExportPathKeepsIInv
<1>7. CASE ExportClose
  BY <1>7, ExportCloseKeepsIInv
<1>8. CASE Import
  BY <1>8, ImportKeepsIInv
<1>9. CASE Execute
  BY <1>9, ExecuteKeepsIInv
<1>10. CASE Restart
  BY <1>10, RestartKeepsIInv
<1>11. CASE UNCHANGED vars
  <2>1. UNCHANGED <<tracks, table, catalog, pending, lines, export, exported, goal, asked, refused>>
    BY <1>11 DEF vars, stored, file, ghosts
  <2> QED
    BY <2>1 DEF IInv, TypeOK, StoreInv, InTheEnd, ExportInv, ExportReadsBack
<1> QED
  BY <1>1, <1>2, <1>3, <1>4, <1>5, <1>6, <1>7, <1>8, <1>9, <1>10, <1>11 DEF Next, Export

-----------------------------------------------------------------------------
(* What holds in every state *)

\* The types, the way the queue leads and what the file reads back as hold in every
\* state of playlist.cpp, db.cpp:101-143 and their queue.
THEOREM InductiveInvariant == Spec => []IInv
<1>1. Init => IInv
  BY InitIInv
<1>2. IInv /\ [Next]_vars => IInv'
  BY NextKeepsIInv
<1> QED
  BY <1>1, <1>2, PTL DEF Spec

\* Every variable has its type: the queue holds nothing but statements of db.cpp, and
\* the list only paths, also after it is read from the file or from the table.
THEOREM TypeCorrect == Spec => []TypeOK
<1>1. IInv => TypeOK
  BY DEF IInv
<1> QED
  BY <1>1, InductiveInvariant, PTL

\* Whatever calls are made in whatever order, and wherever the queue is: what is on
\* the way leads to the table that was asked for last, unless a statement is refused
\* (playlist.cpp:202-203, db.cpp:101-143).
THEOREM SavesAsked == Spec => []SavesWhatIsAsked
<1>1. IInv => SavesWhatIsAsked
  BY DEF IInv, StoreInv, SavesWhatIsAsked
<1> QED
  BY <1>1, InductiveInvariant, PTL

\* Wherever the process ends the table is one that was asked for, empty, or not
\* there: never a part of a list (db.cpp:101-115).
THEOREM WholeLists == Spec => []WholeListsOnly
<1>1. IInv => WholeListsOnly
  <2> SUFFICES ASSUME IInv, ~refused PROVE table \in asked \cup {NoTable, Holding({})}
    BY DEF WholeListsOnly
  <2>1. table \in Table /\ pending \in Seq(Statements) /\ 0 \in 0..Len(pending)
    BY DEF IInv, TypeOK
  <2>2. Drained(table, pending)[0] = table
    BY <2>1, DrainedSteps
  <2> QED
    BY <2>1, <2>2 DEF IInv, StoreInv
<1> QED
  BY <1>1, InductiveInvariant, PTL

\* A file that export_playlist finished reads back as its list without what does not
\* exist, and possibly without its first path; an interrupted one as the beginning
\* of that (playlist.cpp:57-63, 128-147).
THEOREM ExportsReadBack == Spec => []ExportReadsBack
<1>1. IInv => ExportReadsBack
  BY ExportReads DEF IInv
<1> QED
  BY <1>1, InductiveInvariant, PTL

\* insert_after keeps what it inserts together and the rest in its order, for any
\* list, any place and any paths (playlist.cpp:189-199).
THEOREM InsertedTogether == Spec => []InsertsTogether
<1>1. IInv => InsertsTogether
  <2> SUFFICES ASSUME IInv, NEW l \in Batches, NEW n \in 0..Len(tracks)
               PROVE  Emplaced(tracks, n, l) =
                        SubSeq(tracks, 1, n) \o Reverse(l) \o SubSeq(tracks, n + 1, Len(tracks))
    BY DEF InsertsTogether
  <2>1. tracks \in Seq(Tracks) /\ l \in Seq(Tracks)
    BY PlaylistStoreAssumption DEF IInv, TypeOK
  <2> QED BY <2>1, EmplacedBetween
<1> QED
  BY <1>1, InductiveInvariant, PTL

=============================================================================
