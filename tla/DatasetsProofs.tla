--------------------------- MODULE DatasetsProofs ---------------------------
(***************************************************************************)
(* Proofs about Datasets, for any set of sessions, any clock, any lengths  *)
(* of weeks, lags and pages, and any table of networks.                    *)
(***************************************************************************)
EXTENDS Datasets, FiniteSetTheorems, FunctionTheorems, SequenceTheorems, TLAPS

-----------------------------------------------------------------------------
(* Numbers and weeks *)

LEMMA TableParts ==
    /\ MaxTime \in Nat /\ WeekLen \in Nat /\ WeekLen >= 1 /\ Lag \in Nat
    /\ \A s \in Sessions : Start[s] \in Nat /\ Id[s] \in Nat /\ Protocol[s] \in {"ssh", "telnet"}
    /\ \A s, t \in Sessions : Id[s] = Id[t] => s = t
    /\ IsFiniteSet(Sessions)
  BY TableAssumption

\* A time lies in its week: what the chunks of a week select together.
LEMMA WeekBounds ==
    ASSUME NEW t \in Nat
    PROVE  /\ WeekOf(t) \in Nat /\ WeekOf(t) >= 1
           /\ (WeekOf(t) - 1) * WeekLen <= t
           /\ t - (WeekOf(t) - 1) * WeekLen < WeekLen
  <1> DEFINE q == t \div WeekLen
  <1>1. q \in Nat /\ q * WeekLen <= t /\ t < q * WeekLen + WeekLen
    BY TableParts
  <1>2. WeekOf(t) = q + 1
    BY DEF WeekOf
  <1> HIDE DEF q
  <1>3. (q + 1) - 1 = q
    BY <1>1
  <1>4. q * WeekLen \in Nat
    BY <1>1, TableParts
  <1> QED BY <1>1, <1>2, <1>3, <1>4, TableParts

\* A time in a week is of that week.
LEMMA WeekIsUnique ==
    ASSUME NEW t \in Nat, NEW w \in Nat, w >= 1, NEW c \in Nat, c < WeekLen,
           t = (w - 1) * WeekLen + c
    PROVE  WeekOf(t) = w
  <1> DEFINE q == t \div WeekLen
  <1>1. q \in Nat /\ q * WeekLen <= t /\ t < q * WeekLen + WeekLen
    BY TableParts
  <1>2. PICK v \in Nat : w = v + 1
    BY SMT
  <1> HIDE DEF q
  <1>3. t = v * WeekLen + c
    BY <1>2
  <1>4. ~(q < v)
    <2> SUFFICES ASSUME q < v PROVE FALSE
      OBVIOUS
    <2>1. (q + 1) * WeekLen <= v * WeekLen
      BY <1>1, <1>2, TableParts
    <2> QED BY <2>1, <1>1, <1>2, <1>3, TableParts
  <1>5. ~(v < q)
    <2> SUFFICES ASSUME v < q PROVE FALSE
      OBVIOUS
    <2>1. (v + 1) * WeekLen <= q * WeekLen
      BY <1>1, <1>2, TableParts
    <2> QED BY <2>1, <1>1, <1>2, <1>3, TableParts
  <1>6. q = v
    BY <1>1, <1>2, <1>4, <1>5
  <1> QED BY <1>2, <1>6 DEF WeekOf, q

\* Only weeks that lie before the end of time are complete.
LEMMA CompleteWeeks ==
    ASSUME NEW w \in Nat, w >= 1, NEW at \in Nat, at <= MaxTime, IsComplete(w, at)
    PROVE  w \in Weeks
  <1> DEFINE q == MaxTime \div WeekLen
  <1>1. q \in Nat /\ MaxTime < q * WeekLen + WeekLen
    BY TableParts
  <1>2. w * WeekLen <= MaxTime
    BY TableParts DEF IsComplete, EndOf
  <1> HIDE DEF q
  <1>3. ~(q + 1 < w)
    <2> SUFFICES ASSUME q + 1 < w PROVE FALSE
      OBVIOUS
    <2>1. (q + 1) * WeekLen <= w * WeekLen
      BY <1>1, TableParts
    <2> QED BY <2>1, <1>1, <1>2, TableParts
  <1>4. w \in 1 .. q + 1
    BY <1>1, <1>3
  <1> QED BY <1>4 DEF Weeks, q

LEMMA CompleteLater ==
    ASSUME NEW w \in Nat, NEW a \in Nat, NEW b \in Nat, a <= b, IsComplete(w, a)
    PROVE  IsComplete(w, b)
  <1>1. EndOf(w) \in Nat
    BY TableParts DEF EndOf
  <1> QED BY <1>1, TableParts DEF IsComplete

-----------------------------------------------------------------------------
(* Sorting and paging *)

\* A finite set can be enumerated along any strict total order R on it: the place
\* of an element is the number of elements before it.
LEMMA SortedExists ==
    ASSUME NEW S, IsFiniteSet(S), NEW R,
           \A x \in S : <<x, x>> \notin R,
           \A x, y \in S : x # y => <<x, y>> \in R \/ <<y, x>> \in R,
           \A x, y, z \in S : <<x, y>> \in R /\ <<y, z>> \in R => <<x, z>> \in R
    PROVE  \E f \in SetToSeqs(S) : \A i, j \in DOMAIN f : i < j => <<f[i], f[j]>> \in R
  <1> DEFINE n == Cardinality(S)
             pred(x) == {y \in S : <<y, x>> \in R}
             rank == [x \in S |-> Cardinality(pred(x)) + 1]
  <1>1. n \in Nat /\ IsFiniteSet(1 .. n) /\ Cardinality(1 .. n) = n
    BY FS_CardinalityType, FS_Interval
  <1>2. ASSUME NEW x \in S
        PROVE  IsFiniteSet(pred(x)) /\ Cardinality(pred(x)) \in Nat /\ Cardinality(pred(x)) < n
    <2>1. pred(x) \subseteq S /\ x \notin pred(x)
      OBVIOUS
    <2> HIDE DEF pred
    <2> QED BY <2>1, <1>1, FS_Subset, FS_CardinalityType
  <1>3. ASSUME NEW x \in S, NEW y \in S, <<x, y>> \in R
        PROVE  rank[x] < rank[y]
    <2>1. pred(x) \subseteq pred(y) /\ x \in pred(y) /\ x \notin pred(x)
      BY <1>3
    <2>2. Cardinality(pred(x)) < Cardinality(pred(y))
      <3> HIDE DEF pred
      <3> QED BY <2>1, <1>2, FS_Subset
    <2> HIDE DEF pred
    <2> QED BY <2>2, <1>2
  <1>4. rank \in [S -> 1 .. n]
    <2> SUFFICES ASSUME NEW x \in S PROVE Cardinality(pred(x)) + 1 \in 1 .. n
      OBVIOUS
    <2> HIDE DEF pred, n
    <2> QED BY <1>1, <1>2
  <1> HIDE DEF pred, rank
  <1>5. rank \in Injection(S, 1 .. n)
    <2>1. ASSUME NEW x \in S, NEW y \in S, rank[x] = rank[y] PROVE x = y
      <3>1. rank[x] \in Int /\ rank[y] \in Int
        BY <1>4
      <3>2. rank[x] < rank[y] \/ rank[y] < rank[x] \/ x = y
        BY <1>3
      <3> QED BY <2>1, <3>1, <3>2
    <2> QED BY <1>4, <2>1, Fun_IsInj
  <1>6. rank \in Surjection(S, 1 .. n)
    BY <1>1, <1>5, FS_Injection
  <1>7. \A i \in 1 .. n : \E x \in S : rank[x] = i
    BY <1>6 DEF Surjection
  <1> DEFINE f == [i \in 1 .. n |-> CHOOSE x \in S : rank[x] = i]
  <1>8. \A i \in 1 .. n : f[i] \in S /\ rank[f[i]] = i
    BY <1>7
  <1>9. f \in [1 .. n -> S] /\ DOMAIN f = 1 .. n
    BY <1>8
  <1> HIDE DEF f
  <1>10. f \in SetToSeqs(S)
    BY <1>8, <1>9 DEF SetToSeqs, n
  <1>11. ASSUME NEW i \in 1 .. n, NEW j \in 1 .. n, i < j PROVE <<f[i], f[j]>> \in R
    <2>1. f[i] # f[j]
      BY <1>8, <1>11
    <2>2. <<f[j], f[i]>> \notin R
      <3> SUFFICES ASSUME <<f[j], f[i]>> \in R PROVE FALSE
        OBVIOUS
      <3>1. rank[f[j]] < rank[f[i]]
        BY <1>3, <1>8
      <3> QED BY <3>1, <1>8, <1>11, <1>1
    <2> QED BY <2>1, <2>2, <1>8
  <1> QED BY <1>9, <1>10, <1>11

\* An enumeration of a finite set leaves nothing out and repeats nothing.
LEMMA EnumerationIsWhole ==
    ASSUME NEW S, IsFiniteSet(S), NEW f \in SetToSeqs(S)
    PROVE  /\ f \in Seq(S) /\ Len(f) = Cardinality(S)
           /\ Range(f) = S /\ IsInjective(f)
  <1> DEFINE n == Cardinality(S)
  <1>1. n \in Nat /\ IsFiniteSet(1 .. n) /\ Cardinality(1 .. n) = n
    BY FS_CardinalityType, FS_Interval
  <1>2. f \in [1 .. n -> S] /\ \A i, j \in 1 .. n : i # j => f[i] # f[j]
    BY DEF SetToSeqs
  <1> HIDE DEF n
  <1>3. f \in Injection(1 .. n, S)
    BY <1>2, Fun_IsInj
  <1>4. f \in Surjection(1 .. n, S)
    BY <1>1, <1>3, FS_Injection DEF n
  <1>5. Range(f) = S
    <2>1. \A x \in S : \E i \in 1 .. n : f[i] = x
      BY <1>4 DEF Surjection
    <2>2. DOMAIN f = 1 .. n /\ \A i \in 1 .. n : f[i] \in S
      BY <1>2
    <2> QED BY <2>1, <2>2 DEF Range
  <1>6. f \in Seq(S) /\ Len(f) = n
    BY <1>1, <1>2, SeqDef, LenProperties
  <1> QED BY <1>2, <1>5, <1>6 DEF n, IsInjective

\* (start_ms, session_id) is a strict total order.
LEMMA BeforeIsOrder ==
    /\ \A s \in Sessions : ~Before(s, s)
    /\ \A s, t \in Sessions : s # t => Before(s, t) \/ Before(t, s)
    /\ \A s, t, u \in Sessions : Before(s, t) /\ Before(t, u) => Before(s, u)
  <1>1. \A s \in Sessions : ~Before(s, s)
    BY TableParts DEF Before
  <1>2. \A s, t \in Sessions : s # t => Before(s, t) \/ Before(t, s)
    BY TableParts DEF Before
  <1>3. \A s, t, u \in Sessions : Before(s, t) /\ Before(t, u) => Before(s, u)
    BY TableParts DEF Before
  <1> QED BY <1>1, <1>2, <1>3

\* The rows of an export, and the order of their keys in it.
RowRecs == [id : Sessions, hit : Nat]
Later(what, c, s) == IF what = "sessions" THEN Before(s, c) ELSE Before(c, s)

LEMMA LaterIsOrder ==
    ASSUME NEW what
    PROVE  /\ \A s \in Sessions : ~Later(what, s, s)
           /\ \A s, t \in Sessions : s # t => Later(what, s, t) \/ Later(what, t, s)
           /\ \A s, t, u \in Sessions : Later(what, s, t) /\ Later(what, t, u) => Later(what, s, u)
  BY BeforeIsOrder DEF Later

\* A session lies beyond a cursor exactly if it comes after it in the order of the
\* export.
LEMMA BeyondIsLater ==
    ASSUME NEW what \in {"sessions", "commands"}, NEW s \in Sessions, NEW c \in Sessions
    PROVE  Beyond(what, s, c) <=> Later(what, c, s)
  BY ApiAssumption DEF Beyond, Later

\* Rows are ordered by their keys, those of one command by the bait.
LEMMA OrderedIsLater ==
    ASSUME NEW what \in {"sessions", "commands"}, NEW r, NEW q
    PROVE  Ordered(what, r, q) <=> Later(what, r.id, q.id) \/ (r.id = q.id /\ r.hit < q.hit)
  <1>1. CASE what = "sessions"
    BY <1>1 DEF Ordered, Later
  <1>2. CASE what = "commands"
    BY <1>2 DEF Ordered, Later
  <1> QED BY <1>1, <1>2

LEMMA OrderedIsOrder ==
    ASSUME NEW what \in {"sessions", "commands"}
    PROVE  /\ \A x \in RowRecs : ~Ordered(what, x, x)
           /\ \A x, y \in RowRecs : x # y => Ordered(what, x, y) \/ Ordered(what, y, x)
           /\ \A x, y, z \in RowRecs : Ordered(what, x, y) /\ Ordered(what, y, z) => Ordered(what, x, z)
  <1>1. ASSUME NEW x \in RowRecs PROVE x.id \in Sessions /\ x.hit \in Nat
    BY DEF RowRecs
  <1>2. ASSUME NEW x \in RowRecs PROVE ~Ordered(what, x, x)
    <2>1. ~Later(what, x.id, x.id) /\ ~(x.hit < x.hit)
      BY <1>1, LaterIsOrder
    <2> QED BY <2>1, OrderedIsLater
  <1>3. ASSUME NEW x \in RowRecs, NEW y \in RowRecs, x # y PROVE Ordered(what, x, y) \/ Ordered(what, y, x)
    <2>1. x.id # y.id \/ x.hit # y.hit
      BY <1>3 DEF RowRecs
    <2>2. CASE x.id # y.id
      <3>1. Later(what, x.id, y.id) \/ Later(what, y.id, x.id)
        BY <1>1, <2>2, LaterIsOrder
      <3> QED BY <3>1, OrderedIsLater
    <2>3. CASE x.id = y.id /\ x.hit # y.hit
      <3>1. x.hit < y.hit \/ y.hit < x.hit
        BY <1>1, <2>3
      <3> QED BY <2>3, <3>1, OrderedIsLater
    <2> QED BY <2>1, <2>2, <2>3
  <1>4. ASSUME NEW x \in RowRecs, NEW y \in RowRecs, NEW z \in RowRecs, Ordered(what, x, y), Ordered(what, y, z)
        PROVE  Ordered(what, x, z)
    <2>1. /\ Later(what, x.id, y.id) \/ (x.id = y.id /\ x.hit < y.hit)
          /\ Later(what, y.id, z.id) \/ (y.id = z.id /\ y.hit < z.hit)
      BY <1>4, OrderedIsLater
    <2>2. Later(what, x.id, z.id) \/ (x.id = z.id /\ x.hit < z.hit)
      <3>1. CASE x.id = y.id /\ y.id = z.id /\ x.hit < y.hit /\ y.hit < z.hit
        BY <1>1, <3>1
      <3>2. CASE Later(what, x.id, y.id) /\ Later(what, y.id, z.id)
        BY <1>1, <3>2, LaterIsOrder
      <3> QED BY <2>1, <3>1, <3>2
    <2> QED BY <2>2, OrderedIsLater
  <1> QED BY <1>2, <1>3, <1>4

\* The rows that are left, in the order of the export.
Left(what, cursor) == Select(what, cursor)
LeftSorted(what, cursor) == Sorted(Left(what, cursor), LAMBDA r, q : Ordered(what, r, q))

\* They are rows, finitely many of each session that is left.
LeftIs(what, cursor) ==
    /\ Left(what, cursor) \subseteq RowRecs /\ IsFiniteSet(Left(what, cursor))
    /\ \A r \in Left(what, cursor) : r.hit \in Joined(what, r.id) /\ Beyond(what, r.id, cursor)
    /\ \A s \in Rows : Protocol[s] = "ssh" /\ Beyond(what, s, cursor) => \E r \in Left(what, cursor) : r.id = s

LEMMA JoinedParts ==
    ASSUME NEW what, NEW s \in Sessions
    PROVE  Joined(what, s) \subseteq Nat /\ IsFiniteSet(Joined(what, s)) /\ Joined(what, s) # {}
  <1>1. Hits[s] \in Nat
    BY ApiAssumption
  <1>2. CASE what = "commands" /\ Hits[s] > 0
    <2>1. Joined(what, s) = 1 .. Hits[s]
      BY <1>2 DEF Joined
    <2>2. 1 \in Int /\ Hits[s] \in Int
      BY <1>1
    <2>3. IsFiniteSet(1 .. Hits[s])
      BY <2>2, FS_Interval
    <2> QED BY <1>1, <1>2, <2>1, <2>3
  <1>3. CASE ~(what = "commands" /\ Hits[s] > 0)
    <2>1. Joined(what, s) = {0}
      BY <1>3 DEF Joined
    <2>2. IsFiniteSet({0})
      BY FS_Singleton
    <2> QED BY <2>1, <2>2
  <1> QED BY <1>2, <1>3

LEMMA LeftParts ==
    ASSUME NEW what, NEW cursor, Rows \subseteq Sessions
    PROVE  LeftIs(what, cursor)
  <1> DEFINE T == {t \in Rows : Protocol[t] = "ssh" /\ Beyond(what, t, cursor)}
             Of(s) == {[id |-> s, hit |-> h] : h \in Joined(what, s)}
             W == {Of(s) : s \in T}
  <1>1. Left(what, cursor) = UNION W
    BY DEF Left, Select
  <1>2. T \subseteq Sessions /\ IsFiniteSet(T)
    <2>1. T \subseteq Sessions
      OBVIOUS
    <2> QED BY <2>1, TableParts, FS_Subset
  <1>3. ASSUME NEW s \in T PROVE IsFiniteSet(Of(s)) /\ Of(s) \subseteq RowRecs
    <2>1. Joined(what, s) \subseteq Nat /\ IsFiniteSet(Joined(what, s))
      BY <1>2, JoinedParts
    <2> DEFINE h == [x \in Joined(what, s) |-> [id |-> s, hit |-> x]]
    <2>2. h \in Surjection(Joined(what, s), Of(s))
      BY DEF Surjection
    <2>3. Of(s) \subseteq RowRecs
      BY <1>2, <2>1 DEF RowRecs
    <2> HIDE DEF h, Of
    <2>4. IsFiniteSet(Of(s))
      BY <2>1, <2>2, FS_Surjection
    <2> QED BY <2>3, <2>4
  <1>4. IsFiniteSet(W)
    <2> DEFINE h == [s \in T |-> Of(s)]
    <2>1. h \in Surjection(T, W)
      <3> HIDE DEF Of, T
      <3> QED BY DEF Surjection
    <2> HIDE DEF h, W
    <2> QED BY <1>2, <2>1, FS_Surjection
  <1>5. IsFiniteSet(UNION W) /\ UNION W \subseteq RowRecs
    <2>1. \A X \in W : IsFiniteSet(X) /\ X \subseteq RowRecs
      BY <1>3
    <2> HIDE DEF W
    <2>2. IsFiniteSet(UNION W)
      BY <1>4, <2>1, FS_UNION
    <2> QED BY <2>1, <2>2
  <1>6. ASSUME NEW r \in UNION W PROVE r.hit \in Joined(what, r.id) /\ Beyond(what, r.id, cursor)
    <2>1. PICK s \in T : r \in Of(s)
      OBVIOUS
    <2>2. r.id = s /\ r.hit \in Joined(what, s)
      BY <2>1
    <2> QED BY <2>1, <2>2
  <1>7. ASSUME NEW s \in Rows, Protocol[s] = "ssh", Beyond(what, s, cursor) PROVE \E r \in UNION W : r.id = s
    <2>1. s \in T
      BY <1>7
    <2>2. PICK h : h \in Joined(what, s)
      BY <1>2, <2>1, JoinedParts
    <2>3. [id |-> s, hit |-> h] \in Of(s) /\ Of(s) \in W /\ [id |-> s, hit |-> h].id = s
      BY <2>1, <2>2
    <2> QED BY <2>3
  <1> QED BY <1>1, <1>5, <1>6, <1>7 DEF LeftIs

LEMMA LeftIsSorted ==
    ASSUME NEW what \in {"sessions", "commands"}, NEW cursor, Rows \subseteq Sessions
    PROVE  LET l == LeftSorted(what, cursor)
           IN  /\ l \in Seq(Left(what, cursor)) /\ Range(l) = Left(what, cursor) /\ IsInjective(l)
               /\ \A i, j \in DOMAIN l : i < j => Ordered(what, l[i], l[j])
  <1> DEFINE S == Left(what, cursor)
             R == {p \in S \X S : Ordered(what, p[1], p[2])}
  <1>1. S \subseteq RowRecs
    BY LeftParts DEF LeftIs
  <1>2. IsFiniteSet(S)
    BY LeftParts DEF LeftIs
  <1>3. \A x, y \in S : <<x, y>> \in R <=> Ordered(what, x, y)
    OBVIOUS
  <1> HIDE DEF S, R
  <1>4. /\ \A x \in S : <<x, x>> \notin R
        /\ \A x, y \in S : x # y => <<x, y>> \in R \/ <<y, x>> \in R
        /\ \A x, y, z \in S : <<x, y>> \in R /\ <<y, z>> \in R => <<x, z>> \in R
    BY <1>1, <1>3, OrderedIsOrder
  <1>5. PICK g \in SetToSeqs(S) : \A i, j \in DOMAIN g : i < j => <<g[i], g[j]>> \in R
    BY <1>2, <1>4, SortedExists
  <1>6. \A i \in DOMAIN g : g[i] \in S
    <2>1. Range(g) = S
      BY <1>2, EnumerationIsWhole
    <2> QED BY <2>1 DEF Range
  <1>7. \A i, j \in DOMAIN g : i < j => Ordered(what, g[i], g[j])
    BY <1>3, <1>5, <1>6
  <1> DEFINE l == LeftSorted(what, cursor)
  <1>8. l = CHOOSE f \in SetToSeqs(S) : \A i, j \in DOMAIN f : i < j => Ordered(what, f[i], f[j])
    BY DEF LeftSorted, Sorted, S
  <1> HIDE DEF l
  <1>9. l \in SetToSeqs(S) /\ \A i, j \in DOMAIN l : i < j => Ordered(what, l[i], l[j])
    BY <1>7, <1>8
  <1>10. l \in Seq(S) /\ Range(l) = S /\ IsInjective(l)
    BY <1>2, <1>9, EnumerationIsWhole
  <1> QED BY <1>9, <1>10 DEF l, S

\* The first k elements of a sequence.
LEMMA FirstOfSeq ==
    ASSUME NEW S, NEW l \in Seq(S), NEW k \in Nat, k <= Len(l)
    PROVE  /\ SubSeq(l, 1, k) \in Seq(S) /\ Len(SubSeq(l, 1, k)) = k
           /\ DOMAIN SubSeq(l, 1, k) = 1 .. k
           /\ \A i \in 1 .. k : SubSeq(l, 1, k)[i] = l[i]
  OBVIOUS

\* A page has rows that were left, each once; a short page has all of them, a full
\* one those up to its last row.
LEMMA PageProperties ==
    ASSUME NEW what \in {"sessions", "commands"}, NEW cursor, Rows \subseteq Sessions
    PROVE  LET page == Page(what, cursor)
               last == page[Len(page)]
               left == Left(what, cursor)
           IN  /\ page \in Seq(left) /\ IsInjective(page) /\ Len(page) <= PageLimit[what]
               /\ Len(page) < PageLimit[what] => Range(page) = left
               /\ Len(page) = PageLimit[what] =>
                      /\ last \in left
                      /\ \A x \in left : x \in Range(page) \/ x.id = last.id \/ Beyond(what, x.id, last.id)
                      /\ \A x \in Range(page) : ~Beyond(what, x.id, last.id)
  <1> DEFINE left == Left(what, cursor)
             l == LeftSorted(what, cursor)
             lim == PageLimit[what]
             k == IF Len(l) < lim THEN Len(l) ELSE lim
             page == Page(what, cursor)
  <1>1. /\ l \in Seq(left) /\ Range(l) = left /\ IsInjective(l)
        /\ \A i, j \in DOMAIN l : i < j => Ordered(what, l[i], l[j])
    BY LeftIsSorted
  <1>2. page = SubSeq(l, 1, k)
    BY DEF Page, LeftSorted, Left
  <1>3. left \subseteq RowRecs
    BY LeftParts DEF LeftIs
  <1>4. lim \in Nat /\ lim >= 1
    BY ApiAssumption
  <1> HIDE DEF left, l, page, lim
  <1> DEFINE n == Len(l)
  <1>5. n \in Nat /\ DOMAIN l = 1 .. n /\ \A i \in 1 .. n : l[i] \in left
    BY <1>1
  <1>6. k \in Nat /\ k <= n /\ k <= lim /\ (k < lim => k = n)
    <2>1. n \in Nat
      BY <1>5
    <2> QED BY <1>4, <2>1
  <1> HIDE DEF k, n
  <1>7. page \in Seq(left) /\ Len(page) = k /\ DOMAIN page = 1 .. k /\ \A i \in 1 .. k : page[i] = l[i]
    BY <1>1, <1>2, <1>6, FirstOfSeq DEF n
  <1>8. IsInjective(page)
    BY <1>1, <1>5, <1>6, <1>7 DEF IsInjective
  <1>9. Range(page) = {l[i] : i \in 1 .. k} /\ Range(l) = {l[i] : i \in 1 .. n}
    BY <1>5, <1>7 DEF Range
  <1>10. ASSUME k < lim PROVE Range(page) = left
    BY <1>1, <1>6, <1>9, <1>10
  <1>11. ASSUME k = lim
         PROVE  /\ page[k] \in left
                /\ \A x \in left : x \in Range(page) \/ x.id = page[k].id \/ Beyond(what, x.id, page[k].id)
                /\ \A x \in Range(page) : ~Beyond(what, x.id, page[k].id)
    <2>1. k \in 1 .. k /\ k \in 1 .. n /\ page[k] = l[k] /\ page[k] \in left
      BY <1>4, <1>5, <1>6, <1>7, <1>11
    <2>2. ASSUME NEW x \in left, x \notin Range(page) PROVE x.id = page[k].id \/ Beyond(what, x.id, page[k].id)
      <3>1. PICK i \in 1 .. n : x = l[i]
        BY <1>1, <1>9
      <3>2. k < i
        BY <1>6, <1>9, <2>2, <3>1
      <3>3. Ordered(what, page[k], x)
        BY <1>1, <1>5, <2>1, <3>1, <3>2
      <3>4. Later(what, page[k].id, x.id) \/ page[k].id = x.id
        BY <3>3, OrderedIsLater
      <3>5. x.id \in Sessions /\ page[k].id \in Sessions
        BY <1>3, <2>1 DEF RowRecs
      <3> QED BY <3>4, <3>5, BeyondIsLater
    <2>3. ASSUME NEW x \in Range(page) PROVE ~Beyond(what, x.id, page[k].id)
      <3>1. PICK i \in 1 .. k : x = l[i]
        BY <1>9
      <3>2. x \in RowRecs /\ page[k] \in RowRecs /\ i \in 1 .. n /\ x.id \in Sessions /\ page[k].id \in Sessions
        <4>1. x \in RowRecs /\ page[k] \in RowRecs /\ i \in 1 .. n
          BY <3>1, <1>3, <1>5, <1>6, <2>1
        <4> QED BY <4>1 DEF RowRecs
      <3>3. ~Ordered(what, page[k], x)
        <4>1. CASE i = k
          BY <4>1, <2>1, <3>1, <3>2, OrderedIsOrder
        <4>2. CASE i < k
          <5>1. Ordered(what, x, page[k])
            BY <1>1, <1>5, <2>1, <3>1, <3>2, <4>2
          <5> QED BY <5>1, <3>2, OrderedIsOrder
        <4> QED BY <4>1, <4>2, <1>6
      <3> QED BY <3>2, <3>3, OrderedIsLater, BeyondIsLater
    <2> QED BY <2>1, <2>2, <2>3
  <1> QED BY <1>6, <1>7, <1>8, <1>10, <1>11 DEF left, page, lim

-----------------------------------------------------------------------------
(* Locating an address *)

Ranges == Range(AsnFile) \ {Malformed}

\* The ranges are finitely many, not empty, and no two of them overlap.
LEMMA RangesAreDisjoint ==
    /\ IsFiniteSet(Ranges)
    /\ \A r \in Ranges : r.from \in Nat /\ r.to \in Nat /\ r.from <= r.to
    /\ \A r, q \in Ranges : r = q \/ r.to < q.from \/ q.to < r.from
  <1> DEFINE n == Len(AsnFile)
  <1>1. n \in Nat /\ DOMAIN AsnFile = 1 .. n
        /\ \A i \in 1 .. n : AsnFile[i] \in [from : Nat, to : Nat, asn : STRING]
    <2>1. AsnFile \in Seq([from : Nat, to : Nat, asn : STRING])
      BY ApiAssumption
    <2> QED BY <2>1, LenProperties, ElementOfSeq
  <1> HIDE DEF n
  <1>2. Ranges \subseteq {AsnFile[i] : i \in 1 .. n}
    BY <1>1 DEF Ranges, Range
  <1>3. IsFiniteSet({AsnFile[i] : i \in 1 .. n})
    <2> DEFINE f == [i \in 1 .. n |-> AsnFile[i]]
    <2>1. IsFiniteSet(1 .. n)
      <3>1. n \in Int
        BY <1>1
      <3> QED BY <3>1, FS_Interval
    <2>2. f \in Surjection(1 .. n, {AsnFile[i] : i \in 1 .. n})
      BY DEF Surjection
    <2> HIDE DEF f
    <2> QED BY <2>1, <2>2, FS_Surjection
  <1>4. IsFiniteSet(Ranges)
    BY <1>2, <1>3, FS_Subset
  <1>5. ASSUME NEW r \in Ranges
        PROVE  r # Malformed /\ \E i \in 1 .. n : r = AsnFile[i]
    BY <1>2 DEF Ranges
  <1>6. ASSUME NEW r \in Ranges PROVE r.from \in Nat /\ r.to \in Nat /\ r.from <= r.to
    <2>1. PICK i \in 1 .. n : r = AsnFile[i]
      BY <1>5
    <2> QED BY <1>1, <1>5, <2>1, ApiAssumption
  <1>7. ASSUME NEW r \in Ranges, NEW q \in Ranges, r # q
        PROVE  r.to < q.from \/ q.to < r.from
    <2>1. PICK i \in 1 .. n : r = AsnFile[i]
      BY <1>5
    <2>2. PICK j \in 1 .. n : q = AsnFile[j]
      BY <1>5
    <2>3. i # j /\ AsnFile[i] # Malformed /\ AsnFile[j] # Malformed
      BY <1>5, <1>7, <2>1, <2>2
    <2> QED BY <1>1, <2>1, <2>2, <2>3, ApiAssumption
  <1> QED BY <1>4, <1>6, <1>7

\* _load_asn has every range once, by its start.
LEMMA AsnRowsAreSorted ==
    /\ AsnRows \in Seq(Ranges) /\ Range(AsnRows) = Ranges
    /\ \A i, j \in DOMAIN AsnRows : i < j => AsnRows[i].from < AsnRows[j].from
  <1> DEFINE R == {p \in Ranges \X Ranges : p[1].from < p[2].from}
  <1>1. \A x, y \in Ranges : <<x, y>> \in R <=> x.from < y.from
    OBVIOUS
  <1> HIDE DEF R
  <1>2. /\ \A x \in Ranges : <<x, x>> \notin R
        /\ \A x, y \in Ranges : x # y => <<x, y>> \in R \/ <<y, x>> \in R
        /\ \A x, y, z \in Ranges : <<x, y>> \in R /\ <<y, z>> \in R => <<x, z>> \in R
    <2>1. \A x \in Ranges : <<x, x>> \notin R
      BY <1>1, RangesAreDisjoint
    <2>2. ASSUME NEW x \in Ranges, NEW y \in Ranges, x # y PROVE <<x, y>> \in R \/ <<y, x>> \in R
      <3>1. x.from < y.from \/ y.from < x.from
        BY <2>2, RangesAreDisjoint
      <3> QED BY <3>1, <1>1
    <2>3. \A x, y, z \in Ranges : <<x, y>> \in R /\ <<y, z>> \in R => <<x, z>> \in R
      BY <1>1, RangesAreDisjoint
    <2> QED BY <2>1, <2>2, <2>3
  <1>3. PICK g \in SetToSeqs(Ranges) : \A i, j \in DOMAIN g : i < j => <<g[i], g[j]>> \in R
    BY <1>2, RangesAreDisjoint, SortedExists
  <1>4. \A i \in DOMAIN g : g[i] \in Ranges
    <2>1. Range(g) = Ranges
      BY RangesAreDisjoint, EnumerationIsWhole
    <2> QED BY <2>1 DEF Range
  <1>5. \A i, j \in DOMAIN g : i < j => g[i].from < g[j].from
    BY <1>1, <1>3, <1>4
  <1>6. AsnRows = CHOOSE f \in SetToSeqs(Ranges) : \A i, j \in DOMAIN f : i < j => f[i].from < f[j].from
    BY DEF AsnRows, Sorted, Ranges
  <1>7. AsnRows \in SetToSeqs(Ranges) /\ \A i, j \in DOMAIN AsnRows : i < j => AsnRows[i].from < AsnRows[j].from
    BY <1>5, <1>6
  <1> QED BY <1>7, RangesAreDisjoint, EnumerationIsWhole

\* A set of numbers has a least element: initial segments are finite, and finite
\* sets are well-founded under strict inclusion.
LEMMA LeastNumber ==
    ASSUME NEW T \in SUBSET Nat, T # {}
    PROVE  \E x \in T : \A y \in T : x <= y
  <1> DEFINE U == {0 .. n : n \in T}
             R == StrictSubsetOrdering(Nat)
  <1>1. U \subseteq FiniteSubsetsOf(Nat)
    <2> SUFFICES ASSUME NEW n \in T PROVE 0 .. n \in FiniteSubsetsOf(Nat)
      OBVIOUS
    <2>1. n \in Int /\ IsFiniteSet(0 .. n)
      BY FS_Interval
    <2> QED BY <2>1 DEF FiniteSubsetsOf
  <1>2. U # {}
    OBVIOUS
  <1>3. IsWellFoundedOn(R, FiniteSubsetsOf(Nat))
    BY FS_StrictSubsetOrderingWellFounded
  <1>4. PICK u \in U : \A v \in U : ~(<<v, u>> \in R)
    <2> HIDE DEF U, R
    <2> QED BY <1>1, <1>2, <1>3, WFMin
  <1>5. PICK x \in T : u = 0 .. x
    OBVIOUS
  <1>6. ASSUME NEW y \in T, y < x PROVE FALSE
    <2>1. 0 .. y \subseteq 0 .. x /\ x \in 0 .. x /\ x \notin 0 .. y
      BY <1>6
    <2>2. 0 .. y \in SUBSET Nat /\ 0 .. x \in SUBSET Nat
      OBVIOUS
    <2>3. <<0 .. y, 0 .. x>> \in R
      BY <2>1, <2>2 DEF StrictSubsetOrdering
    <2> QED BY <1>4, <1>5, <2>3
  <1> QED BY <1>6

\* bisect_right: the number of starts up to an address is the place of the last.
LEMMA BisectRight ==
    ASSUME NEW n \in Nat, NEW D \in SUBSET (1 .. n),
           \A i \in D : \A j \in 1 .. n : j < i => j \in D
    PROVE  D = 1 .. Cardinality(D) /\ Cardinality(D) \in Nat /\ Cardinality(D) <= n
  <1> DEFINE T == {x \in Nat : \A i \in D : i <= x}
  <1>1. n \in T
    OBVIOUS
  <1>2. PICK m \in T : \A y \in T : m <= y
    <2>1. T \in SUBSET Nat /\ T # {}
      BY <1>1
    <2> HIDE DEF T
    <2> QED BY <2>1, LeastNumber
  <1>3. m \in Nat /\ m <= n /\ \A i \in D : i <= m
    BY <1>1, <1>2
  <1>4. m = 0 \/ m \in D
    <2> SUFFICES ASSUME m # 0, m \notin D PROVE FALSE
      OBVIOUS
    <2>1. m - 1 \in Nat /\ \A i \in D : i <= m - 1
      BY <1>3
    <2>2. m - 1 \in T
      BY <2>1
    <2>3. m <= m - 1
      BY <1>2, <2>2
    <2> QED BY <2>3, <1>3
  <1>5. D = 1 .. m
    <2>1. ASSUME NEW j \in 1 .. m PROVE j \in D
      <3>1. m \in D /\ j \in 1 .. n /\ (j = m \/ j < m)
        BY <1>3, <1>4
      <3> QED BY <3>1
    <2>2. ASSUME NEW j \in D PROVE j \in 1 .. m
      BY <1>3
    <2> QED BY <2>1, <2>2
  <1>6. Cardinality(1 .. m) = m
    BY <1>3, FS_Interval
  <1> QED BY <1>3, <1>5, <1>6

\* lookup: the network whose range holds the address, unknown if there is none.
LEMMA LookupIsRight ==
    ASSUME NEW ip \in Nat
    PROVE  /\ \A r \in Ranges : r.from <= ip /\ ip <= r.to => Lookup(ip) = r.asn
           /\ (\A r \in Ranges : ~(r.from <= ip /\ ip <= r.to)) => Lookup(ip) = Unknown
  <1> DEFINE n == Len(AsnRows)
             D == {i \in 1 .. n : AsnRows[i].from <= ip}
             k == Cardinality(D)
  <1>1. /\ n \in Nat /\ DOMAIN AsnRows = 1 .. n /\ \A i \in 1 .. n : AsnRows[i] \in Ranges
        /\ \A i, j \in 1 .. n : i < j => AsnRows[i].from < AsnRows[j].from
        /\ \A r \in Ranges : \E i \in 1 .. n : AsnRows[i] = r
    BY AsnRowsAreSorted DEF Range
  <1>2. Lookup(ip) = IF k > 0 /\ AsnRows[k].from <= ip /\ ip <= AsnRows[k].to THEN AsnRows[k].asn ELSE Unknown
    BY <1>1 DEF Lookup
  <1>3. \A i \in D : i \in 1 .. n /\ AsnRows[i].from <= ip
    OBVIOUS
  <1>4. \A i \in 1 .. n : AsnRows[i].from <= ip => i \in D
    OBVIOUS
  <1> HIDE DEF n, D
  <1>5. D = 1 .. k /\ k \in Nat /\ k <= n
    <2>1. ASSUME NEW i \in D, NEW j \in 1 .. n, j < i PROVE j \in D
      <3>1. i \in 1 .. n /\ AsnRows[i].from <= ip
        BY <1>3
      <3>2. AsnRows[i].from \in Nat /\ AsnRows[j].from \in Nat /\ AsnRows[j].from < AsnRows[i].from
        BY <1>1, <2>1, <3>1, RangesAreDisjoint
      <3> QED BY <3>1, <3>2, <1>4
    <2>2. D \in SUBSET (1 .. n)
      BY <1>3
    <2> QED BY <2>1, <2>2, <1>1, BisectRight
  <1> HIDE DEF k
  <1>6. ASSUME NEW r \in Ranges, r.from <= ip, ip <= r.to PROVE Lookup(ip) = r.asn
    <2>1. PICK j \in 1 .. n : AsnRows[j] = r
      BY <1>1
    <2>2. j \in 1 .. k
      BY <1>4, <1>5, <1>6, <2>1
    <2>3. k \in 1 .. n /\ k > 0 /\ k \in D /\ AsnRows[k] \in Ranges /\ AsnRows[k].from <= ip
      BY <1>1, <1>3, <1>5, <2>2
    <2>4. j = k
      <3> SUFFICES ASSUME j < k PROVE FALSE
        BY <2>2, <1>5
      <3>1. r.from < AsnRows[k].from
        BY <1>1, <2>1, <2>3
      <3>2. r = AsnRows[k] \/ r.to < AsnRows[k].from \/ AsnRows[k].to < r.from
        BY <2>3, RangesAreDisjoint
      <3>3. /\ r.from \in Nat /\ r.to \in Nat /\ AsnRows[k].from \in Nat /\ AsnRows[k].to \in Nat
            /\ AsnRows[k].from <= AsnRows[k].to
        BY <2>3, RangesAreDisjoint
      <3> QED BY <1>6, <2>3, <3>1, <3>2, <3>3
    <2> QED BY <1>2, <1>6, <2>1, <2>3, <2>4
  <1>7. ASSUME \A r \in Ranges : ~(r.from <= ip /\ ip <= r.to) PROVE Lookup(ip) = Unknown
    <2>1. CASE k > 0
      <3>1. k \in 1 .. n /\ AsnRows[k] \in Ranges
        BY <1>1, <1>5, <2>1
      <3> QED BY <1>2, <1>7, <3>1
    <2>2. CASE ~(k > 0)
      BY <1>2, <2>2
    <2> QED BY <2>1, <2>2
  <1> QED BY <1>6, <1>7

-----------------------------------------------------------------------------
(* The inductive invariant of the weekly export *)

BothTables == {"sessions", "commands"}
Records == [id : Sessions, cls : BOOLEAN]
Entries == [path : Paths, rows : SUBSET Records, pending : 0 .. Cardinality(Sessions)]

OfWeek(s, protocol, w) == Protocol[s] = protocol /\ WeekOf(Start[s]) = w

\* An entry of a complete week: nothing that happens to the table afterwards can
\* make it wrong, since what is saved into its week now is late.
EntrySound(e) ==
    /\ e \in Entries
    /\ IsComplete(e.path[3], now)
    /\ \A r \in e.rows : r.id \in Rows
    /\ \A s \in Sessions : Timely(s) /\ OfWeek(s, e.path[2], e.path[3]) => s \in Ids(e.rows)
    /\ e.path[2] = "ssh" => Cardinality({r \in e.rows : ~r.cls /\ Timely(r.id)}) <= e.pending

\* The two files of a week enter the manifest together.
ManifestSound ==
    /\ bucket \in [Paths -> SUBSET (Records \cup Missing)]
    /\ \A e \in manifest : EntrySound(e) /\ bucket[e.path] = e.rows
    /\ \A e \in manifest : \A t \in BothTables : \E f \in manifest : f.path = <<t, e.path[2], e.path[3]>>

Runs == [pc : {"protocol", "week", "read", "put", "manifest"}, protocol : 1 .. 2, week : Nat \ {0}, now : Nat,
         manifest : SUBSET Entries, pending : 0 .. Cardinality(Sessions), table : 1 .. 2, chunk : Nat,
         rows : [BothTables -> SUBSET Records]]

RunEntry(t) ==
    [path |-> <<t, Protocols[run.protocol], run.week>>, rows |-> run.rows[t], pending |-> run.pending]

\* The tables whose files the run has uploaded for the week at hand.
Uploaded ==
    CASE run.pc = "manifest" -> BothTables
      [] run.pc = "put" /\ run.table = 2 -> {"sessions"}
      [] OTHER -> {}

\* A run exports a complete week that no entry of the manifest is about; its own
\* manifest has the entries of the files it has uploaded besides.
Working ==
    /\ run \in Runs /\ run.now <= now
    /\ run.manifest = manifest \cup {RunEntry(t) : t \in Uploaded}
    /\ \A t \in Uploaded : bucket[RunEntry(t).path] = run.rows[t]
    /\ run.pc \in {"read", "put", "manifest"} =>
           /\ IsComplete(run.week, run.now)
           /\ \A e \in manifest : ~(e.path[2] = Protocols[run.protocol] /\ e.path[3] = run.week)
    /\ run.pc \in {"put", "manifest"} => \A t \in BothTables : EntrySound(RunEntry(t))

\* The chunks already read hold the sessions of the week that are in time, and the
\* sessions counted as unclassified (or more) include all whose class is missing.
ReadSoFar ==
    /\ run.chunk < WeekLen
    /\ \A t \in BothTables : \A r \in run.rows[t] : r.id \in Rows
    /\ \A n \in 1 .. 2 : \A s \in Sessions :
           Timely(s) /\ OfWeek(s, Protocols[run.protocol], run.week)
           /\ (n < run.table \/ (n = run.table /\ Start[s] < (run.week - 1) * WeekLen + run.chunk))
               => s \in Ids(run.rows[Tables[n]])

PendingCounted ==
    Protocols[run.protocol] = "ssh" =>
        \E P \in SUBSET Sessions :
            /\ Cardinality(P) <= run.pending
            /\ \A s \in Rows \ classified : Timely(s) /\ OfWeek(s, "ssh", run.week) => s \in P
            /\ \A t \in BothTables : \A r \in run.rows[t] : ~r.cls /\ Timely(r.id) => r.id \in P

WeeklyInv ==
    /\ TableType /\ deaths \in 0 .. Deaths /\ ManifestSound
    /\ run = Idle \/ run = Off \/ (Working /\ (run.pc = "read" => ReadSoFar /\ PendingCounted))

-----------------------------------------------------------------------------
(* The inductive invariant of the API exports *)

LocatedRows == {[id |-> s, asn |-> Lookup(Ip[s])] : s \in Sessions}

\* An export has the rows up to its cursor: each once, and one of each session that
\* was there when it started, unless its pages were full when it stopped.
HasId(seq, s) == \E x \in Range(seq) : x.id = s
Capped(what, seq) == what = "sessions" /\ Len(seq) = MaxPages * PageLimit["sessions"]

Apis == [pc : {"fetch", "csv", "json", "summary", "commands"}, what : {"sessions", "commands"},
         cursor : Sessions \cup {"none"}, pages : Nat, got : Seq(RowRecs), there : SUBSET Sessions]

Fetching ==
    /\ api \in Apis
    /\ api.there \subseteq Rows /\ IsInjective(api.got)
    /\ \A x \in Range(api.got) : x.hit \in Joined(api.what, x.id)
    /\ api.pc = "fetch" => /\ Len(api.got) = api.pages * PageLimit[api.what]
                           /\ \A x \in Range(api.got) : ~Beyond(api.what, x.id, api.cursor)
    /\ \A s \in api.there :
           Protocol[s] = "ssh" => \/ HasId(api.got, s)
                                  \/ api.pc = "fetch" /\ Beyond(api.what, s, api.cursor)
                                  \/ api.pc # "fetch" /\ Capped(api.what, api.got)

\* The files of the sessions are located.
DatasetOk ==
    /\ dataset \in [Files -> Seq(LocatedRows \cup RowRecs)]
    /\ \A f \in Files \ {"commands"} : dataset[f] \in Seq(LocatedRows)

ApiInv ==
    /\ TableType /\ exports \in 0 .. Exports
    /\ DatasetOk
    /\ api.pc = "idle" \/ Fetching

-----------------------------------------------------------------------------
(* The API exports *)

\* Two injective sequences without a common element, one after the other.
LEMMA ConcatInjective ==
    ASSUME NEW S, NEW a \in Seq(S), NEW b \in Seq(S), IsInjective(a), IsInjective(b),
           Range(a) \cap Range(b) = {}
    PROVE  a \o b \in Seq(S) /\ IsInjective(a \o b) /\ Range(a \o b) = Range(a) \cup Range(b)
  <1>1. a \o b \in Seq(S) /\ Len(a \o b) = Len(a) + Len(b) /\ Len(a) \in Nat /\ Len(b) \in Nat
        /\ \A i \in 1 .. Len(a) + Len(b) : (a \o b)[i] = IF i <= Len(a) THEN a[i] ELSE b[i - Len(a)]
    BY ConcatProperties, LenProperties
  <1> DEFINE c == a \o b
             m == Len(a)
             n == Len(b)
  <1>2. DOMAIN a = 1 .. m /\ DOMAIN b = 1 .. n /\ DOMAIN c = 1 .. m + n
    BY <1>1, LenProperties
  <1>3. m \in Nat /\ n \in Nat /\ \A i \in 1 .. m + n : c[i] = IF i <= m THEN a[i] ELSE b[i - m]
    BY <1>1
  <1>4. c \in Seq(S)
    BY <1>1
  <1> HIDE DEF c, m, n
  <1>5. \A i \in 1 .. m : \A j \in 1 .. n : a[i] # b[j]
    BY <1>2 DEF Range
  <1>6. ASSUME NEW i \in 1 .. m + n, NEW j \in 1 .. m + n, c[i] = c[j] PROVE i = j
    <2>1. CASE i <= m /\ j <= m
      <3>1. i \in 1 .. m /\ j \in 1 .. m /\ a[i] = a[j]
        BY <1>3, <1>6, <2>1
      <3> QED BY <3>1, <1>2 DEF IsInjective
    <2>2. CASE ~(i <= m) /\ ~(j <= m)
      <3>1. i - m \in 1 .. n /\ j - m \in 1 .. n /\ b[i - m] = b[j - m]
        BY <1>3, <1>6, <2>2
      <3>2. i - m = j - m
        BY <3>1, <1>2 DEF IsInjective
      <3> QED BY <3>2, <1>3
    <2>3. CASE i <= m /\ ~(j <= m)
      <3>1. i \in 1 .. m /\ j - m \in 1 .. n /\ a[i] = b[j - m]
        BY <1>3, <1>6, <2>3
      <3> QED BY <3>1, <1>5
    <2>4. CASE ~(i <= m) /\ j <= m
      <3>1. j \in 1 .. m /\ i - m \in 1 .. n /\ a[j] = b[i - m]
        BY <1>3, <1>6, <2>4
      <3> QED BY <3>1, <1>5
    <2> QED BY <2>1, <2>2, <2>3, <2>4
  <1>7. Range(c) = Range(a) \cup Range(b)
    <2>1. ASSUME NEW i \in 1 .. m + n PROVE c[i] \in Range(a) \cup Range(b)
      <3>1. CASE i <= m
        <4>1. i \in 1 .. m /\ c[i] = a[i]
          BY <1>3, <3>1
        <4> QED BY <4>1, <1>2 DEF Range
      <3>2. CASE ~(i <= m)
        <4>1. i - m \in 1 .. n /\ c[i] = b[i - m]
          BY <1>3, <3>2
        <4> QED BY <4>1, <1>2 DEF Range
      <3> QED BY <3>1, <3>2
    <2>2. ASSUME NEW i \in 1 .. m PROVE a[i] \in Range(c)
      <3>1. i \in 1 .. m + n /\ c[i] = a[i]
        BY <1>3
      <3> QED BY <3>1, <1>2 DEF Range
    <2>3. ASSUME NEW i \in 1 .. n PROVE b[i] \in Range(c)
      <3>1. i + m \in 1 .. m + n /\ (i + m) - m = i /\ ~(i + m <= m)
        BY <1>3
      <3>2. c[i + m] = b[i]
        BY <1>3, <3>1
      <3> QED BY <3>1, <3>2, <1>2 DEF Range
    <2> QED BY <2>1, <2>2, <2>3, <1>2 DEF Range
  <1>8. IsInjective(c)
    BY <1>2, <1>6 DEF IsInjective
  <1> QED BY <1>4, <1>7, <1>8 DEF c

LEMMA EnrichedType ==
    ASSUME NEW got \in Seq(RowRecs)
    PROVE  Enriched(got) \in Seq(LocatedRows)
  <1>1. Len(got) \in Nat /\ DOMAIN got = 1 .. Len(got) /\ \A i \in 1 .. Len(got) : got[i] \in RowRecs
    BY LenProperties, ElementOfSeq
  <1>2. \A i \in 1 .. Len(got) : [id |-> got[i].id, asn |-> Lookup(Ip[got[i].id])] \in LocatedRows
    BY <1>1 DEF LocatedRows, RowRecs
  <1>3. Enriched(got) \in [1 .. Len(got) -> LocatedRows]
    BY <1>1, <1>2 DEF Enriched
  <1> QED BY <1>1, <1>3, SeqDef

LEMMA ApiInitially == Init => ApiInv
  <1> SUFFICES ASSUME Init PROVE ApiInv
    OBVIOUS
  <1> USE DEF Init, TableInit, ApiInit
  <1>1. TableType
    BY TableParts DEF TableType
  <1>2. exports \in 0 .. Exports
    BY ApiAssumption
  <1>3. DatasetOk
    <2>1. <<>> \in Seq(LocatedRows) /\ <<>> \in Seq(LocatedRows \cup RowRecs)
      OBVIOUS
    <2> QED BY <2>1 DEF DatasetOk
  <1> QED BY <1>1, <1>2, <1>3 DEF ApiInv

LEMMA TableTypeKept ==
    ASSUME TableType, TableStep \/ UNCHANGED tableVars
    PROVE  TableType' /\ Rows \subseteq Rows'
  <1>1. CASE Tick
    BY <1>1, TableParts DEF TableType, Tick
  <1>2. CASE \E s \in Sessions : Insert(s)
    BY <1>2 DEF TableType, Insert
  <1>3. CASE \E s \in Sessions : Classify(s)
    BY <1>3 DEF TableType, Classify
  <1>4. CASE UNCHANGED tableVars
    BY <1>4 DEF TableType, tableVars
  <1> QED BY <1>1, <1>2, <1>3, <1>4 DEF TableStep

\* A cursor is as far as the last page: what a page leaves out comes after it, or
\* is another row of the command it ends with.
LEMMA FetchPageKeeps ==
    ASSUME TableType, Fetching, FetchPage, Rows' = Rows
    PROVE  Fetching'
  <1> DEFINE page == Page(api.what, api.cursor)
             next == NextCursor(api.what, page)
             pages == api.pages + 1
             lim == PageLimit[api.what]
             pc == IF next # "none" /\ ~AtCap(api.what, pages) THEN "fetch"
                   ELSE IF api.what = "sessions" THEN "csv" ELSE "commands"
             left == Left(api.what, api.cursor)
  <1>1. /\ api \in Apis /\ api.pc = "fetch"
        /\ api.there \subseteq Rows /\ IsInjective(api.got)
        /\ \A x \in Range(api.got) : x.hit \in Joined(api.what, x.id)
        /\ Len(api.got) = api.pages * lim
        /\ \A x \in Range(api.got) : ~Beyond(api.what, x.id, api.cursor)
        /\ \A s \in api.there :
               Protocol[s] = "ssh" => HasId(api.got, s) \/ Beyond(api.what, s, api.cursor)
    BY DEF Fetching, FetchPage
  <1>2. api' = [api EXCEPT !.got = @ \o page, !.cursor = next, !.pages = pages, !.pc = pc]
    BY DEF FetchPage
  <1>3. Rows \subseteq Sessions /\ api.what \in {"sessions", "commands"} /\ api.got \in Seq(RowRecs)
        /\ api.cursor \in Sessions \cup {"none"} /\ api.there \subseteq Sessions /\ api.pages \in Nat
    BY <1>1 DEF TableType, Apis
  <1>4. /\ page \in Seq(left) /\ IsInjective(page) /\ Len(page) <= lim
        /\ Len(page) < lim => Range(page) = left
        /\ Len(page) = lim =>
               /\ page[Len(page)] \in left
               /\ \A x \in left : \/ x \in Range(page) \/ x.id = page[Len(page)].id
                                  \/ Beyond(api.what, x.id, page[Len(page)].id)
               /\ \A x \in Range(page) : ~Beyond(api.what, x.id, page[Len(page)].id)
    BY <1>3, PageProperties
  <1>5. /\ left \subseteq RowRecs
        /\ \A x \in left : x.id \in Sessions /\ x.hit \in Joined(api.what, x.id) /\ Beyond(api.what, x.id, api.cursor)
        /\ \A s \in Rows : Protocol[s] = "ssh" /\ Beyond(api.what, s, api.cursor) => \E x \in left : x.id = s
    <2>1. LeftIs(api.what, api.cursor)
      BY <1>3, LeftParts
    <2> QED BY <2>1 DEF LeftIs, RowRecs
  <1>6. next = IF Len(page) = lim THEN page[Len(page)].id ELSE "none"
    BY DEF NextCursor
  <1>7. lim \in Nat \ {0} /\ "none" \notin Sessions /\ pages \in Nat
    BY <1>3, ApiAssumption
  <1> HIDE DEF page, left, next, lim, pages
  <1>8. Range(page) \subseteq left /\ page \in Seq(RowRecs) /\ Len(page) \in Nat
    <2>1. Range(page) \subseteq left
      BY <1>4, RangeOfSeq DEF Range
    <2>2. page \in Seq(RowRecs)
      BY <1>4, <1>5, SeqMonotonic
    <2> QED BY <2>1, <2>2, LenProperties
  <1>9. Range(api.got) \cap Range(page) = {}
    BY <1>1, <1>5, <1>8
  <1> DEFINE all == api.got \o page
  <1>10. all \in Seq(RowRecs) /\ IsInjective(all) /\ Range(all) = Range(api.got) \cup Range(page)
    BY <1>1, <1>3, <1>4, <1>8, <1>9, ConcatInjective
  <1>11. Len(all) = Len(api.got) + Len(page) /\ Len(api.got) \in Nat
    BY <1>3, <1>8
  <1>12. next \in Sessions \cup {"none"}
    BY <1>4, <1>5, <1>6
  <1>13. /\ pc \in {"fetch", "csv", "commands"}
         /\ pc = "fetch" => next # "none"
         /\ pc # "fetch" => next = "none" \/ (api.what = "sessions" /\ pages = MaxPages)
    BY DEF AtCap
  <1> HIDE DEF pc, all
  <1>14. /\ api' \in Apis /\ api'.pc = pc /\ api'.what = api.what /\ api'.cursor = next /\ api'.pages = pages
         /\ api'.got = all /\ api'.there = api.there
    <2>1. api' = [api EXCEPT !.got = all, !.cursor = next, !.pages = pages, !.pc = pc]
      BY <1>1, <1>2 DEF all, Apis
    <2> QED BY <1>1, <1>7, <1>10, <1>12, <1>13, <2>1 DEF Apis
  <1>15. ASSUME next # "none"
         PROVE  /\ Len(page) = lim
                /\ \E x \in left : x.id = next /\ x \in Range(page)
                /\ \A x \in left : x \in Range(page) \/ x.id = next \/ Beyond(api.what, x.id, next)
                /\ \A x \in Range(page) : ~Beyond(api.what, x.id, next)
    <2>1. Len(page) = lim /\ next = page[Len(page)].id
      BY <1>6, <1>15
    <2>2. page[Len(page)] \in left /\ page[Len(page)] \in Range(page)
      <3>1. Len(page) \in DOMAIN page
        BY <1>7, <1>8, <2>1
      <3> QED BY <1>4, <2>1, <3>1 DEF Range
    <2> QED BY <1>4, <2>1, <2>2
  <1>16. ASSUME next # "none", NEW x \in Range(api.got) \cup Range(page)
         PROVE  ~Beyond(api.what, x.id, next)
    <2>1. CASE x \in Range(page)
      BY <1>15, <1>16, <2>1
    <2>2. CASE x \in Range(api.got)
      <3>1. ~Beyond(api.what, x.id, api.cursor) /\ Beyond(api.what, next, api.cursor) /\ next \in Sessions
        BY <1>1, <1>5, <1>15, <1>16, <2>2
      <3>2. api.cursor \in Sessions
        BY <1>3, <3>1 DEF Beyond
      <3>3. x.id \in Sessions
        <4>1. x \in RowRecs
          BY <1>3, <2>2, RangeOfSeq DEF Range
        <4> QED BY <4>1 DEF RowRecs
      <3>4. ~Later(api.what, api.cursor, x.id) /\ Later(api.what, api.cursor, next)
        BY <1>3, <3>1, <3>2, <3>3, BeyondIsLater
      <3>5. ~Later(api.what, next, x.id)
        BY <3>1, <3>2, <3>3, <3>4, LaterIsOrder
      <3> QED BY <1>3, <3>1, <3>3, <3>5, BeyondIsLater
    <2> QED BY <1>16, <2>1, <2>2
  <1>17. ASSUME NEW s \in api.there, Protocol[s] = "ssh"
         PROVE  HasId(all, s) \/ (next # "none" /\ Beyond(api.what, s, next))
    <2>1. HasId(api.got, s) \/ \E x \in left : x.id = s
      BY <1>1, <1>5, <1>17
    <2>2. CASE HasId(api.got, s)
      BY <1>10, <2>2 DEF HasId
    <2>3. ASSUME NEW x \in left, x.id = s, next = "none" PROVE HasId(all, s)
      <3>1. Len(page) # lim
        BY <1>4, <1>5, <1>6, <1>7, <2>3
      <3>2. Range(page) = left
        BY <1>4, <1>7, <1>8, <3>1
      <3> QED BY <1>10, <2>3, <3>2 DEF HasId
    <2>4. ASSUME NEW x \in left, x.id = s, next # "none" PROVE HasId(all, s) \/ Beyond(api.what, s, next)
      BY <1>10, <1>15, <2>4 DEF HasId
    <2> QED BY <2>1, <2>2, <2>3, <2>4
  <1>18. ASSUME next # "none" PROVE Len(all) = pages * lim
    <2>1. Len(all) = api.pages * lim + lim
      BY <1>1, <1>11, <1>15, <1>18
    <2>2. ASSUME NEW m \in Nat, NEW n \in Nat PROVE (m + 1) * n = m * n + n
      OBVIOUS
    <2> QED BY <1>3, <1>7, <2>1, <2>2 DEF pages
  <1>19. ASSUME pc # "fetch", next # "none" PROVE Capped(api.what, all)
    BY <1>13, <1>18, <1>19 DEF Capped, lim
  <1>20. api'.there \subseteq Rows' /\ IsInjective(api'.got)
    BY <1>1, <1>10, <1>14
  <1>21. \A x \in Range(api'.got) : x.hit \in Joined(api'.what, x.id)
    BY <1>1, <1>5, <1>8, <1>10, <1>14
  <1>22. api'.pc = "fetch" => /\ Len(api'.got) = api'.pages * PageLimit[api'.what]
                              /\ \A x \in Range(api'.got) : ~Beyond(api'.what, x.id, api'.cursor)
    BY <1>10, <1>13, <1>14, <1>16, <1>18 DEF lim
  <1>23. \A s \in api'.there :
             Protocol[s] = "ssh" => \/ HasId(api'.got, s)
                                    \/ api'.pc = "fetch" /\ Beyond(api'.what, s, api'.cursor)
                                    \/ api'.pc # "fetch" /\ Capped(api'.what, api'.got)
    BY <1>13, <1>14, <1>17, <1>19
  <1> QED BY <1>14, <1>20, <1>21, <1>22, <1>23 DEF Fetching

\* A file is written and the export goes on with what it has fetched.
LEMMA WriteKeeps ==
    ASSUME ApiInv, Rows' = Rows, NEW f \in Files, NEW pc \in {"json", "summary", "idle"},
           api.pc \in {"csv", "json", "summary", "commands"},
           dataset' = [dataset EXCEPT ![f] = IF f = "commands" THEN api.got ELSE Enriched(api.got)],
           api' = [api EXCEPT !.pc = pc]
    PROVE  DatasetOk' /\ (api'.pc = "idle" \/ Fetching')
  <1>1. Fetching /\ DatasetOk /\ api \in Apis
    BY DEF ApiInv, Fetching
  <1>2. api.got \in Seq(RowRecs)
    BY <1>1 DEF Apis
  <1>3. DatasetOk'
    <2>1. Enriched(api.got) \in Seq(LocatedRows)
      BY <1>2, EnrichedType
    <2>2. Enriched(api.got) \in Seq(LocatedRows \cup RowRecs) /\ api.got \in Seq(LocatedRows \cup RowRecs)
      BY <1>2, <2>1, SeqMonotonic
    <2> QED BY <1>1, <2>1, <2>2 DEF DatasetOk
  <1>4. CASE pc = "idle"
    <2>1. api'.pc = "idle"
      BY <1>1, <1>4 DEF Apis
    <2> QED BY <2>1, <1>3
  <1>5. CASE pc # "idle"
    <2>1. /\ api' \in Apis /\ api'.pc = pc /\ api'.pc # "fetch" /\ api.pc # "fetch" /\ api'.what = api.what
          /\ api'.got = api.got /\ api'.there = api.there
      BY <1>1, <1>5 DEF Apis
    <2>2. Fetching'
      BY <1>1, <2>1 DEF Fetching
    <2> QED BY <2>2, <1>3
  <1> QED BY <1>4, <1>5

LEMMA ApiKept == ApiInv /\ [Next]_vars => ApiInv'
  <1> SUFFICES ASSUME ApiInv, [Next]_vars PROVE ApiInv'
    OBVIOUS
  <1>1. TableType /\ exports \in 0 .. Exports /\ DatasetOk
        /\ (api.pc = "idle" \/ Fetching)
    BY DEF ApiInv
  <1>2. TableType' /\ Rows \subseteq Rows'
    BY <1>1, TableTypeKept DEF Next, vars
  <1>3. CASE UNCHANGED apiVars
    <2>1. Fetching => Fetching'
      BY <1>2, <1>3 DEF Fetching, apiVars
    <2> QED BY <1>1, <1>2, <1>3, <2>1 DEF ApiInv, DatasetOk, apiVars
  <1>4. CASE ApiStep /\ UNCHANGED tableVars
    <2>1. Rows' = Rows
      BY <1>4 DEF tableVars
    <2>2. ASSUME NEW what \in {"sessions", "commands"}, StartExport(what)
          PROVE  ApiInv'
      <3>1. /\ api' = [pc |-> "fetch", what |-> what, cursor |-> "none", pages |-> 0, got |-> <<>>, there |-> Rows]
            /\ exports > 0 /\ exports' = exports - 1 /\ dataset' = dataset
        BY <2>2 DEF StartExport
      <3>2. exports' \in 0 .. Exports
        BY <1>1, <3>1, ApiAssumption
      <3>3. Fetching'
        <4>1. IsInjective(<<>>) /\ Range(<<>>) = {} /\ <<>> \in Seq(RowRecs) /\ Len(<<>>) = 0
          BY DEF IsInjective, Range
        <4>2. Rows \subseteq Sessions
          BY <1>1 DEF TableType
        <4>3. /\ api' \in Apis /\ api'.pc = "fetch" /\ api'.got = <<>> /\ api'.there = Rows /\ api'.cursor = "none"
              /\ api'.pages = 0 /\ api'.what = what
          BY <3>1, <4>1, <4>2 DEF Apis
        <4>4. Len(api'.got) = api'.pages * PageLimit[api'.what]
          <5>1. PageLimit[what] \in Nat
            BY ApiAssumption
          <5> QED BY <4>1, <4>3, <5>1
        <4>5. \A s : Beyond(api'.what, s, api'.cursor)
          BY <4>3 DEF Beyond
        <4> QED BY <2>1, <4>1, <4>3, <4>4, <4>5 DEF Fetching
      <3> QED BY <1>1, <1>2, <3>1, <3>2, <3>3 DEF ApiInv, DatasetOk
    <2>3. CASE FetchPage
      <3>1. Fetching'
        BY <1>1, <2>1, <2>3, FetchPageKeeps DEF FetchPage
      <3> QED BY <1>1, <1>2, <2>3, <3>1 DEF ApiInv, FetchPage, DatasetOk
    <2>4. CASE WriteCsv \/ WriteJson \/ WriteSummary \/ WriteCommands
      <3>1. exports' = exports
        BY <2>4 DEF WriteCsv, WriteJson, WriteSummary, WriteCommands
      <3>2. DatasetOk' /\ (api'.pc = "idle" \/ Fetching')
        <4>1. CASE WriteCsv
          BY <4>1, <2>1, WriteKeeps DEF WriteCsv, Files
        <4>2. CASE WriteJson
          BY <4>2, <2>1, WriteKeeps DEF WriteJson, Files
        <4>3. CASE WriteSummary
          BY <4>3, <2>1, WriteKeeps DEF WriteSummary, Files
        <4>4. CASE WriteCommands
          BY <4>4, <2>1, WriteKeeps DEF WriteCommands, Files
        <4> QED BY <2>4, <4>1, <4>2, <4>3, <4>4
      <3> QED BY <1>1, <1>2, <3>1, <3>2 DEF ApiInv
    <2>5. CASE FetchFails
      <3>1. api \in Apis
        BY <1>1, <2>5 DEF FetchFails, Fetching
      <3>2. api'.pc = "idle"
        BY <2>5, <3>1 DEF FetchFails, Apis
      <3> QED BY <1>1, <1>2, <2>5, <3>2 DEF ApiInv, FetchFails, DatasetOk
    <2> QED BY <1>4, <2>2, <2>3, <2>4, <2>5 DEF ApiStep
  <1> QED BY <1>3, <1>4 DEF Next, vars

LEMMA ApiAlways == Spec => []ApiInv
  BY ApiInitially, ApiKept, PTL DEF Spec

\* Every exported row is located by lookup, and that finds its range.
LEMMA ApiGives == ApiInv => RowsSound /\ ApiType
  <1> SUFFICES ASSUME ApiInv PROVE RowsSound /\ ApiType
    OBVIOUS
  <1>1. exports \in 0 .. Exports /\ DatasetOk /\ (api.pc = "idle" \/ Fetching)
    BY DEF ApiInv
  <1>2. FetchedOnce
    <2> SUFFICES ASSUME api.pc \in {"csv", "json", "summary", "commands"}
                 PROVE  /\ \/ {s \in api.there : Protocol[s] = "ssh"} \subseteq {api.got[i].id : i \in DOMAIN api.got}
                           \/ api.what = "sessions" /\ Len(api.got) = MaxPages * PageLimit["sessions"]
                        /\ \A s \in Sessions : Cardinality({i \in DOMAIN api.got : api.got[i].id = s})
                                               <= Cardinality(Joined(api.what, s))
      BY DEF FetchedOnce
    <2>1. Fetching /\ api.pc # "fetch"
      BY <1>1
    <2>2. \A s \in api.there : Protocol[s] = "ssh" => HasId(api.got, s) \/ Capped(api.what, api.got)
      BY <2>1 DEF Fetching
    <2>3. \/ {s \in api.there : Protocol[s] = "ssh"} \subseteq {api.got[i].id : i \in DOMAIN api.got}
          \/ api.what = "sessions" /\ Len(api.got) = MaxPages * PageLimit["sessions"]
      BY <2>2 DEF HasId, Capped, Range
    <2>4. ASSUME NEW s \in Sessions
          PROVE  Cardinality({i \in DOMAIN api.got : api.got[i].id = s}) <= Cardinality(Joined(api.what, s))
      <3> DEFINE I == {i \in DOMAIN api.got : api.got[i].id = s}
                 h == [i \in I |-> api.got[i].hit]
      <3>1. \A i \in I : h[i] \in Joined(api.what, s)
        BY <2>1 DEF Fetching, Range
      <3>2. ASSUME NEW i \in I, NEW j \in I, h[i] = h[j] PROVE i = j
        <4>1. api.got \in Seq(RowRecs) /\ IsInjective(api.got)
          BY <2>1 DEF Fetching, Apis
        <4>2. api.got[i] \in RowRecs /\ api.got[j] \in RowRecs
          BY <4>1
        <4>3. api.got[i] = api.got[j]
          BY <3>2, <4>2 DEF RowRecs
        <4> QED BY <4>1, <4>3 DEF IsInjective
      <3>3. h \in [I -> Joined(api.what, s)]
        BY <3>1
      <3> HIDE DEF h, I
      <3>4. h \in Injection(I, Joined(api.what, s))
        BY <3>2, <3>3, Fun_IsInj
      <3>5. IsFiniteSet(Joined(api.what, s))
        BY JoinedParts
      <3>6. Cardinality(I) <= Cardinality(Joined(api.what, s))
        BY <3>4, <3>5, FS_Injection
      <3> QED BY <3>6 DEF I
    <2> QED BY <2>3, <2>4
  <1>3. RowsAreLocated
    <2> SUFFICES ASSUME NEW f \in Files \ {"commands"}, NEW i \in DOMAIN dataset[f]
                 PROVE  LET row == dataset[f][i]
                            homes == {r \in Range(AsnFile) : r.from <= Ip[row.id] /\ Ip[row.id] <= r.to}
                        IN  IF homes = {} THEN row.asn = Unknown ELSE \E r \in homes : row.asn = r.asn
      BY DEF RowsAreLocated
    <2>1. dataset[f][i] \in LocatedRows
      <3>1. dataset[f] \in Seq(LocatedRows)
        BY <1>1 DEF DatasetOk
      <3> QED BY <3>1, LenProperties, ElementOfSeq
    <2>2. PICK s \in Sessions : dataset[f][i] = [id |-> s, asn |-> Lookup(Ip[s])]
      BY <2>1 DEF LocatedRows
    <2> DEFINE ip == Ip[s]
               homes == {r \in Range(AsnFile) : r.from <= ip /\ ip <= r.to}
    <2>3. ip \in Nat
      BY ApiAssumption
    <2>4. dataset[f][i].id = s /\ dataset[f][i].asn = Lookup(ip)
      BY <2>2
    <2> HIDE DEF ip
    <2>5. \A r \in homes : r \in Ranges /\ r.from <= ip /\ ip <= r.to
      BY <2>3 DEF Ranges, Malformed
    <2>6. \A r \in Ranges : r.from <= ip /\ ip <= r.to => r \in homes
      BY DEF Ranges
    <2> HIDE DEF homes
    <2>7. CASE homes = {}
      <3>1. Lookup(ip) = Unknown
        BY <2>3, <2>6, <2>7, LookupIsRight
      <3> QED BY <2>4, <2>7, <3>1 DEF homes, ip
    <2>8. CASE homes # {}
      <3>1. PICK r \in homes : TRUE
        BY <2>8
      <3>2. Lookup(ip) = r.asn
        BY <2>3, <2>5, LookupIsRight
      <3> QED BY <2>4, <2>8, <3>2 DEF homes, ip
    <2> QED BY <2>7, <2>8
  <1>4. ApiType
    BY <1>1 DEF ApiType, Fetching, Apis, DatasetOk
  <1> QED BY <1>2, <1>3, <1>4 DEF RowsSound

-----------------------------------------------------------------------------
(* The weekly export: what the table may do to it *)

LEMMA Names ==
    /\ Tables[1] = "sessions" /\ Tables[2] = "commands" /\ Len(Tables) = 2 /\ Range(Tables) = BothTables
    /\ Len(Protocols) = 2 /\ Range(Protocols) = {"ssh", "telnet"}
    /\ \A p \in 1 .. 2 : Protocols[p] \in {"ssh", "telnet"}
    /\ \A n \in 1 .. 2 : Tables[n] \in BothTables
  <1>1. Tables[1] = "sessions" /\ Tables[2] = "commands" /\ Len(Tables) = 2 /\ DOMAIN Tables = 1 .. 2
    BY DEF Tables
  <1>2. Protocols[1] = "ssh" /\ Protocols[2] = "telnet" /\ Len(Protocols) = 2 /\ DOMAIN Protocols = 1 .. 2
    BY DEF Protocols
  <1>3. Range(Tables) = BothTables
    <2>1. Range(Tables) = {Tables[i] : i \in 1 .. 2}
      BY <1>1 DEF Range
    <2>2. \A i \in 1 .. 2 : i = 1 \/ i = 2
      OBVIOUS
    <2> QED BY <1>1, <2>1, <2>2 DEF BothTables
  <1>4. Range(Protocols) = {"ssh", "telnet"}
    <2>1. Range(Protocols) = {Protocols[i] : i \in 1 .. 2}
      BY <1>2 DEF Range
    <2>2. \A i \in 1 .. 2 : i = 1 \/ i = 2
      OBVIOUS
    <2> QED BY <1>2, <2>1, <2>2
  <1>5. \A i \in 1 .. 2 : i = 1 \/ i = 2
    OBVIOUS
  <1> QED BY <1>1, <1>2, <1>3, <1>4, <1>5 DEF BothTables

\* The path of a file of a complete week.
LEMMA PathType ==
    ASSUME NEW t \in BothTables, NEW p \in 1 .. 2, NEW w \in Weeks
    PROVE  <<t, Protocols[p], w>> \in Paths
  BY Names DEF Paths

\* Rows are only added, and what is added to a complete week is late.
LEMMA TableFacts ==
    ASSUME TableType, TableStep \/ UNCHANGED tableVars
    PROVE  /\ now \in Nat /\ now' \in Nat /\ now <= now' /\ now' <= MaxTime
           /\ \A s \in Rows : s \in Rows' /\ (Timely(s)' <=> Timely(s))
           /\ \A s \in Sessions : Timely(s)' /\ IsComplete(WeekOf(Start[s]), now) => Timely(s)
           /\ classified \subseteq classified'
  <1>1. CASE Tick
    BY <1>1, TableParts DEF TableType, Tick, Timely
  <1>2. ASSUME NEW x \in Sessions, Insert(x)
        PROVE  /\ now \in Nat /\ now' \in Nat /\ now <= now' /\ now' <= MaxTime
               /\ \A s \in Rows : s \in Rows' /\ (Timely(s)' <=> Timely(s))
               /\ \A s \in Sessions : Timely(s)' /\ IsComplete(WeekOf(Start[s]), now) => Timely(s)
               /\ classified \subseteq classified'
    <2>1. /\ now \in Nat /\ now' = now /\ now <= MaxTime /\ classified' = classified
          /\ x \notin Rows /\ Rows' = Rows \cup {x}
          /\ late' = IF now >= EndOf(WeekOf(Start[x])) + Lag THEN late \cup {x} ELSE late
      BY <1>2, TableParts DEF TableType, Insert
    <2>2. \A s \in Rows : s \in Rows' /\ (Timely(s)' <=> Timely(s))
      BY <2>1 DEF Timely
    <2>3. ASSUME NEW s \in Sessions, Timely(s)', IsComplete(WeekOf(Start[s]), now) PROVE Timely(s)
      <3>1. CASE s = x
        <4>1. EndOf(WeekOf(Start[x])) \in Nat
          BY TableParts, WeekBounds DEF EndOf
        <4>2. now >= EndOf(WeekOf(Start[x])) + Lag
          BY <2>1, <2>3, <3>1, <4>1, TableParts DEF IsComplete
        <4> QED BY <2>1, <2>3, <3>1, <4>2 DEF Timely
      <3>2. CASE s # x
        BY <2>1, <2>3, <3>2 DEF Timely
      <3> QED BY <3>1, <3>2
    <2> QED BY <2>1, <2>2, <2>3
  <1>3. CASE \E s \in Sessions : Classify(s)
    BY <1>3, TableParts DEF TableType, Classify, Timely
  <1>4. CASE UNCHANGED tableVars
    BY <1>4, TableParts DEF TableType, tableVars, Timely
  <1> QED BY <1>1, <1>2, <1>3, <1>4 DEF TableStep

LEMMA EntryParts ==
    ASSUME NEW e \in Entries
    PROVE  /\ e.path \in Paths /\ e.path = <<e.path[1], e.path[2], e.path[3]>>
           /\ e.path[1] \in BothTables /\ e.path[2] \in {"ssh", "telnet"}
           /\ e.path[3] \in Weeks /\ e.path[3] \in Nat /\ e.path[3] >= 1
           /\ e.rows \subseteq Records /\ e.pending \in Nat /\ e.pending \in 0 .. Cardinality(Sessions)
  <1>1. e.path \in Paths /\ e.rows \subseteq Records /\ e.pending \in 0 .. Cardinality(Sessions)
    BY DEF Entries
  <1>2. Cardinality(Sessions) \in Nat
    BY TableParts, FS_CardinalityType
  <1>3. e.path \in BothTables \X {"ssh", "telnet"} \X Weeks
    BY <1>1, Names DEF Paths
  <1>4. \A w \in Weeks : w \in Nat /\ w >= 1
    BY TableParts DEF Weeks
  <1> QED BY <1>1, <1>2, <1>3, <1>4

LEMMA EntryStable ==
    ASSUME TableType, TableStep \/ UNCHANGED tableVars, NEW e, EntrySound(e)
    PROVE  EntrySound(e)'
  <1>1. /\ e \in Entries /\ IsComplete(e.path[3], now)
        /\ \A r \in e.rows : r.id \in Rows
        /\ \A s \in Sessions : Timely(s) /\ OfWeek(s, e.path[2], e.path[3]) => s \in Ids(e.rows)
        /\ e.path[2] = "ssh" => Cardinality({r \in e.rows : ~r.cls /\ Timely(r.id)}) <= e.pending
    BY DEF EntrySound
  <1>2. IsComplete(e.path[3], now')
    BY <1>1, TableFacts, EntryParts, CompleteLater
  <1>3. \A r \in e.rows : r.id \in Rows'
    BY <1>1, TableFacts
  <1>4. ASSUME NEW s \in Sessions, Timely(s)', OfWeek(s, e.path[2], e.path[3]) PROVE s \in Ids(e.rows)
    <2>1. Timely(s)
      BY <1>1, <1>4, TableFacts DEF OfWeek
    <2> QED BY <1>1, <1>4, <2>1
  <1>5. {r \in e.rows : ~r.cls /\ Timely(r.id)'} = {r \in e.rows : ~r.cls /\ Timely(r.id)}
    BY <1>1, TableFacts
  <1>6. e.path[2] = "ssh" => Cardinality({r \in e.rows : ~r.cls /\ Timely(r.id)'}) <= e.pending
    BY <1>1, <1>5
  <1> QED BY <1>1, <1>2, <1>3, <1>4, <1>6 DEF EntrySound, OfWeek, Ids, IsComplete

\* Nothing the table does disturbs the export.
LEMMA TableKeepsExport ==
    ASSUME WeeklyInv, TableStep \/ UNCHANGED tableVars, UNCHANGED exportVars
    PROVE  WeeklyInv'
  <1> USE DEF exportVars
  <1>1. TableType /\ TableType'
    BY TableTypeKept DEF WeeklyInv
  <1>2. ManifestSound'
    <2>1. \A e \in manifest : EntrySound(e)'
      BY <1>1, EntryStable DEF WeeklyInv, ManifestSound
    <2> QED BY <2>1 DEF WeeklyInv, ManifestSound
  <1>3. ASSUME Working PROVE Working'
    <2>1. /\ run \in Runs /\ run.now <= now
          /\ run.manifest = manifest \cup {RunEntry(t) : t \in Uploaded}
          /\ \A t \in Uploaded : bucket[RunEntry(t).path] = run.rows[t]
          /\ run.pc \in {"read", "put", "manifest"} =>
                 /\ IsComplete(run.week, run.now)
                 /\ \A e \in manifest : ~(e.path[2] = Protocols[run.protocol] /\ e.path[3] = run.week)
          /\ run.pc \in {"put", "manifest"} => \A t \in BothTables : EntrySound(RunEntry(t))
      BY <1>3 DEF Working
    <2>2. run' \in Runs /\ run'.now <= now'
      <3>1. run.now \in Nat
        BY <2>1 DEF Runs
      <3> QED BY <1>1, <2>1, <3>1, TableFacts
    <2>3. Uploaded' = Uploaded /\ \A t : RunEntry(t)' = RunEntry(t)
      BY DEF Uploaded, RunEntry
    <2>4. ASSUME run.pc \in {"put", "manifest"}, NEW t \in BothTables PROVE EntrySound(RunEntry(t))'
      <3>1. PICK e : e = RunEntry(t)
        OBVIOUS
      <3>2. EntrySound(e)
        BY <2>1, <2>4, <3>1
      <3>3. EntrySound(e)'
        BY <1>1, <3>2, EntryStable
      <3>4. e = RunEntry(t)'
        BY <2>3, <3>1
      <3> QED BY <3>3, <3>4
    <2>5. run'.manifest = manifest' \cup {RunEntry(t)' : t \in Uploaded'}
      BY <2>1, <2>3
    <2>6. \A t \in Uploaded' : bucket'[RunEntry(t)'.path] = run'.rows[t]
      BY <2>1, <2>3
    <2>7. run'.pc \in {"read", "put", "manifest"} =>
              /\ IsComplete(run'.week, run'.now)
              /\ \A e \in manifest' : ~(e.path[2] = Protocols[run'.protocol] /\ e.path[3] = run'.week)
      BY <2>1
    <2> QED BY <2>2, <2>4, <2>5, <2>6, <2>7 DEF Working, IsComplete
  <1>4. ASSUME Working, run.pc = "read", ReadSoFar, PendingCounted PROVE ReadSoFar' /\ PendingCounted'
    <2>1. IsComplete(run.week, now)
      <3>1. run.week \in Nat /\ run.now \in Nat /\ run.now <= now /\ IsComplete(run.week, run.now)
        BY <1>4 DEF Working, Runs
      <3> QED BY <3>1, <1>1, TableFacts, CompleteLater
    <2>2. \A s \in Sessions : Timely(s)' /\ WeekOf(Start[s]) = run.week => Timely(s)
      BY <1>1, <2>1, TableFacts
    <2>3. ReadSoFar'
      <3>1. \A t \in BothTables : \A r \in run.rows[t] : r.id \in Rows'
        BY <1>1, <1>4, TableFacts DEF ReadSoFar
      <3>2. ASSUME NEW n \in 1 .. 2, NEW s \in Sessions, Timely(s)', OfWeek(s, Protocols[run.protocol], run.week),
                   n < run.table \/ (n = run.table /\ Start[s] < (run.week - 1) * WeekLen + run.chunk)
            PROVE  s \in Ids(run.rows[Tables[n]])
        <4>1. Timely(s)
          BY <2>2, <3>2 DEF OfWeek
        <4> QED BY <1>4, <3>2, <4>1 DEF ReadSoFar
      <3> QED BY <1>4, <3>1, <3>2 DEF ReadSoFar, OfWeek, Ids
    <2>4. PendingCounted'
      <3> SUFFICES ASSUME Protocols[run.protocol] = "ssh" PROVE PendingCounted'
        BY DEF PendingCounted
      <3>1. PICK P \in SUBSET Sessions :
                /\ Cardinality(P) <= run.pending
                /\ \A s \in Rows \ classified : Timely(s) /\ OfWeek(s, "ssh", run.week) => s \in P
                /\ \A t \in BothTables : \A r \in run.rows[t] : ~r.cls /\ Timely(r.id) => r.id \in P
        BY <1>4 DEF PendingCounted
      <3>2. ASSUME NEW s \in Rows' \ classified', Timely(s)', OfWeek(s, "ssh", run.week) PROVE s \in P
        <4>1. s \in Sessions
          BY <1>1 DEF TableType
        <4>2. Timely(s)
          BY <2>2, <3>2, <4>1 DEF OfWeek
        <4>3. s \in Rows \ classified
          BY <1>1, <4>2, TableFacts DEF Timely
        <4> QED BY <3>1, <3>2, <4>2, <4>3
      <3>3. ASSUME NEW t \in BothTables, NEW r \in run.rows[t], ~r.cls, Timely(r.id)' PROVE r.id \in P
        <4>1. r.id \in Rows
          BY <1>4 DEF ReadSoFar
        <4>2. Timely(r.id)
          BY <1>1, <3>3, <4>1, TableFacts
        <4> QED BY <3>1, <3>3, <4>2
      <3> QED BY <3>1, <3>2, <3>3 DEF PendingCounted, OfWeek
    <2> QED BY <2>3, <2>4
  <1>5. run' = run /\ deaths' = deaths
    OBVIOUS
  <1>6. (run = Idle \/ run = Off) => (run = Idle \/ run = Off)'
    BY <1>5 DEF Idle, Off
  <1> QED BY <1>1, <1>2, <1>3, <1>4, <1>5, <1>6 DEF WeeklyInv

-----------------------------------------------------------------------------
(* The weekly export: its own steps *)

LEMMA WeeklyInitially == Init => WeeklyInv
  <1> SUFFICES ASSUME Init PROVE WeeklyInv
    OBVIOUS
  <1> USE DEF Init, TableInit, ExportInit
  <1>1. TableType /\ deaths \in 0 .. Deaths
    BY TableParts, ExportAssumption DEF TableType
  <1>2. ManifestSound
    BY DEF ManifestSound
  <1> QED BY <1>1, <1>2 DEF WeeklyInv

\* The fields of a run.
LEMMA RunParts ==
    ASSUME run \in Runs
    PROVE  /\ run.pc \in {"protocol", "week", "read", "put", "manifest"}
           /\ run.protocol \in 1 .. 2 /\ run.table \in 1 .. 2
           /\ run.week \in Nat /\ run.week >= 1 /\ run.now \in Nat /\ run.chunk \in Nat
           /\ run.pending \in 0 .. Cardinality(Sessions) /\ run.pending \in Nat
           /\ run.rows \in [BothTables -> SUBSET Records] /\ run.manifest \subseteq Entries
  <1>1. Cardinality(Sessions) \in Nat
    BY TableParts, FS_CardinalityType
  <1> QED BY <1>1 DEF Runs

\* Between two weeks a run has no more than the manifest of the bucket.
LEMMA Between ==
    ASSUME run' \in Runs, run'.pc \in {"protocol", "week"}, run'.now <= now', run'.manifest = manifest'
    PROVE  Working' /\ run'.pc # "read"
  <1>1. Uploaded' = {}
    BY DEF Uploaded
  <1> QED BY <1>1 DEF Working

\* An entry is about a week the manifest covers: its two files are listed together.
LEMMA NotCovered ==
    ASSUME ManifestSound, NEW protocol, NEW w, ~Covers(manifest, protocol, w)
    PROVE  \A e \in manifest : ~(e.path[2] = protocol /\ e.path[3] = w)
  <1> SUFFICES ASSUME NEW e \in manifest, e.path[2] = protocol, e.path[3] = w PROVE FALSE
    OBVIOUS
  <1>1. \A t \in BothTables : \E f \in manifest : f.path = <<t, e.path[2], e.path[3]>>
    BY DEF ManifestSound
  <1>2. \A t \in BothTables : \E f \in manifest : f.path = <<t, protocol, w>>
    BY <1>1
  <1> QED BY <1>2, Names DEF Covers

\* A week that nothing is listed of is added without replacing anything.
LEMMA AddIsNew ==
    ASSUME NEW m, NEW entry, \A e \in m : e.path # entry.path
    PROVE  Add(m, entry) = m \cup {entry}
  BY DEF Add

\* The run goes to its next week or protocol, or ends.
LEMMA MovesOn ==
    ASSUME run \in Runs, run.now <= now, run.manifest = manifest,
           run' = NextWeek(run) \/ run' = NextProtocol(run), UNCHANGED <<now, manifest>>
    PROVE  run' = Idle \/ (Working' /\ run'.pc # "read")
  <1>1. CASE run' = NextWeek(run)
    <2>1. run' = [run EXCEPT !.pc = "week", !.week = run.week + 1]
      BY <1>1 DEF NextWeek
    <2>2. run' \in Runs /\ run'.pc = "week" /\ run'.now = run.now /\ run'.manifest = run.manifest
      <3>1. run.week + 1 \in Nat \ {0}
        BY RunParts
      <3> QED BY <2>1, <3>1 DEF Runs
    <2> QED BY <2>2, Between
  <1>2. CASE run' = NextProtocol(run) /\ run.protocol # 2
    <2>1. run' = [run EXCEPT !.pc = "protocol", !.protocol = run.protocol + 1]
      BY <1>2, Names DEF NextProtocol
    <2>2. run.protocol + 1 \in 1 .. 2
      BY <1>2 DEF Runs
    <2>3. run' \in Runs /\ run'.pc = "protocol" /\ run'.now = run.now /\ run'.manifest = run.manifest
      BY <2>1, <2>2 DEF Runs
    <2> QED BY <2>3, Between
  <1>3. CASE run' = NextProtocol(run) /\ run.protocol = 2
    BY <1>3, Names DEF NextProtocol
  <1> QED BY <1>1, <1>2, <1>3

\* What the steps that only look leave: the manifest and the bucket.
LEMMA LookingKeeps ==
    ASSUME WeeklyInv, UNCHANGED <<tableVars, bucket, manifest, deaths>>,
           run' = Idle \/ (Working' /\ run'.pc # "read")
    PROVE  WeeklyInv'
  <1>1. TableType' /\ deaths' \in 0 .. Deaths
    BY TableTypeKept DEF WeeklyInv, tableVars
  <1>2. ManifestSound'
    <2>1. \A e \in manifest : EntrySound(e)'
      BY EntryStable DEF WeeklyInv, ManifestSound
    <2> QED BY <2>1 DEF WeeklyInv, ManifestSound
  <1> QED BY <1>1, <1>2 DEF WeeklyInv, Idle

LEMMA StartRunKeeps == WeeklyInv /\ StartRun /\ UNCHANGED tableVars => WeeklyInv'
  <1> SUFFICES ASSUME WeeklyInv, StartRun, UNCHANGED tableVars PROVE WeeklyInv'
    OBVIOUS
  <1>1. manifest \subseteq Entries /\ now \in Nat
    <2>1. \A e \in manifest : e \in Entries
      BY DEF WeeklyInv, ManifestSound, EntrySound
    <2>2. now \in 0 .. MaxTime
      BY DEF WeeklyInv, TableType
    <2> QED BY <2>1, <2>2
  <1>2. run' = [pc |-> "protocol", protocol |-> 1, week |-> 1, now |-> now,
                manifest |-> manifest, pending |-> 0, table |-> 1, chunk |-> 0,
                rows |-> [t \in BothTables |-> {}]]
    BY Names DEF StartRun
  <1>3. 0 \in 0 .. Cardinality(Sessions)
    BY TableParts, FS_CardinalityType
  <1>4. run' \in Runs
    BY <1>1, <1>2, <1>3 DEF Runs
  <1>5. Working' /\ run'.pc # "read"
    BY <1>1, <1>2, <1>4, Between DEF StartRun, tableVars
  <1> QED BY <1>5, LookingKeeps DEF StartRun

\* Where the run is when it is not idle.
LEMMA AtWork ==
    ASSUME WeeklyInv, run.pc \in {"protocol", "week", "read", "put", "manifest"}
    PROVE  Working /\ (run.pc = "read" => ReadSoFar /\ PendingCounted)
  BY DEF WeeklyInv, Idle, Off

LEMMA FirstSessionKeeps == WeeklyInv /\ FirstSession /\ UNCHANGED tableVars => WeeklyInv'
  <1> SUFFICES ASSUME WeeklyInv, FirstSession, UNCHANGED tableVars PROVE WeeklyInv'
    OBVIOUS
  <1> DEFINE starts == {Start[s] : s \in {r \in Rows : Protocol[r] = Protocols[run.protocol]}}
             first == CHOOSE t \in starts : \A u \in starts : t <= u
  <1>1. Working /\ run.pc = "protocol"
    BY AtWork DEF FirstSession
  <1>2. run \in Runs /\ run.now <= now /\ run.manifest = manifest
    BY <1>1 DEF Working, Uploaded
  <1>3. run' = IF starts = {} THEN NextProtocol(run) ELSE [run EXCEPT !.pc = "week", !.week = WeekOf(first)]
    BY DEF FirstSession
  <1>4. UNCHANGED <<now, bucket, manifest, deaths>>
    BY DEF FirstSession, tableVars
  <1>5. CASE starts = {}
    BY <1>2, <1>3, <1>4, <1>5, MovesOn, LookingKeeps
  <1>6. CASE starts # {}
    <2>1. starts \in SUBSET Nat
      BY TableParts DEF WeeklyInv, TableType
    <2>2. first \in Nat
      <3>1. \E t \in starts : \A u \in starts : t <= u
        <4> HIDE DEF starts
        <4> QED BY <1>6, <2>1, LeastNumber
      <3>2. first \in starts
        <4> HIDE DEF starts
        <4> QED BY <3>1
      <3> QED BY <2>1, <3>2
    <2>3. WeekOf(first) \in Nat \ {0}
      <3> HIDE DEF first
      <3> QED BY <2>2, WeekBounds
    <2>4. run' = [run EXCEPT !.pc = "week", !.week = WeekOf(first)]
      BY <1>3, <1>6
    <2> HIDE DEF first, starts
    <2>5. run' \in Runs /\ run'.pc = "week" /\ run'.now = run.now /\ run'.manifest = run.manifest
      BY <1>2, <2>3, <2>4 DEF Runs
    <2>6. Working' /\ run'.pc # "read"
      BY <1>2, <1>4, <2>5, Between
    <2> QED BY <1>4, <2>6, LookingKeeps
  <1> QED BY <1>5, <1>6

LEMMA ConsiderWeekKeeps == WeeklyInv /\ ConsiderWeek /\ UNCHANGED tableVars => WeeklyInv'
  <1> SUFFICES ASSUME WeeklyInv, ConsiderWeek, UNCHANGED tableVars PROVE WeeklyInv'
    OBVIOUS
  <1> DEFINE protocol == Protocols[run.protocol]
             pending == Pending(protocol, run.week)
             U == {s \in Rows \ classified : Protocol[s] = "ssh" /\ WeekOf(Start[s]) = run.week}
             next == [run EXCEPT !.pc = "read", !.pending = pending, !.table = 1, !.chunk = 0,
                                 !.rows = [t \in BothTables |-> {}]]
  <1>1. Working /\ run.pc = "week" /\ TableType /\ ManifestSound /\ deaths \in 0 .. Deaths
    BY AtWork DEF ConsiderWeek, WeeklyInv
  <1>2. run \in Runs /\ run.now <= now /\ run.manifest = manifest
    BY <1>1 DEF Working, Uploaded
  <1>3. UNCHANGED <<now, Rows, late, classified, bucket, manifest, deaths>>
    BY DEF ConsiderWeek, tableVars
  <1>4. \/ run' = NextProtocol(run) \/ run' = NextWeek(run)
        \/ IsComplete(run.week, run.now) /\ ~Covers(run.manifest, protocol, run.week) /\ run' = next
    <2>1. run' = CASE ~IsComplete(run.week, run.now) -> NextProtocol(run)
                   [] Covers(run.manifest, protocol, run.week) -> NextWeek(run)
                   [] OTHER -> IF IsReady(run.week, run.now, pending) THEN next ELSE NextWeek(run)
      BY Names DEF ConsiderWeek
    <2> HIDE DEF next, pending, protocol
    <2>2. CASE ~IsComplete(run.week, run.now) /\ ~Covers(run.manifest, protocol, run.week)
      BY <2>1, <2>2
    <2>3. CASE Covers(run.manifest, protocol, run.week)
      BY <2>1, <2>3
    <2>4. CASE IsComplete(run.week, run.now) /\ ~Covers(run.manifest, protocol, run.week)
      BY <2>1, <2>4
    <2> QED BY <2>2, <2>3, <2>4
  <1>5. CASE run' = NextProtocol(run) \/ run' = NextWeek(run)
    BY <1>2, <1>3, <1>5, MovesOn, LookingKeeps
  <1>6. CASE IsComplete(run.week, run.now) /\ ~Covers(run.manifest, protocol, run.week) /\ run' = next
    <2>1. U \subseteq Sessions /\ IsFiniteSet(U) /\ Cardinality(U) \in 0 .. Cardinality(Sessions)
      <3>1. U \subseteq Sessions
        BY <1>1 DEF TableType
      <3> HIDE DEF U
      <3> QED BY <3>1, TableParts, FS_Subset, FS_CardinalityType
    <2>2. pending \in 0 .. Cardinality(Sessions) /\ (protocol = "ssh" => pending = Cardinality(U))
      <3>1. 0 \in 0 .. Cardinality(Sessions)
        BY TableParts, FS_CardinalityType
      <3>2. pending = IF protocol # "ssh" THEN 0 ELSE Cardinality(U)
        BY DEF Pending
      <3> HIDE DEF U, pending, protocol
      <3> QED BY <2>1, <3>1, <3>2
    <2>3. \A s \in Rows \ classified : OfWeek(s, "ssh", run.week) => s \in U
      BY DEF OfWeek
    <2> HIDE DEF U, pending
    <2>4. /\ run' \in Runs /\ run'.pc = "read" /\ run'.now = run.now /\ run'.manifest = run.manifest
          /\ run'.protocol = run.protocol /\ run'.week = run.week /\ run'.pending = pending
          /\ run'.table = 1 /\ run'.chunk = 0 /\ run'.rows = [t \in BothTables |-> {}]
      <3>1. [t \in BothTables |-> {}] \in [BothTables -> SUBSET Records]
        OBVIOUS
      <3>2. PICK none : none = [t \in BothTables |-> {}]
        OBVIOUS
      <3>3. run' = [run EXCEPT !.pc = "read", !.pending = pending, !.table = 1, !.chunk = 0, !.rows = none]
        BY <1>6, <3>2
      <3>4. none \in [BothTables -> SUBSET Records]
        BY <3>1, <3>2
      <3>5. /\ run' \in Runs /\ run'.pc = "read" /\ run'.now = run.now /\ run'.manifest = run.manifest
            /\ run'.protocol = run.protocol /\ run'.week = run.week /\ run'.pending = pending
            /\ run'.table = 1 /\ run'.chunk = 0 /\ run'.rows = none
        <4> HIDE DEF next, protocol
        <4>1. PICK pc \in {"protocol", "week", "read", "put", "manifest"} : pc = "read"
          OBVIOUS
        <4>2. PICK table \in 1 .. 2 : table = 1
          OBVIOUS
        <4>3. PICK chunk \in Nat : chunk = 0
          OBVIOUS
        <4>4. PICK p \in 0 .. Cardinality(Sessions) : p = pending
          BY <2>2
        <4>5. run' = [run EXCEPT !.pc = pc, !.pending = p, !.table = table, !.chunk = chunk, !.rows = none]
          BY <3>3, <4>1, <4>2, <4>3, <4>4
        <4>6. /\ run' \in Runs /\ run'.pc = pc /\ run'.pending = p /\ run'.table = table /\ run'.chunk = chunk
              /\ run'.rows = none /\ run'.now = run.now /\ run'.manifest = run.manifest
              /\ run'.protocol = run.protocol /\ run'.week = run.week
          <5>1. run' \in Runs
            BY <1>2, <3>4, <4>5 DEF Runs
          <5> QED BY <1>2, <4>5, <5>1 DEF Runs
        <4> QED BY <4>1, <4>2, <4>3, <4>4, <4>6
      <3> QED BY <3>2, <3>5
    <2>5. Uploaded' = {}
      BY <2>4 DEF Uploaded
    <2>6. \A e \in manifest : ~(e.path[2] = protocol /\ e.path[3] = run.week)
      BY <1>1, <1>2, <1>6, NotCovered
    <2>7. Working'
      <3>1. IsComplete(run'.week, run'.now)
        BY <1>6, <2>4
      <3>2. \A e \in manifest' : ~(e.path[2] = Protocols[run'.protocol] /\ e.path[3] = run'.week)
        BY <1>3, <2>4, <2>6
      <3> QED BY <1>2, <1>3, <2>4, <2>5, <3>1, <3>2 DEF Working, IsComplete
    <2>8. ReadSoFar'
      <3>1. ASSUME NEW s \in Sessions, NEW n \in 1 .. 2, WeekOf(Start[s]) = run'.week,
                   n < run'.table \/ (n = run'.table /\ Start[s] < (run'.week - 1) * WeekLen + run'.chunk)
            PROVE  FALSE
        <4>1. ~(n < 1)
          OBVIOUS
        <4>2. Start[s] < (run.week - 1) * WeekLen + 0
          BY <2>4, <3>1, <4>1
        <4>3. Start[s] \in Nat /\ run.week \in Nat /\ (run.week - 1) * WeekLen \in Int
          BY <1>2, RunParts, TableParts
        <4>4. (run.week - 1) * WeekLen <= Start[s]
          BY <2>4, <3>1, <4>3, WeekBounds
        <4> QED BY <4>2, <4>3, <4>4
      <3>2. \A t \in BothTables : run'.rows[t] = {}
        BY <2>4
      <3>3. run'.chunk < WeekLen
        BY <2>4, TableParts
      <3>4. \A n \in 1 .. 2 : \A s \in Sessions :
                Timely(s)' /\ OfWeek(s, Protocols[run'.protocol], run'.week)
                /\ (n < run'.table \/ (n = run'.table /\ Start[s] < (run'.week - 1) * WeekLen + run'.chunk))
                    => s \in Ids(run'.rows[Tables[n]])
        BY <3>1 DEF OfWeek
      <3> QED BY <3>2, <3>3, <3>4 DEF ReadSoFar, OfWeek, Ids
    <2>9. PendingCounted'
      <3> SUFFICES ASSUME Protocols[run'.protocol] = "ssh" PROVE PendingCounted'
        BY DEF PendingCounted
      <3>1. U \in SUBSET Sessions /\ Cardinality(U) <= run'.pending
        BY <2>1, <2>2, <2>4
      <3>2. \A s \in Rows' \ classified' : Timely(s)' /\ OfWeek(s, "ssh", run'.week) => s \in U
        BY <1>3, <2>3, <2>4
      <3>3. \A t \in BothTables : run'.rows[t] = {}
        BY <2>4
      <3> QED BY <3>1, <3>2, <3>3 DEF PendingCounted, OfWeek
    <2>10. TableType' /\ ManifestSound'
      <3>1. TableType'
        BY <1>1, TableTypeKept
      <3>2. \A e \in manifest : EntrySound(e)'
        BY <1>1, EntryStable DEF ManifestSound
      <3> QED BY <1>1, <1>3, <3>1, <3>2 DEF ManifestSound
    <2> QED BY <1>1, <1>3, <2>7, <2>8, <2>9, <2>10 DEF WeeklyInv
  <1> QED BY <1>4, <1>5, <1>6

\* What one transaction reads.
LEMMA SelectedParts ==
    ASSUME Rows \subseteq Sessions, NEW protocol, NEW w \in Nat, w >= 1, NEW chunk \in Nat, chunk < WeekLen
    PROVE  LET sel == Selected(protocol, w, chunk)
           IN  /\ sel \subseteq Records
               /\ \A r \in sel : r.id \in Rows /\ OfWeek(r.id, protocol, w) /\ (~r.cls => r.id \notin classified)
               /\ \A s \in Rows : Protocol[s] = protocol /\ Start[s] = (w - 1) * WeekLen + chunk => s \in Ids(sel)
  <1> DEFINE sel == Selected(protocol, w, chunk)
  <1>1. sel = {[id |-> s, cls |-> s \in classified] :
                   s \in {r \in Rows : Protocol[r] = protocol /\ Start[r] = (w - 1) * WeekLen + chunk}}
    BY DEF Selected, Record
  <1> HIDE DEF sel
  <1>2. ASSUME NEW r \in sel
        PROVE  r \in Records /\ r.id \in Rows /\ OfWeek(r.id, protocol, w) /\ (~r.cls => r.id \notin classified)
    <2>1. PICK s \in Rows : /\ Protocol[s] = protocol /\ Start[s] = (w - 1) * WeekLen + chunk
                            /\ r = [id |-> s, cls |-> s \in classified]
      BY <1>1
    <2>2. s \in Sessions /\ r.id = s /\ r.cls = (s \in classified)
      BY <2>1
    <2>3. WeekOf(Start[s]) = w
      BY <2>1, <2>2, TableParts, WeekIsUnique
    <2>4. r \in Records
      BY <2>1, <2>2 DEF Records
    <2> QED BY <2>1, <2>2, <2>3, <2>4 DEF OfWeek
  <1>3. ASSUME NEW s \in Rows, Protocol[s] = protocol, Start[s] = (w - 1) * WeekLen + chunk
        PROVE  s \in Ids(sel)
    <2>1. [id |-> s, cls |-> s \in classified] \in sel
      BY <1>1, <1>3
    <2> QED BY <2>1 DEF Ids
  <1> QED BY <1>2, <1>3 DEF sel

\* The records without a class are no more than the sessions counted.
LEMMA CountedBound ==
    ASSUME NEW file \in SUBSET Records, NEW P \in SUBSET Sessions,
           \A r \in file : ~r.cls /\ Timely(r.id) => r.id \in P
    PROVE  /\ IsFiniteSet({r \in file : ~r.cls /\ Timely(r.id)}) /\ IsFiniteSet(P)
           /\ Cardinality({r \in file : ~r.cls /\ Timely(r.id)}) <= Cardinality(P)
  <1> DEFINE X == {r \in file : ~r.cls /\ Timely(r.id)}
             f == [r \in X |-> r.id]
  <1>1. IsFiniteSet(P)
    BY TableParts, FS_Subset
  <1>2. \A r \in X : r \in Records /\ r.cls = FALSE /\ r.id \in P
    BY DEF Records
  <1> HIDE DEF X
  <1>3. f \in [X -> P] /\ \A r \in X : f[r] = r.id
    BY <1>2
  <1> HIDE DEF f
  <1>4. \A r, q \in X : f[r] = f[q] => r = q
    <2> SUFFICES ASSUME NEW r \in X, NEW q \in X, f[r] = f[q] PROVE r = q
      OBVIOUS
    <2>1. r.id = q.id /\ r.cls = q.cls
      BY <1>2, <1>3
    <2>2. r \in [id : Sessions, cls : BOOLEAN] /\ q \in [id : Sessions, cls : BOOLEAN]
      BY <1>2 DEF Records
    <2> QED BY <2>1, <2>2
  <1>5. f \in Injection(X, P)
    BY <1>3, <1>4, Fun_IsInj
  <1> QED BY <1>1, <1>5, FS_Injection DEF X

\* The rows a run has after the chunk it reads.
MoreRows ==
    [run.rows EXCEPT ![Tables[run.table]] = @ \cup Selected(Protocols[run.protocol], run.week, run.chunk)]

\* One more chunk: what has been read of the tables is whole up to it.
LEMMA OneMoreChunk ==
    ASSUME TableType, Working, run.pc = "read", ReadSoFar, PendingCounted
    PROVE  /\ MoreRows \in [BothTables -> SUBSET Records]
           /\ \A t \in BothTables : \A r \in MoreRows[t] : r.id \in Rows
           /\ \A n \in 1 .. 2 : \A s \in Sessions :
                  Timely(s) /\ OfWeek(s, Protocols[run.protocol], run.week)
                  /\ (n < run.table \/ (n = run.table /\ Start[s] < (run.week - 1) * WeekLen + run.chunk + 1))
                      => s \in Ids(MoreRows[Tables[n]])
           /\ Protocols[run.protocol] = "ssh" =>
                  \E P \in SUBSET Sessions :
                      /\ Cardinality(P) <= run.pending
                      /\ \A s \in Rows \ classified : Timely(s) /\ OfWeek(s, "ssh", run.week) => s \in P
                      /\ \A t \in BothTables : \A r \in MoreRows[t] : ~r.cls /\ Timely(r.id) => r.id \in P
  <1> DEFINE protocol == Protocols[run.protocol]
             base == (run.week - 1) * WeekLen
             sel == Selected(protocol, run.week, run.chunk)
  <1>1. run \in Runs /\ run.protocol \in 1 .. 2 /\ run.table \in 1 .. 2 /\ run.week \in Nat /\ run.week >= 1
        /\ run.chunk \in Nat /\ run.chunk < WeekLen /\ run.rows \in [BothTables -> SUBSET Records]
    BY RunParts DEF Working, ReadSoFar
  <1>2. base \in Int
    BY <1>1, TableParts
  <1>3. /\ sel \subseteq Records
        /\ \A r \in sel : r.id \in Rows /\ OfWeek(r.id, protocol, run.week) /\ (~r.cls => r.id \notin classified)
        /\ \A s \in Rows : Protocol[s] = protocol /\ Start[s] = base + run.chunk => s \in Ids(sel)
    BY <1>1, SelectedParts DEF TableType
  <1>4. Tables[run.table] \in BothTables
    BY <1>1, Names
  <1>5. MoreRows = [run.rows EXCEPT ![Tables[run.table]] = @ \cup sel]
    BY DEF MoreRows
  <1> HIDE DEF sel
  <1>6. /\ MoreRows \in [BothTables -> SUBSET Records]
        /\ \A t \in BothTables : run.rows[t] \subseteq MoreRows[t]
        /\ sel \subseteq MoreRows[Tables[run.table]]
        /\ \A t \in BothTables : MoreRows[t] \subseteq run.rows[t] \cup sel
    BY <1>1, <1>3, <1>4, <1>5
  <1>7. \A t \in BothTables : \A r \in MoreRows[t] : r.id \in Rows
    BY <1>3, <1>6 DEF ReadSoFar
  <1>8. ASSUME NEW n \in 1 .. 2, NEW s \in Sessions, Timely(s), OfWeek(s, protocol, run.week),
               n < run.table \/ (n = run.table /\ Start[s] < base + run.chunk + 1)
        PROVE  s \in Ids(MoreRows[Tables[n]])
    <2>1. Tables[n] \in BothTables
      BY Names
    <2>2. CASE n < run.table \/ (n = run.table /\ Start[s] < base + run.chunk)
      <3>1. s \in Ids(run.rows[Tables[n]])
        BY <1>8, <2>2 DEF ReadSoFar
      <3> QED BY <3>1, <1>6, <2>1 DEF Ids
    <2>3. CASE n = run.table /\ ~(Start[s] < base + run.chunk)
      <3>1. Start[s] = base + run.chunk
        BY <1>1, <1>2, <1>8, <2>3, TableParts
      <3>2. s \in Rows /\ Protocol[s] = protocol
        BY <1>8 DEF Timely, OfWeek
      <3>3. s \in Ids(sel)
        BY <1>3, <3>1, <3>2
      <3> QED BY <3>3, <1>6, <2>3 DEF Ids
    <2> QED BY <1>8, <2>2, <2>3
  <1>9. ASSUME protocol = "ssh"
        PROVE  \E P \in SUBSET Sessions :
                   /\ Cardinality(P) <= run.pending
                   /\ \A s \in Rows \ classified : Timely(s) /\ OfWeek(s, "ssh", run.week) => s \in P
                   /\ \A t \in BothTables : \A r \in MoreRows[t] : ~r.cls /\ Timely(r.id) => r.id \in P
    <2>1. PICK P \in SUBSET Sessions :
              /\ Cardinality(P) <= run.pending
              /\ \A s \in Rows \ classified : Timely(s) /\ OfWeek(s, "ssh", run.week) => s \in P
              /\ \A t \in BothTables : \A r \in run.rows[t] : ~r.cls /\ Timely(r.id) => r.id \in P
      BY <1>9 DEF PendingCounted
    <2>2. ASSUME NEW t \in BothTables, NEW r \in MoreRows[t], ~r.cls, Timely(r.id) PROVE r.id \in P
      <3>1. CASE r \in run.rows[t]
        BY <2>1, <2>2, <3>1
      <3>2. CASE r \in sel
        <4>1. r.id \in Rows \ classified /\ OfWeek(r.id, "ssh", run.week)
          BY <1>3, <1>9, <2>2, <3>2
        <4> QED BY <2>1, <2>2, <4>1
      <3> QED BY <1>6, <2>2, <3>1, <3>2
    <2> QED BY <2>1, <2>2
  <1> QED BY <1>6, <1>7, <1>8, <1>9

LEMMA ReadChunkKeeps == WeeklyInv /\ ReadChunk /\ UNCHANGED tableVars => WeeklyInv'
  <1> SUFFICES ASSUME WeeklyInv, ReadChunk, UNCHANGED tableVars PROVE WeeklyInv'
    OBVIOUS
  <1> DEFINE protocol == Protocols[run.protocol]
             base == (run.week - 1) * WeekLen
  <1>1. /\ Working /\ run.pc = "read" /\ ReadSoFar /\ PendingCounted
        /\ TableType /\ ManifestSound /\ deaths \in 0 .. Deaths
    BY AtWork DEF ReadChunk, WeeklyInv
  <1>2. run \in Runs /\ run.now <= now /\ run.manifest = manifest /\ IsComplete(run.week, run.now)
        /\ \A e \in manifest : ~(e.path[2] = protocol /\ e.path[3] = run.week)
    BY <1>1 DEF Working, Uploaded
  <1>3. UNCHANGED <<now, Rows, late, classified, bucket, manifest, deaths>>
    BY DEF ReadChunk, tableVars
  <1>4. PICK files : files = MoreRows
    OBVIOUS
  <1>5. /\ files \in [BothTables -> SUBSET Records]
        /\ \A t \in BothTables : \A r \in files[t] : r.id \in Rows
        /\ \A n \in 1 .. 2 : \A s \in Sessions :
               Timely(s) /\ OfWeek(s, protocol, run.week)
               /\ (n < run.table \/ (n = run.table /\ Start[s] < base + run.chunk + 1))
                   => s \in Ids(files[Tables[n]])
        /\ protocol = "ssh" =>
               \E P \in SUBSET Sessions :
                   /\ Cardinality(P) <= run.pending
                   /\ \A s \in Rows \ classified : Timely(s) /\ OfWeek(s, "ssh", run.week) => s \in P
                   /\ \A t \in BothTables : \A r \in files[t] : ~r.cls /\ Timely(r.id) => r.id \in P
    BY <1>1, <1>4, OneMoreChunk
  <1>6. /\ run.protocol \in 1 .. 2 /\ run.table \in 1 .. 2 /\ run.week \in Nat /\ run.week >= 1
        /\ run.chunk \in Nat /\ run.chunk < WeekLen /\ base \in Int /\ WeekLen \in Nat /\ WeekLen >= 1
    BY <1>1, <1>2, RunParts, TableParts DEF ReadSoFar
  <1> DEFINE Same == /\ run' \in Runs /\ run'.rows = files /\ run'.now = run.now /\ run'.manifest = run.manifest
                     /\ run'.protocol = run.protocol /\ run'.week = run.week /\ run'.pending = run.pending
             ToChunk == /\ run.chunk < WeekLen - 1
                        /\ run'.pc = "read" /\ run'.table = run.table /\ run'.chunk = run.chunk + 1
             ToTable == /\ run.chunk = WeekLen - 1 /\ run.table = 1
                        /\ run'.pc = "read" /\ run'.table = 2 /\ run'.chunk = 0
             ToUpload == /\ run.chunk = WeekLen - 1 /\ run.table = 2
                         /\ run'.pc = "put" /\ run'.table = 1
  <1>7. Same /\ (ToChunk \/ ToTable \/ ToUpload)
    <2> DEFINE more == [run EXCEPT !.rows = files]
    <2>1. run' = CASE run.chunk < WeekLen - 1 -> [more EXCEPT !.chunk = run.chunk + 1]
                   [] run.chunk = WeekLen - 1 /\ run.table < 2 -> [more EXCEPT !.chunk = 0, !.table = run.table + 1]
                   [] OTHER -> [more EXCEPT !.pc = "put", !.table = 1]
      BY <1>2, <1>4, Names DEF ReadChunk, Runs, MoreRows
    <2> HIDE DEF base, protocol
    <2>2. more \in Runs /\ more.rows = files /\ more.now = run.now /\ more.manifest = run.manifest
          /\ more.protocol = run.protocol /\ more.week = run.week /\ more.pending = run.pending
          /\ more.pc = "read" /\ more.table = run.table /\ more.chunk = run.chunk
      <3>1. more \in Runs
        BY <1>2, <1>5 DEF Runs
      <3> QED BY <1>1, <1>2, <3>1 DEF Runs
    <2> HIDE DEF more
    <2>3. CASE run.chunk < WeekLen - 1
      <3>1. PICK chunk \in Nat : chunk = run.chunk + 1
        BY <1>6
      <3>2. run' = [more EXCEPT !.chunk = chunk]
        BY <1>6, <2>1, <2>3, <3>1
      <3>3. run' \in Runs
        BY <2>2, <3>2 DEF Runs
      <3>4. Same /\ run'.pc = "read" /\ run'.table = run.table /\ run'.chunk = chunk
        BY <2>2, <3>2, <3>3 DEF Runs
      <3> QED BY <2>3, <3>1, <3>4
    <2>4. CASE run.chunk = WeekLen - 1 /\ run.table = 1
      <3>1. PICK chunk \in Nat, table \in 1 .. 2 : chunk = 0 /\ table = 2 /\ table = run.table + 1
        BY <2>4
      <3>2. run' = [more EXCEPT !.chunk = chunk, !.table = table]
        BY <1>6, <2>1, <2>4, <3>1
      <3>3. run' \in Runs
        BY <2>2, <3>2 DEF Runs
      <3>4. Same /\ run'.pc = "read" /\ run'.table = table /\ run'.chunk = chunk
        BY <2>2, <3>2, <3>3 DEF Runs
      <3> QED BY <2>4, <3>1, <3>4
    <2>5. CASE run.chunk = WeekLen - 1 /\ run.table = 2
      <3>1. PICK pc \in {"protocol", "week", "read", "put", "manifest"}, table \in 1 .. 2 : pc = "put" /\ table = 1
        OBVIOUS
      <3>2. run' = [more EXCEPT !.pc = pc, !.table = table]
        BY <1>6, <2>1, <2>5, <3>1
      <3>3. run' \in Runs
        BY <2>2, <3>2 DEF Runs
      <3>4. Same /\ run'.pc = pc /\ run'.table = table
        BY <2>2, <3>2, <3>3 DEF Runs
      <3> QED BY <2>5, <3>1, <3>4
    <2> QED BY <1>6, <2>3, <2>4, <2>5
  <1>8. PICK pc, table, chunk : run'.pc = pc /\ run'.table = table /\ run'.chunk = chunk
    OBVIOUS
  <1>9. TableType' /\ ManifestSound'
    <2>1. TableType'
      BY <1>1, TableTypeKept
    <2>2. \A e \in manifest : EntrySound(e)'
      BY <1>1, EntryStable DEF ManifestSound
    <2> QED BY <1>1, <1>3, <2>1, <2>2 DEF ManifestSound
  <1>10. \A s \in Sessions : Timely(s)' <=> Timely(s)
    BY <1>3 DEF Timely
  <1>11. CASE pc = "read"
    <2>1. Uploaded' = {}
      BY <1>7, <1>8, <1>11 DEF Uploaded
    <2>2. Working'
      <3>1. IsComplete(run'.week, run'.now) /\ run'.pc = "read"
        BY <1>2, <1>7, <1>8, <1>11
      <3>2. \A e \in manifest' : ~(e.path[2] = Protocols[run'.protocol] /\ e.path[3] = run'.week)
        BY <1>2, <1>3, <1>7, <1>8
      <3> QED BY <1>2, <1>3, <1>7, <1>8, <2>1, <3>1, <3>2 DEF Working, IsComplete
    <2>3. chunk < WeekLen
      BY <1>6, <1>7, <1>8, <1>11
    <2>4. ASSUME NEW n \in 1 .. 2, NEW s \in Sessions, Timely(s), OfWeek(s, protocol, run.week),
                 n < table \/ (n = table /\ Start[s] < base + chunk)
          PROVE  s \in Ids(files[Tables[n]])
      <3>1. Start[s] \in Nat /\ base <= Start[s] /\ Start[s] - base < WeekLen
        BY <2>4, TableParts, WeekBounds DEF OfWeek
      <3>2. CASE run.chunk < WeekLen - 1 /\ table = run.table /\ chunk = run.chunk + 1
        <4>1. n < run.table \/ (n = run.table /\ Start[s] < base + run.chunk + 1)
          BY <1>6, <2>4, <3>1, <3>2
        <4> QED BY <1>5, <2>4, <4>1
      <3>3. CASE run.chunk = WeekLen - 1 /\ run.table = 1 /\ table = 2 /\ chunk = 0
        <4>1. n = run.table /\ Start[s] < base + run.chunk + 1
          BY <1>6, <2>4, <3>1, <3>3
        <4> QED BY <1>5, <2>4, <4>1
      <3> QED BY <1>7, <1>8, <1>11, <3>2, <3>3
    <2>5. ReadSoFar'
      <3>1. \A t \in BothTables : \A r \in run'.rows[t] : r.id \in Rows'
        BY <1>3, <1>5, <1>7, <1>8
      <3>2. run'.chunk < WeekLen
        BY <1>7, <1>8, <2>3
      <3>3. \A n \in 1 .. 2 : \A s \in Sessions :
                Timely(s)' /\ OfWeek(s, Protocols[run'.protocol], run'.week)
                /\ (n < run'.table \/ (n = run'.table /\ Start[s] < (run'.week - 1) * WeekLen + run'.chunk))
                    => s \in Ids(run'.rows[Tables[n]])
        BY <1>7, <1>8, <1>10, <2>4
      <3> QED BY <3>1, <3>2, <3>3 DEF ReadSoFar, OfWeek, Ids
    <2>6. PendingCounted'
      <3> SUFFICES ASSUME Protocols[run'.protocol] = "ssh" PROVE PendingCounted'
        BY DEF PendingCounted
      <3>1. PICK P \in SUBSET Sessions :
                /\ Cardinality(P) <= run.pending
                /\ \A s \in Rows \ classified : Timely(s) /\ OfWeek(s, "ssh", run.week) => s \in P
                /\ \A t \in BothTables : \A r \in files[t] : ~r.cls /\ Timely(r.id) => r.id \in P
        BY <1>5, <1>7, <1>8
      <3>2. \A s \in Rows' \ classified' : Timely(s)' /\ OfWeek(s, "ssh", run'.week) => s \in P
        BY <1>1, <1>3, <1>7, <1>8, <1>10, <3>1 DEF TableType
      <3>3. \A t \in BothTables : \A r \in run'.rows[t] : ~r.cls /\ Timely(r.id)' => r.id \in P
        <4>1. \A t \in BothTables : \A r \in files[t] : r.id \in Sessions
          BY <1>1, <1>5 DEF TableType
        <4> QED BY <1>7, <1>8, <1>10, <3>1, <4>1
      <3> QED BY <1>7, <1>8, <3>1, <3>2, <3>3 DEF PendingCounted, OfWeek
    <2> QED BY <1>1, <1>3, <1>9, <2>2, <2>5, <2>6 DEF WeeklyInv
  <1>12. CASE pc = "put"
    <2>1. run.chunk = WeekLen - 1 /\ run.table = 2 /\ table = 1
      BY <1>7, <1>8, <1>12
    <2>2. Uploaded' = {} /\ run'.pc = "put"
      BY <1>7, <1>8, <1>12, <2>1 DEF Uploaded
    <2>3. run.week \in Weeks /\ IsComplete(run.week, now)
      <3>1. now \in Nat /\ now <= MaxTime /\ run.now \in Nat /\ run.now <= MaxTime
        BY <1>1, <1>2, RunParts, TableParts DEF TableType
      <3> QED BY <1>2, <1>6, <3>1, CompleteWeeks, CompleteLater
    <2>4. ASSUME NEW t \in BothTables PROVE EntrySound(RunEntry(t))'
      <3>1. PICK e : e = [path |-> <<t, protocol, run.week>>, rows |-> files[t], pending |-> run.pending]
        OBVIOUS
      <3>2. RunEntry(t)' = e
        BY <1>7, <1>8, <3>1 DEF RunEntry
      <3>3. e.path = <<t, protocol, run.week>> /\ e.rows = files[t] /\ e.pending = run.pending
            /\ e.path[2] = protocol /\ e.path[3] = run.week
        BY <3>1
      <3>4. e \in Entries
        <4>1. e.path \in Paths
          BY <1>6, <2>3, <3>3, PathType
        <4>2. e.rows \in SUBSET Records /\ e.pending \in 0 .. Cardinality(Sessions)
          BY <1>2, <1>5, <3>3, RunParts
        <4> QED BY <3>1, <3>3, <4>1, <4>2 DEF Entries
      <3>5. PICK n \in 1 .. 2 : Tables[n] = t
        BY Names DEF BothTables
      <3>6. ASSUME NEW s \in Sessions, Timely(s), OfWeek(s, protocol, run.week) PROVE s \in Ids(files[t])
        <4>1. Start[s] \in Nat /\ base <= Start[s] /\ Start[s] - base < WeekLen
          BY <3>6, TableParts, WeekBounds DEF OfWeek
        <4>2. n < run.table \/ (n = run.table /\ Start[s] < base + run.chunk + 1)
          BY <1>6, <2>1, <4>1
        <4> QED BY <1>5, <3>5, <3>6, <4>2
      <3>7. ASSUME protocol = "ssh"
            PROVE  Cardinality({r \in files[t] : ~r.cls /\ Timely(r.id)}) <= run.pending
        <4>1. PICK P \in SUBSET Sessions :
                  /\ Cardinality(P) <= run.pending
                  /\ \A r \in files[t] : ~r.cls /\ Timely(r.id) => r.id \in P
          BY <1>5, <3>7
        <4> DEFINE X == {r \in files[t] : ~r.cls /\ Timely(r.id)}
        <4>2. files[t] \in SUBSET Records
          BY <1>5
        <4>3. IsFiniteSet(X) /\ IsFiniteSet(P) /\ Cardinality(X) <= Cardinality(P)
          BY <4>1, <4>2, CountedBound
        <4> HIDE DEF X
        <4>5. Cardinality(X) \in Nat /\ Cardinality(P) \in Nat /\ run.pending \in Nat
          BY <4>3, <1>2, FS_CardinalityType, RunParts
        <4>6. Cardinality(X) <= run.pending
          BY <4>1, <4>3, <4>5
        <4> QED BY <4>6 DEF X
      <3>8. EntrySound(e)
        BY <1>5, <2>3, <3>3, <3>4, <3>6, <3>7 DEF EntrySound
      <3>9. EntrySound(e)'
        BY <1>1, <3>8, EntryStable
      <3> QED BY <3>2, <3>9
    <2>5. Working'
      <3>1. IsComplete(run'.week, run'.now) /\ run'.pc = "put"
        BY <1>2, <1>7, <1>8, <1>12
      <3>2. \A e \in manifest' : ~(e.path[2] = Protocols[run'.protocol] /\ e.path[3] = run'.week)
        BY <1>2, <1>3, <1>7, <1>8
      <3> QED BY <1>2, <1>3, <1>7, <1>8, <2>2, <2>4, <3>1, <3>2 DEF Working, IsComplete
    <2> QED BY <1>1, <1>3, <1>9, <2>2, <2>5 DEF WeeklyInv
  <1> QED BY <1>7, <1>8, <1>11, <1>12

LEMMA PutTableKeeps == WeeklyInv /\ PutTable /\ UNCHANGED tableVars => WeeklyInv'
  <1> SUFFICES ASSUME WeeklyInv, PutTable, UNCHANGED tableVars PROVE WeeklyInv'
    OBVIOUS
  <1> DEFINE protocol == Protocols[run.protocol]
             Entry(t) == [path |-> <<t, protocol, run.week>>, rows |-> run.rows[t], pending |-> run.pending]
  <1>1. Working /\ run.pc = "put" /\ TableType /\ ManifestSound /\ deaths \in 0 .. Deaths
    BY AtWork DEF PutTable, WeeklyInv
  <1>2. /\ run \in Runs /\ run.now <= now /\ IsComplete(run.week, run.now)
        /\ run.manifest = manifest \cup {RunEntry(t) : t \in Uploaded}
        /\ \A t \in Uploaded : bucket[RunEntry(t).path] = run.rows[t]
        /\ \A e \in manifest : ~(e.path[2] = protocol /\ e.path[3] = run.week)
        /\ \A t \in BothTables : EntrySound(RunEntry(t))
    BY <1>1 DEF Working
  <1>3. UNCHANGED <<now, Rows, late, classified, manifest, deaths>>
    BY DEF PutTable, tableVars
  <1>4. \A t : RunEntry(t) = Entry(t)
    BY DEF RunEntry
  <1>5. run.table \in 1 .. 2 /\ run.rows \in [BothTables -> SUBSET Records]
    BY <1>2, RunParts
  <1>6. \A t \in BothTables : Entry(t) \in Entries /\ Entry(t).path = <<t, protocol, run.week>>
    <2>1. \A t \in BothTables : RunEntry(t) \in Entries
      BY <1>2 DEF EntrySound
    <2> QED BY <1>4, <2>1
  <1>7. \A t \in BothTables : <<t, protocol, run.week>> \in Paths
    <2>1. \A t \in BothTables : Entry(t).path \in Paths
      BY <1>6, EntryParts
    <2> QED BY <1>6, <2>1
  <1>8. PICK table : table = Tables[run.table] /\ table \in BothTables
    BY <1>5, Names
  <1>9. bucket' = [bucket EXCEPT ![<<table, protocol, run.week>>] = run.rows[table]]
    BY <1>8 DEF PutTable
  <1>10. bucket \in [Paths -> SUBSET (Records \cup Missing)]
    BY <1>1 DEF ManifestSound
  <1>11. /\ bucket' \in [Paths -> SUBSET (Records \cup Missing)]
         /\ bucket'[<<table, protocol, run.week>>] = run.rows[table]
         /\ \A p \in Paths : p # <<table, protocol, run.week>> => bucket'[p] = bucket[p]
    BY <1>5, <1>7, <1>8, <1>9, <1>10
  <1>12. ManifestSound'
    <2>1. \A e \in manifest : EntrySound(e)'
      BY <1>1, EntryStable DEF ManifestSound
    <2>2. ASSUME NEW e \in manifest PROVE bucket'[e.path] = e.rows
      <3>1. e \in Entries /\ bucket[e.path] = e.rows /\ ~(e.path[2] = protocol /\ e.path[3] = run.week)
        BY <1>1, <1>2 DEF ManifestSound, EntrySound
      <3>2. e.path \in Paths /\ e.path # <<table, protocol, run.week>>
        BY <3>1, EntryParts
      <3> QED BY <1>11, <3>1, <3>2
    <2> QED BY <1>1, <1>3, <1>11, <2>1, <2>2 DEF ManifestSound
  <1>13. TableType'
    BY <1>1, TableTypeKept
  <1>14. PICK listed : listed = Add(run.manifest, Entry(table))
    OBVIOUS
  <1>15. run' = IF run.table < 2 THEN [run EXCEPT !.manifest = listed, !.table = run.table + 1]
                ELSE [run EXCEPT !.manifest = listed, !.pc = "manifest"]
    BY <1>8, <1>14, Names DEF PutTable
  <1>16. \A e \in manifest : e.path # <<table, protocol, run.week>>
    BY <1>2
  <1>17. CASE run.table = 1
    <2>1. table = "sessions" /\ Uploaded = {}
      BY <1>1, <1>8, <1>17, Names DEF Uploaded
    <2>2. listed = manifest \cup {Entry("sessions")}
      <3>1. run.manifest = manifest
        BY <1>2, <2>1
      <3>2. \A e \in manifest : e.path # Entry(table).path
        BY <1>16
      <3> QED BY <1>14, <2>1, <3>1, <3>2, AddIsNew
    <2>3. listed \in SUBSET Entries
      <3>1. \A e \in manifest : e \in Entries
        BY <1>1 DEF ManifestSound, EntrySound
      <3>2. Entry("sessions") \in Entries
        BY <1>6 DEF BothTables
      <3> HIDE DEF Entry
      <3> QED BY <2>2, <3>1, <3>2
    <2>4. PICK two \in 1 .. 2 : two = 2 /\ two = run.table + 1
      BY <1>17
    <2>5. run' = [run EXCEPT !.manifest = listed, !.table = two]
      BY <1>15, <1>17, <2>4
    <2> HIDE DEF Entry, protocol
    <2>6. run' \in Runs
      BY <1>2, <2>3, <2>5 DEF Runs
    <2>7. /\ run'.pc = "put" /\ run'.table = 2 /\ run'.manifest = listed /\ run'.now = run.now
          /\ run'.protocol = run.protocol /\ run'.week = run.week /\ run'.rows = run.rows /\ run'.pending = run.pending
      BY <1>1, <1>2, <2>4, <2>5, <2>6 DEF Runs
    <2>8. Uploaded' = {"sessions"}
      BY <2>7 DEF Uploaded
    <2>9. \A t : RunEntry(t)' = RunEntry(t)
      BY <2>7 DEF RunEntry
    <2>10. \A t \in BothTables : EntrySound(RunEntry(t))'
      <3> SUFFICES ASSUME NEW t \in BothTables PROVE EntrySound(RunEntry(t))'
        OBVIOUS
      <3>1. PICK e : e = RunEntry(t)
        OBVIOUS
      <3>2. EntrySound(e)'
        BY <1>1, <1>2, <3>1, EntryStable
      <3> QED BY <2>9, <3>1, <3>2
    <2>11. run'.manifest = manifest' \cup {RunEntry(t)' : t \in Uploaded'}
      BY <1>3, <1>4, <2>2, <2>7, <2>8, <2>9
    <2>12. \A t \in Uploaded' : bucket'[RunEntry(t)'.path] = run'.rows[t]
      <3>1. RunEntry("sessions")'.path = <<table, protocol, run.week>>
        BY <2>1, <2>9 DEF RunEntry, protocol
      <3> QED BY <1>11, <2>1, <2>7, <2>8, <3>1
    <2>13. /\ IsComplete(run'.week, run'.now)
           /\ \A e \in manifest' : ~(e.path[2] = Protocols[run'.protocol] /\ e.path[3] = run'.week)
      BY <1>2, <1>3, <2>7 DEF protocol
    <2>14. Working'
      BY <1>2, <1>3, <2>6, <2>7, <2>10, <2>11, <2>12, <2>13 DEF Working, IsComplete
    <2> QED BY <1>1, <1>3, <1>12, <1>13, <2>7, <2>14 DEF WeeklyInv
  <1>18. CASE run.table = 2
    <2>1. table = "commands" /\ Uploaded = {"sessions"}
      BY <1>1, <1>8, <1>18, Names DEF Uploaded
    <2>2. listed = manifest \cup {Entry("sessions"), Entry("commands")}
      <3>1. run.manifest = manifest \cup {Entry("sessions")}
        BY <1>2, <1>4, <2>1
      <3>2. \A e \in manifest : e.path # Entry(table).path
        BY <1>16
      <3>3. Entry("sessions").path # Entry(table).path
        BY <2>1
      <3>4. \A e \in run.manifest : e.path # Entry(table).path
        <4> HIDE DEF Entry
        <4> QED BY <3>1, <3>2, <3>3
      <3>5. listed = run.manifest \cup {Entry(table)}
        BY <1>14, <3>4, AddIsNew
      <3> HIDE DEF Entry
      <3> QED BY <2>1, <3>1, <3>5
    <2>3. listed \in SUBSET Entries
      <3>1. \A e \in manifest : e \in Entries
        BY <1>1 DEF ManifestSound, EntrySound
      <3>2. Entry("sessions") \in Entries /\ Entry("commands") \in Entries
        BY <1>6 DEF BothTables
      <3> HIDE DEF Entry
      <3> QED BY <2>2, <3>1, <3>2
    <2>4. PICK pc \in {"protocol", "week", "read", "put", "manifest"} : pc = "manifest"
      OBVIOUS
    <2>5. run' = [run EXCEPT !.manifest = listed, !.pc = pc]
      BY <1>15, <1>18, <2>4
    <2> HIDE DEF Entry, protocol
    <2>6. run' \in Runs
      BY <1>2, <2>3, <2>5 DEF Runs
    <2>7. /\ run'.pc = "manifest" /\ run'.manifest = listed /\ run'.now = run.now
          /\ run'.protocol = run.protocol /\ run'.week = run.week /\ run'.rows = run.rows /\ run'.pending = run.pending
      BY <1>1, <1>2, <2>4, <2>5, <2>6 DEF Runs
    <2>8. Uploaded' = BothTables
      BY <2>7 DEF Uploaded
    <2>9. \A t : RunEntry(t)' = RunEntry(t)
      BY <2>7 DEF RunEntry
    <2>10. \A t \in BothTables : EntrySound(RunEntry(t))'
      <3> SUFFICES ASSUME NEW t \in BothTables PROVE EntrySound(RunEntry(t))'
        OBVIOUS
      <3>1. PICK e : e = RunEntry(t)
        OBVIOUS
      <3>2. EntrySound(e)'
        BY <1>1, <1>2, <3>1, EntryStable
      <3> QED BY <2>9, <3>1, <3>2
    <2>11. run'.manifest = manifest' \cup {RunEntry(t)' : t \in Uploaded'}
      BY <1>3, <1>4, <2>2, <2>7, <2>8, <2>9 DEF BothTables
    <2>12. \A t \in Uploaded' : bucket'[RunEntry(t)'.path] = run'.rows[t]
      <3>1. \A t : RunEntry(t)'.path = <<t, protocol, run.week>> /\ RunEntry(t).path = <<t, protocol, run.week>>
        BY <2>9 DEF RunEntry, protocol
      <3>2. bucket'[<<"commands", protocol, run.week>>] = run.rows["commands"]
        BY <1>11, <2>1
      <3>3. bucket'[<<"sessions", protocol, run.week>>] = run.rows["sessions"]
        <4>1. <<"sessions", protocol, run.week>> \in Paths /\ <<"sessions", protocol, run.week>> # <<table, protocol, run.week>>
          BY <1>7, <2>1 DEF BothTables
        <4>2. bucket[<<"sessions", protocol, run.week>>] = run.rows["sessions"]
          BY <1>2, <2>1, <3>1
        <4> QED BY <1>11, <4>1, <4>2
      <3> QED BY <2>7, <2>8, <3>1, <3>2, <3>3 DEF BothTables
    <2>13. /\ IsComplete(run'.week, run'.now)
           /\ \A e \in manifest' : ~(e.path[2] = Protocols[run'.protocol] /\ e.path[3] = run'.week)
      BY <1>2, <1>3, <2>7 DEF protocol
    <2>14. Working'
      BY <1>2, <1>3, <2>6, <2>7, <2>10, <2>11, <2>12, <2>13 DEF Working, IsComplete
    <2> QED BY <1>1, <1>3, <1>12, <1>13, <2>7, <2>14 DEF WeeklyInv
  <1> QED BY <1>5, <1>17, <1>18

LEMMA PutManifestKeeps == WeeklyInv /\ PutManifest /\ UNCHANGED tableVars => WeeklyInv'
  <1> SUFFICES ASSUME WeeklyInv, PutManifest, UNCHANGED tableVars PROVE WeeklyInv'
    OBVIOUS
  <1>1. Working /\ run.pc = "manifest" /\ TableType /\ ManifestSound /\ deaths \in 0 .. Deaths
    BY AtWork DEF PutManifest, WeeklyInv
  <1>2. UNCHANGED <<now, Rows, late, classified, bucket, deaths>> /\ manifest' = run.manifest /\ run' = NextWeek(run)
    BY DEF PutManifest, tableVars
  <1>3. Uploaded = BothTables
    BY <1>1 DEF Uploaded
  <1>4. /\ run \in Runs /\ run.now <= now
        /\ run.manifest = manifest \cup {RunEntry(t) : t \in BothTables}
        /\ \A t \in BothTables : bucket[RunEntry(t).path] = run.rows[t]
        /\ \A t \in BothTables : EntrySound(RunEntry(t))
    BY <1>1, <1>3 DEF Working
  <1>5. \A t : /\ RunEntry(t).rows = run.rows[t]
               /\ RunEntry(t).path = <<t, Protocols[run.protocol], run.week>>
               /\ RunEntry(t).path[2] = Protocols[run.protocol] /\ RunEntry(t).path[3] = run.week
    BY DEF RunEntry
  <1>6. ASSUME NEW e \in manifest' PROVE EntrySound(e) /\ bucket[e.path] = e.rows
    <2>1. CASE e \in manifest
      BY <1>1, <2>1 DEF ManifestSound
    <2>2. CASE \E t \in BothTables : e = RunEntry(t)
      BY <1>4, <1>5, <2>2
    <2> QED BY <1>2, <1>4, <2>1, <2>2
  <1>7. \A e \in manifest' : EntrySound(e)'
    BY <1>1, <1>6, EntryStable
  <1>8. ASSUME NEW e \in manifest', NEW t \in BothTables PROVE \E f \in manifest' : f.path = <<t, e.path[2], e.path[3]>>
    <2>1. CASE e \in manifest
      <3>1. PICK f \in manifest : f.path = <<t, e.path[2], e.path[3]>>
        BY <1>1, <2>1 DEF ManifestSound
      <3> QED BY <1>2, <1>4, <3>1
    <2>2. CASE \E x \in BothTables : e = RunEntry(x)
      <3>1. e.path[2] = Protocols[run.protocol] /\ e.path[3] = run.week
        BY <1>5, <2>2
      <3>2. RunEntry(t) \in manifest' /\ RunEntry(t).path = <<t, e.path[2], e.path[3]>>
        BY <1>2, <1>4, <1>5, <3>1
      <3> QED BY <3>2
    <2> QED BY <1>2, <1>4, <2>1, <2>2
  <1>9. ManifestSound'
    BY <1>1, <1>2, <1>6, <1>7, <1>8 DEF ManifestSound
  <1>10. TableType'
    BY <1>1, TableTypeKept
  <1>11. Working' /\ run'.pc # "read"
    <2>1. run' = [run EXCEPT !.pc = "week", !.week = run.week + 1]
      BY <1>2 DEF NextWeek
    <2>2. run.week + 1 \in Nat \ {0}
      BY <1>4, RunParts
    <2>3. run' \in Runs /\ run'.pc = "week" /\ run'.now = run.now /\ run'.manifest = run.manifest
      BY <1>4, <2>1, <2>2 DEF Runs
    <2> QED BY <1>2, <1>4, <2>3, Between
  <1> QED BY <1>1, <1>2, <1>9, <1>10, <1>11 DEF WeeklyInv

LEMMA RunDiesKeeps == WeeklyInv /\ RunDies /\ UNCHANGED tableVars => WeeklyInv'
  <1> SUFFICES ASSUME WeeklyInv, RunDies, UNCHANGED tableVars PROVE WeeklyInv'
    OBVIOUS
  <1>1. TableType'
    BY TableTypeKept DEF WeeklyInv
  <1>2. ManifestSound'
    <2>1. \A e \in manifest : EntrySound(e)'
      BY EntryStable DEF WeeklyInv, ManifestSound
    <2> QED BY <2>1 DEF WeeklyInv, ManifestSound, RunDies
  <1>3. deaths' \in 0 .. Deaths
    BY ExportAssumption DEF WeeklyInv, RunDies
  <1>4. run' = Idle
    BY DEF RunDies
  <1> QED BY <1>1, <1>2, <1>3, <1>4 DEF WeeklyInv, Idle

LEMMA WeeklyKept == WeeklyInv /\ [Next]_vars => WeeklyInv'
  <1> SUFFICES ASSUME WeeklyInv, [Next]_vars PROVE WeeklyInv'
    OBVIOUS
  <1>1. CASE TableStep /\ UNCHANGED <<exportVars, apiVars>>
    BY <1>1, TableKeepsExport
  <1>2. CASE ApiStep /\ UNCHANGED <<tableVars, exportVars>>
    BY <1>2, TableKeepsExport
  <1>3. CASE UNCHANGED vars
    BY <1>3, TableKeepsExport DEF vars
  <1>4. CASE ExportStep /\ UNCHANGED <<tableVars, apiVars>>
    BY <1>4, StartRunKeeps, FirstSessionKeeps, ConsiderWeekKeeps, ReadChunkKeeps, PutTableKeeps,
       PutManifestKeeps, RunDiesKeeps DEF ExportStep
  <1> QED BY <1>1, <1>2, <1>3, <1>4 DEF Next

LEMMA WeeklyAlways == Spec => []WeeklyInv
  BY WeeklyInitially, WeeklyKept, PTL DEF Spec

\* What the invariant says of the published files.
LEMMA WeeklyGives == WeeklyInv => TableType /\ ExportType /\ ListedIsThere /\ WeekIsWhole /\ PendingIsHonest
  <1> SUFFICES ASSUME WeeklyInv PROVE TableType /\ ExportType /\ ListedIsThere /\ WeekIsWhole /\ PendingIsHonest
    OBVIOUS
  <1>1. TableType /\ ManifestSound /\ deaths \in 0 .. Deaths
    BY DEF WeeklyInv
  <1>2. \A e \in manifest : e \in Entries /\ EntrySound(e) /\ bucket[e.path] = e.rows
    BY <1>1 DEF ManifestSound, EntrySound
  <1>3. ExportType
    <2>1. \A e \in manifest : e.path \in Paths /\ e.pending \in 0 .. Cardinality(Sessions)
      BY <1>2, EntryParts
    <2>2. DOMAIN bucket = Paths
      BY <1>1 DEF ManifestSound
    <2>3. run.pc \in {"off", "idle", "protocol", "week", "read", "put", "manifest"}
      <3>1. run \in Runs => run.pc \in {"protocol", "week", "read", "put", "manifest"}
        BY RunParts
      <3> QED BY <3>1 DEF WeeklyInv, Idle, Off, Working
    <2> QED BY <1>1, <2>1, <2>2, <2>3 DEF ExportType
  <1>4. ListedIsThere
    <2> SUFFICES ASSUME NEW e \in manifest PROVE bucket[e.path] = e.rows /\ e.rows # Missing
      BY <1>2 DEF ListedIsThere
    <2>1. e.rows \subseteq Records
      BY <1>2, EntryParts
    <2>2. [id |-> "missing", cls |-> FALSE] \in Missing /\ [id |-> "missing", cls |-> FALSE] \notin Records
      BY ExportAssumption DEF Missing, Records
    <2> QED BY <1>2, <2>1, <2>2
  <1>5. WeekIsWhole
    <2> SUFFICES ASSUME NEW s \in Sessions, Timely(s), Covers(manifest, Protocol[s], WeekOf(Start[s])), NEW t \in BothTables
                 PROVE  s \in Ids(bucket[<<t, Protocol[s], WeekOf(Start[s])>>])
      BY Names DEF WeekIsWhole
    <2>1. PICK e \in manifest : e.path = <<t, Protocol[s], WeekOf(Start[s])>>
      BY Names DEF Covers
    <2>2. OfWeek(s, e.path[2], e.path[3])
      BY <2>1 DEF OfWeek
    <2>3. s \in Ids(e.rows)
      BY <1>2, <2>2 DEF EntrySound
    <2> QED BY <1>2, <2>1, <2>3
  <1>6. PendingIsHonest
    BY <1>2 DEF PendingIsHonest, EntrySound
  <1> QED BY <1>1, <1>3, <1>4, <1>5, <1>6

-----------------------------------------------------------------------------
(* Theorems *)

\* export_parquet.py, publish_week: what the manifest lists is in the bucket with
\* the content listed, both files of a listed week hold every session of it that
\* was saved within the lag, and no more sessions in them lack their class than
\* the manifest says, for any number of runs that die at any point.
THEOREM PublishedIsSound == Spec => []PublishedSound
  <1>1. ApiInv /\ WeeklyInv => PublishedSound
    BY ApiGives, WeeklyGives DEF PublishedSound, TypeOK
  <1> QED BY <1>1, ApiAlways, WeeklyAlways, PTL

\* A page-wise export of the API has every ssh session or command that was saved
\* before it began, unless the sessions filled maxExportPages pages, a session
\* once and a command at most once for each bait it touched, whatever is inserted
\* between its pages; and every session written is located in the range that
\* holds its address.
THEOREM RowsAreSound == Spec => []RowsSound
  BY ApiGives, ApiAlways, PTL

\* "Published files are never rewritten": no step takes an entry off the manifest
\* or changes the file of one.
THEOREM PublishedFilesStay == Spec => PublishedStays
  <1> DEFINE Stay == \A e \in manifest : e \in manifest' /\ bucket'[e.path] = bucket[e.path]
  <1>1. ASSUME WeeklyInv, [Next]_vars PROVE [Stay]_exportVars
    <2> SUFFICES ASSUME ExportStep PROVE Stay
      BY <1>1 DEF Next, vars, exportVars
    <2>1. CASE StartRun \/ FirstSession \/ ConsiderWeek \/ ReadChunk \/ RunDies
      BY <2>1 DEF StartRun, FirstSession, ConsiderWeek, ReadChunk, RunDies
    <2>2. CASE PutTable
      <3>1. Working /\ run.pc = "put" /\ ManifestSound
        BY <1>1, <2>2, AtWork DEF PutTable, WeeklyInv
      <3>2. \A e \in manifest : ~(e.path[2] = Protocols[run.protocol] /\ e.path[3] = run.week)
        BY <3>1 DEF Working
      <3>3. manifest' = manifest
        BY <2>2 DEF PutTable
      <3>4. bucket' = [bucket EXCEPT ![<<Tables[run.table], Protocols[run.protocol], run.week>>] = run.rows[Tables[run.table]]]
        BY <2>2 DEF PutTable
      <3>5. ASSUME NEW e \in manifest PROVE bucket'[e.path] = bucket[e.path]
        <4>1. e.path \in Paths /\ bucket \in [Paths -> SUBSET (Records \cup Missing)]
          BY <3>1, EntryParts DEF ManifestSound, EntrySound
        <4>2. e.path # <<Tables[run.table], Protocols[run.protocol], run.week>>
          BY <3>2
        <4> QED BY <3>4, <4>1, <4>2
      <3> QED BY <3>3, <3>5
    <2>3. CASE PutManifest
      <3>1. Working
        BY <1>1, <2>3, AtWork DEF PutManifest
      <3>2. manifest \subseteq run.manifest
        BY <3>1 DEF Working
      <3> QED BY <2>3, <3>2 DEF PutManifest
    <2> QED BY <2>1, <2>2, <2>3 DEF ExportStep
  <1> QED BY <1>1, WeeklyAlways, PTL DEF Spec, PublishedStays

=============================================================================
