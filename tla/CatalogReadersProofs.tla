------------------------ MODULE CatalogReadersProofs ------------------------
(***************************************************************************)
(* Proofs about CatalogReaders, for every table, size of page and choice   *)
(* of filters, and whenever the jobs change the table.                     *)
(*                                                                         *)
(* The first part shows that a query with ORDER BY has an answer: finitely *)
(* many rows of distinct ids can be put in order, in one way or another.   *)
(***************************************************************************)
EXTENDS CatalogReaders, FunctionTheorems, SequenceTheorems, SetInduction

\* Rows that ORDER BY start_date, id can tell apart.
Sortable(S) ==
    /\ IsFiniteSet(S)
    /\ \A r \in S : r.start \in Nat /\ r.id \in Nat
    /\ \A r, t \in S : r.id = t.id => r = t

\* An enumeration of S in order.
IsSorting(s, n, S) ==
    /\ s \in [1 .. n -> S]
    /\ \A r \in S : \E i \in 1 .. n : s[i] = r
    /\ \A i, j \in 1 .. n : i < j => Before(s[i], s[j])

\* Of two rows one comes first, and no row comes before itself.
LEMMA BeforeFacts ==
    ASSUME NEW S, Sortable(S), NEW r \in S, NEW t \in S, NEW u \in S
    PROVE  /\ r = t \/ Before(r, t) \/ Before(t, r)
           /\ ~Before(r, r)
           /\ Before(r, t) /\ Before(t, u) => Before(r, u)
  BY DEF Sortable, Before

\* A finite set of rows that is not empty has a last one.
LEMMA LastExists ==
    ASSUME NEW S, Sortable(S), S # {}
    PROVE  \E m \in S : \A r \in S : r = m \/ Before(r, m)
<1> DEFINE Good == {T \in SUBSET S : T = {} \/ \E m \in T : \A r \in T : r = m \/ Before(r, m)}
<1>1. ASSUME NEW T \in SUBSET S, \A U \in SUBSET T : U # T => U \in Good
      PROVE  T \in Good
  <2>1. CASE T = {}
    BY <2>1
  <2>2. CASE T # {}
    <3>1. PICK t \in T : TRUE
      BY <2>2
    <3>2. T \ {t} \in Good
      BY <1>1, <3>1
    <3>3. CASE T \ {t} = {}
      BY <3>1, <3>3
    <3>4. CASE \E m \in T \ {t} : \A r \in T \ {t} : r = m \/ Before(r, m)
      <4>1. PICK m \in T \ {t} : \A r \in T \ {t} : r = m \/ Before(r, m)
        BY <3>4
      <4>2. CASE Before(m, t)
        <5>1. \A r \in T : r = t \/ Before(r, t)
          BY <4>1, <4>2, <3>1, BeforeFacts
        <5> QED
          BY <3>1, <5>1
      <4>3. CASE Before(t, m)
        BY <4>1, <4>3
      <4> QED
        BY <3>1, <4>1, <4>2, <4>3, BeforeFacts
    <3> QED
      BY <3>2, <3>3, <3>4
  <2> QED
    BY <2>1, <2>2
<1> HIDE DEF Good
<1>2. SUBSET S \subseteq Good
  BY <1>1, SubsetInduction DEF Sortable
<1> QED
  BY <1>2 DEF Good

\* So finitely many rows can be put in order.
LEMMA SortingExists ==
    ASSUME NEW S, Sortable(S)
    PROVE  \E n \in Nat : \E s : IsSorting(s, n, S)
<1> DEFINE Good == {T \in SUBSET S : \E n \in Nat : \E s : IsSorting(s, n, T)}
<1>1. ASSUME NEW T \in SUBSET S, \A U \in SUBSET T : U # T => U \in Good
      PROVE  T \in Good
  <2>1. CASE T = {}
    <3>1. IsSorting([i \in 1 .. 0 |-> Null], 0, {})
      BY DEF IsSorting
    <3> QED
      BY <2>1, <3>1
  <2>2. CASE T # {}
    <3>1. Sortable(T)
      BY FS_Subset DEF Sortable
    <3>2. PICK m \in T : \A r \in T : r = m \/ Before(r, m)
      BY <2>2, <3>1, LastExists
    <3>3. T \ {m} \in Good
      BY <1>1, <3>2
    <3>4. PICK n \in Nat : \E s : IsSorting(s, n, T \ {m})
      BY <3>3
    <3>5. PICK s : IsSorting(s, n, T \ {m})
      BY <3>4
    <3> DEFINE t == [i \in 1 .. n + 1 |-> IF i = n + 1 THEN m ELSE s[i]]
    <3>6. t \in [1 .. n + 1 -> T]
      BY <3>2, <3>5 DEF IsSorting
    <3>7. ASSUME NEW r \in T
          PROVE  \E i \in 1 .. n + 1 : t[i] = r
      <4>1. CASE r = m
        BY <4>1
      <4>2. CASE r # m
        <5>1. PICK i \in 1 .. n : s[i] = r
          BY <3>5, <4>2 DEF IsSorting
        <5> QED
          BY <5>1
      <4> QED
        BY <4>1, <4>2
    <3>8. ASSUME NEW i \in 1 .. n + 1, NEW j \in 1 .. n + 1, i < j
          PROVE  Before(t[i], t[j])
      <4>1. i \in 1 .. n /\ t[i] = s[i] /\ s[i] \in T \ {m}
        BY <3>5, <3>8 DEF IsSorting
      <4>2. CASE j = n + 1
        BY <3>2, <4>1, <4>2
      <4>3. CASE j \in 1 .. n
        BY <3>5, <3>8, <4>1, <4>3 DEF IsSorting
      <4> QED
        BY <4>2, <4>3
    <3>9. IsSorting(t, n + 1, T)
      BY <3>6, <3>7, <3>8 DEF IsSorting
    <3> QED
      BY <3>9
  <2> QED
    BY <2>1, <2>2
<1> HIDE DEF Good
<1>2. SUBSET S \subseteq Good
  BY <1>1, SubsetInduction DEF Sortable
<1> QED
  BY <1>2 DEF Good

\* A sorting enumerates every row once.
LEMMA SortingCounts ==
    ASSUME NEW S, Sortable(S), NEW n \in Nat, NEW s, IsSorting(s, n, S)
    PROVE  n = Cardinality(S) /\ s \in SetToSeqs(S)
<1>1. \A i, j \in 1 .. n : i # j => s[i] # s[j]
  <2>1. ASSUME NEW i \in 1 .. n, NEW j \in 1 .. n, i # j
        PROVE  s[i] # s[j]
    <3>1. s[i] \in S /\ s[j] \in S /\ (Before(s[i], s[j]) \/ Before(s[j], s[i]))
      BY <2>1 DEF IsSorting
    <3> QED
      BY <3>1, BeforeFacts
  <2> QED
    BY <2>1
<1>2. s \in Bijection(1 .. n, S)
  BY <1>1, Fun_IsBij DEF IsSorting
<1>3. n = Cardinality(S)
  BY <1>2, Fun_ExistsBij, FS_CountingElements
<1> QED
  BY <1>1, <1>3 DEF SetToSeqs, IsSorting
-----------------------------------------------------------------------------
(* Pages of a sequence                                                     *)

\* The smaller of two numbers.
LEMMA MinOfTwo ==
    ASSUME NEW a \in Nat, NEW b \in Nat
    PROVE  Min({a, b}) \in Nat /\ Min({a, b}) = IF a <= b THEN a ELSE b
<1>1. \E x \in {a, b} : \A y \in {a, b} : x <= y
  <2>1. CASE a <= b
    BY <2>1
  <2>2. CASE b <= a
    BY <2>2
  <2> QED
    BY <2>1, <2>2
<1>2. Min({a, b}) \in {a, b} /\ \A y \in {a, b} : Min({a, b}) <= y
  BY <1>1 DEF Min
<1> QED
  BY <1>2

\* The part of a sequence from m on to n, which lies within it.
LEMMA PartFacts ==
    ASSUME NEW S, NEW s \in Seq(S), NEW m \in Nat, m >= 1, NEW n \in 0 .. Len(s)
    PROVE  /\ SubSeq(s, m, n) \in Seq(S)
           /\ Len(SubSeq(s, m, n)) = IF m <= n THEN n - m + 1 ELSE 0
<1>1. m \in Int /\ n \in Int /\ Len(s) \in Nat
  OBVIOUS
<1>2. \A i \in m .. n : s[i] \in S
  <2>1. ASSUME NEW i \in m .. n PROVE i \in 1 .. Len(s)
    BY <1>1
  <2> QED
    BY <2>1
<1> QED
  BY <1>1, <1>2, SubSeqProperties

\* A page is a sequence of what it is a page of, also one that begins after the end.
LEMMA PageIsSeq ==
    ASSUME NEW S, NEW s \in Seq(S), NEW o \in Nat
    PROVE  SubSeq(s, o + 1, Min({o + PAGE, Len(s)})) \in Seq(S)
<1>1. o + PAGE \in Nat /\ Len(s) \in Nat
  BY ReadersAssumption
<1>2. PICK n \in 0 .. Len(s) : n = Min({o + PAGE, Len(s)})
  BY <1>1, MinOfTwo
<1>3. o + 1 \in Nat /\ o + 1 >= 1
  OBVIOUS
<1>4. SubSeq(s, o + 1, n) \in Seq(S)
  BY <1>3, PartFacts
<1> QED
  BY <1>2, <1>4

\* The page that begins where a prefix ends makes a longer prefix.
LEMMA PrefixGrows ==
    ASSUME NEW S, NEW s \in Seq(S), NEW p \in Seq(S), IsPrefix(p, s)
    PROVE  IsPrefix(p \o SubSeq(s, Len(p) + 1, Min({Len(p) + PAGE, Len(s)})), s)
<1>1. Len(p) + PAGE \in Nat /\ Len(s) \in Nat /\ Len(p) \in 0 .. Len(s)
  BY ReadersAssumption DEF IsPrefix
<1>2. PICK n \in Len(p) .. Len(s) : n = Min({Len(p) + PAGE, Len(s)}) /\ n \in Nat
  BY <1>1, MinOfTwo, ReadersAssumption
<1>3. p = SubSeq(s, 1, Len(p))
  BY SubSeqFull DEF IsPrefix
<1>4. p \o SubSeq(s, Len(p) + 1, n) = SubSeq(s, 1, n)
  <2>1. SubSeq(s, 1, Len(p)) \o SubSeq(s, Len(p) + 1, n) = SubSeq(s, 1, n)
    <3>1. 1 \in 1 .. Len(s) + 1 /\ Len(p) \in 1 - 1 .. Len(s)
      BY <1>1
    <3> QED
      BY <1>2, <3>1, ConcatAdjacentSubSeq
  <2> QED
    BY <1>3, <2>1
<1>5. SubSeq(s, 1, n) \in Seq(S) /\ Len(SubSeq(s, 1, n)) = n /\ n <= Len(s)
  <2>1. n \in 0 .. Len(s) /\ n <= Len(s) /\ n >= 0
    BY <1>1, <1>2
  <2>2. /\ SubSeq(s, 1, n) \in Seq(S)
        /\ Len(SubSeq(s, 1, n)) = IF 1 <= n THEN n - 1 + 1 ELSE 0
    BY <2>1, PartFacts
  <2> QED
    BY <2>1, <2>2
<1>6. SubSeq(SubSeq(s, 1, n), 1, n) = SubSeq(s, 1, n)
  BY <1>5, SubSeqFull
<1> QED
  BY <1>2, <1>4, <1>5, <1>6 DEF IsPrefix

\* Nothing is a prefix of everything.
LEMMA EmptyIsPrefix ==
    ASSUME NEW S, NEW s \in Seq(S)
    PROVE  IsPrefix(<<>>, s)
<1>1. SubSeq(s, 1, 0) = <<>> /\ SubSeq(<<>>, 1, 0) = <<>>
  BY SubSeqEmpty
<1> QED
  BY <1>1 DEF IsPrefix

-----------------------------------------------------------------------------
(* The table                                                               *)

\* performances has two keys, and ids below its sequence.
KeysInv ==
    /\ IsFiniteSet(rows)
    /\ \A r \in rows :
        /\ r.id < nextId
        /\ \A t \in rows : r.id = t.id \/ r.kopis_id = t.kopis_id => r = t

TableInv == TypeOK /\ KeysInv

\* What a query selects can be put in order, and Ordered is that order: every row
\* selected, once.
LEMMA OrderedFacts ==
    ASSUME TableInv, NEW f
    PROVE  /\ Ordered(f) \in Seq(Selected(f)) /\ Selected(f) \subseteq Card
           /\ Len(Ordered(f)) = Cardinality(Selected(f))
           /\ Cardinality(Selected(f)) \in Nat
<1>1. Selected(f) \subseteq rows /\ Selected(f) \subseteq Card
  BY DEF TableInv, TypeOK, Selected, Visible, Card
<1>2. Sortable(Selected(f))
  <2>1. IsFiniteSet(Selected(f))
    BY <1>1, FS_Subset DEF TableInv, KeysInv
  <2>2. \A r \in Selected(f) : r.start \in Nat /\ r.id \in Nat
    BY <1>1, TableAssumption DEF Card, TableRow
  <2> QED
    BY <1>1, <2>1, <2>2 DEF Sortable, TableInv, KeysInv
<1>3. PICK S : S = Selected(f)
  OBVIOUS
<1>4. PICK n \in Nat : \E s : IsSorting(s, n, S)
  BY <1>2, <1>3, SortingExists
<1>5. PICK s : IsSorting(s, n, S)
  BY <1>4
<1>6. n = Cardinality(S) /\ s \in SetToSeqs(S)
  BY <1>2, <1>3, <1>5, SortingCounts
<1>7. \A i, j \in DOMAIN s : i < j => Before(s[i], s[j])
  BY <1>5 DEF IsSorting
<1>8. Ordered(f) \in SetToSeqs(S)
  BY <1>3, <1>6, <1>7 DEF Ordered
<1>9. Ordered(f) \in [1 .. n -> S]
  BY <1>6, <1>8 DEF SetToSeqs
<1>10. Ordered(f) \in Seq(S) /\ Len(Ordered(f)) = n
  BY <1>9
<1> QED
  BY <1>1, <1>3, <1>6, <1>10

\* So a page is a sequence of cards.
LEMMA PageOfFacts ==
    ASSUME TableInv, NEW f, NEW o \in Nat
    PROVE  PageOf(f, o) \in Seq(Card)
<1>1. Ordered(f) \in Seq(Card)
  BY OrderedFacts
<1> QED
  BY <1>1, PageIsSeq DEF PageOf
\* The id a row is put under: the one it has, or the next one.
LEMMA PutIdFacts ==
    ASSUME TableInv, NEW p \in Perfs
    PROVE  \/ (\A r \in rows : r.kopis_id # p) /\ IdFor(p) = nextId
           \/ \E o \in rows : o.kopis_id = p /\ IdFor(p) = o.id
<1>1. CASE \E r \in rows : r.kopis_id = p
  <2>1. PICK o \in rows : o = (CHOOSE r \in rows : r.kopis_id = p) /\ o.kopis_id = p
    BY <1>1
  <2> QED
    BY <1>1, <2>1 DEF IdFor
<1>2. CASE \A r \in rows : r.kopis_id # p
  BY <1>2 DEF IdFor
<1> QED
  BY <1>1, <1>2

\* A row that is put changes the table as a whole in this way.
LEMMA PutFacts ==
    ASSUME TableInv, NEW p \in Perfs, NEW v \in Venues \cup {Null}, NEW d \in Days, Put(p, v, d)
    PROVE  \E t \in TableRow :
             /\ t.kopis_id = p
             /\ rows' = {r \in rows : r.kopis_id # p} \cup {t}
             /\ \/ (\A r \in rows : r.kopis_id # p) /\ t.id = nextId /\ nextId' = nextId + 1
                \/ (\E o \in rows : o.kopis_id = p /\ t.id = o.id) /\ nextId' = nextId
<1>1. IdFor(p) \in Nat
  BY PutIdFacts DEF TableInv, TypeOK, TableRow
<1>2. PICK t \in TableRow : t = [kopis_id |-> p, id |-> IdFor(p), venue |-> v, start |-> d]
  BY <1>1 DEF TableRow
<1>3. rows' = {r \in rows : r.kopis_id # p} \cup {t}
  BY <1>2 DEF Put
<1>4. \/ (\A r \in rows : r.kopis_id # p) /\ t.id = nextId /\ nextId' = nextId + 1
      \/ (\E o \in rows : o.kopis_id = p /\ t.id = o.id) /\ nextId' = nextId
  BY <1>2, PutIdFacts DEF Put
<1> QED
  BY <1>2, <1>3, <1>4

\* A change of the table keeps its keys.
LEMMA TableKeepsKeys ==
    ASSUME TableInv, TableNext
    PROVE  /\ rows' \subseteq TableRow /\ KeysInv' /\ nextId' \in Nat /\ nextId <= nextId'
           /\ \A t \in rows' : t \in rows \/ t.id = nextId
                               \/ \E r \in rows : r.kopis_id = t.kopis_id /\ r.id = t.id
<1>0. nextId \in Nat /\ \A r \in rows : r.id \in Nat /\ r.id < nextId
  BY DEF TableInv, TypeOK, TableRow, KeysInv
<1>1. ASSUME NEW p \in Perfs, NEW v \in Venues \cup {Null}, NEW d \in Days, Put(p, v, d)
      PROVE  /\ rows' \subseteq TableRow /\ KeysInv' /\ nextId' \in Nat /\ nextId <= nextId'
             /\ \A t \in rows' : t \in rows \/ t.id = nextId
                                 \/ \E r \in rows : r.kopis_id = t.kopis_id /\ r.id = t.id
  <2>1. PICK t \in TableRow :
             /\ t.kopis_id = p
             /\ rows' = {r \in rows : r.kopis_id # p} \cup {t}
             /\ \/ (\A r \in rows : r.kopis_id # p) /\ t.id = nextId /\ nextId' = nextId + 1
                \/ (\E o \in rows : o.kopis_id = p /\ t.id = o.id) /\ nextId' = nextId
    BY <1>1, PutFacts
  <2>2. IsFiniteSet(rows')
    <3>1. IsFiniteSet({r \in rows : r.kopis_id # p})
      BY FS_Subset DEF TableInv, KeysInv
    <3> QED
      BY <2>1, <3>1, FS_AddElement
  <2>3. nextId' \in Nat /\ nextId <= nextId' /\ t.id < nextId'
    BY <1>0, <2>1
  <2>4. \A r \in rows : r.kopis_id # p => r.id # t.id
    BY <1>0, <2>1 DEF TableInv, KeysInv
  <2>5. ASSUME NEW r \in rows'
        PROVE  r.id < nextId'
    BY <1>0, <2>1, <2>3
  <2>6. ASSUME NEW r \in rows', NEW u \in rows', r.id = u.id \/ r.kopis_id = u.kopis_id
        PROVE  r = u
    <3>1. CASE r = t \/ u = t
      BY <2>1, <2>4, <2>6, <3>1
    <3>2. CASE r # t /\ u # t
      BY <2>1, <2>6, <3>2 DEF TableInv, KeysInv
    <3> QED
      BY <3>1, <3>2
  <2>7. rows' \subseteq TableRow
    BY <2>1 DEF TableInv, TypeOK
  <2>8. \A u \in rows' : u \in rows \/ u.id = nextId
                         \/ \E r \in rows : r.kopis_id = u.kopis_id /\ r.id = u.id
    BY <2>1
  <2>9. KeysInv'
    BY <2>2, <2>5, <2>6 DEF KeysInv
  <2> QED
    BY <2>3, <2>7, <2>8, <2>9
<1>2. ASSUME NEW gone \in SUBSET rows, RemoveRows(gone)
      PROVE  /\ rows' \subseteq TableRow /\ KeysInv' /\ nextId' \in Nat /\ nextId <= nextId'
             /\ \A t \in rows' : t \in rows \/ t.id = nextId
                                 \/ \E r \in rows : r.kopis_id = t.kopis_id /\ r.id = t.id
  <2>1. rows' \subseteq rows /\ nextId' = nextId
    BY <1>2 DEF RemoveRows
  <2>2. IsFiniteSet(rows')
    BY <2>1, FS_Subset DEF TableInv, KeysInv
  <2> QED
    BY <1>0, <2>1, <2>2 DEF TableInv, TypeOK, KeysInv
<1> QED
  BY <1>1, <1>2 DEF TableNext

-----------------------------------------------------------------------------
(* TableInv is inductive.                                                  *)

\* The entry fetched next is one of those left: ids have a smallest one.
LEMMA NextEntryFacts ==
    ASSUME TypeOK, list # Null, list.left # {}
    PROVE  NextEntry \in list.left /\ NextEntry \in Entry
<1>1. list.left \subseteq Entry
  BY DEF TypeOK, Listing
<1> DEFINE Ids == {e.id : e \in list.left}
<1>2. Ids \in SUBSET Nat /\ Ids # {}
  BY <1>1 DEF Entry
<1> HIDE DEF Ids
<1>3. PICK n \in Ids : \A m \in Ids : n <= m
  BY <1>2, LeastNatural
<1>4. \E e \in list.left : \A d \in list.left : e.id <= d.id
  BY <1>3 DEF Ids
<1>5. NextEntry \in list.left
  BY <1>4 DEF NextEntry
<1> QED
  BY <1>1, <1>5

\* The rows shown for an entry are cards.
LEMMA RowsOfFacts ==
    ASSUME TypeOK, NEW e
    PROVE  RowsOf(e) \subseteq Card /\ RowsOf(e) \subseteq rows
  BY DEF TypeOK, RowsOf, Visible, Card
\* A new call is a request.
LEMMA CallIsRequest ==
    ASSUME NEW f \in Area, NEW o \in Nat
    PROVE  Call(f, o) \in Request
  BY DEF Call, Request

\* What the queries answer fits into their request.
LEMMA QueriesKeepType ==
    ASSUME TableInv, NEW c \in {"first", "more"}, SelectRows(c) \/ SelectCount(c)
    PROVE  TypeOK'
<1>1. calls[c] \in Request /\ calls[c].offset \in Nat
  BY DEF SelectRows, SelectCount, TableInv, TypeOK, Request
<1>2. UNCHANGED <<rows, nextId, changes, page, filter, items, total, calm, savedVars>>
  BY DEF SelectRows, SelectCount
<1>3. PICK q \in Request : calls' = [calls EXCEPT ![c] = q]
  <2>1. CASE SelectRows(c)
    <3>1. PICK got \in Seq(Card) : got = PageOf(calls[c].filter, calls[c].offset)
      BY <1>1, PageOfFacts
    <3>2. PICK q \in Request : q = [calls[c] EXCEPT !.step = "rows", !.got = got]
      BY <1>1 DEF Request
    <3>3. calls' = [calls EXCEPT ![c] = q]
      BY <2>1, <3>1, <3>2 DEF SelectRows
    <3> QED
      BY <3>3
  <2>2. CASE SelectCount(c)
    <3>1. PICK n \in Nat : n = Cardinality(Selected(calls[c].filter))
      BY OrderedFacts
    <3>2. PICK q \in Request : q = [calls[c] EXCEPT !.step = "answered", !.total = n]
      BY <1>1 DEF Request
    <3>3. calls' = [calls EXCEPT ![c] = q]
      BY <2>2, <3>1, <3>2 DEF SelectCount
    <3> QED
      BY <3>3
  <2> QED
    BY <2>1, <2>2
<1>4. DOMAIN calls' = {"first", "more"} /\ \A b \in DOMAIN calls' : calls'[b] = Null \/ calls'[b] \in Request
  BY <1>3 DEF TableInv, TypeOK
<1> QED
  BY <1>2, <1>4 DEF TableInv, TypeOK, savedVars

\* So does what the dashboard does with it.
LEMMA DashboardKeepsType ==
    ASSUME TableInv,
           \/ OpenDashboard \/ LeaveDashboard \/ LoadMore \/ \E f \in Area : ChooseFilter(f)
           \/ FirstArrives \/ FirstFails \/ MoreArrives \/ MoreFails
    PROVE  TypeOK' /\ UNCHANGED <<rows, nextId, saved>>
<1> USE DEF savedVars
<1>1. CASE OpenDashboard
  <2>1. Call(Null, 0) \in Request /\ Null \in Area
    BY CallIsRequest DEF Area
  <2> QED
    BY <1>1, <2>1 DEF OpenDashboard, ShowFirstPage, TableInv, TypeOK
<1>2. CASE LeaveDashboard
  <2>1. <<>> \in Seq(Card) /\ Null \in Area
    BY DEF Area
  <2>2. DOMAIN calls' = {"first", "more"} /\ \A c \in {"first", "more"} : calls'[c] = Null
    BY <1>2 DEF LeaveDashboard, Idle
  <2> QED
    BY <1>2, <2>1, <2>2 DEF LeaveDashboard, TableInv, TypeOK
<1>3. CASE LoadMore
  <2>1. Call(filter, Len(items)) \in Request
    BY CallIsRequest DEF TableInv, TypeOK
  <2> QED
    BY <1>3, <2>1 DEF LoadMore, TableInv, TypeOK
<1>4. ASSUME NEW f \in Area, ChooseFilter(f)
      PROVE  TypeOK' /\ UNCHANGED <<rows, nextId, saved>>
  <2>1. Call(f, 0) \in Request
    BY CallIsRequest
  <2>2. calls["more"] = Null \/ calls["more"] \in Request
    BY DEF TableInv, TypeOK
  <2> QED
    BY <1>4, <2>1, <2>2 DEF ChooseFilter, ShowFirstPage, TableInv, TypeOK
<1>5. CASE FirstArrives
  <2>1. calls["first"].got \in Seq(Card) /\ calls["first"].total \in Nat
    BY <1>5 DEF FirstArrives, TableInv, TypeOK, Request
  <2> QED
    BY <1>5, <2>1 DEF FirstArrives, TableInv, TypeOK
<1>6. CASE FirstFails \/ MoreFails
  <2>1. <<>> \in Seq(Card)
    OBVIOUS
  <2>2. DOMAIN calls' = {"first", "more"} /\ \A c \in {"first", "more"} : calls'[c] = Null \/ calls'[c] \in Request
    BY <1>6 DEF FirstFails, MoreFails, TableInv, TypeOK
  <2>3. (items' = <<>> /\ total' = 0) \/ (items' = items /\ total' = total)
    BY <1>6 DEF FirstFails, MoreFails
  <2>4. items \in Seq(Card) /\ total \in Nat
    BY DEF TableInv, TypeOK
  <2>5. items' \in Seq(Card)
    BY <2>1, <2>3, <2>4
  <2>6. total' \in Nat
    BY <2>3, <2>4
  <2> QED
    BY <1>6, <2>2, <2>5, <2>6 DEF FirstFails, MoreFails, TableInv, TypeOK
<1>7. CASE MoreArrives
  <2>1. calls["more"].got \in Seq(Card)
    BY <1>7 DEF MoreArrives, TableInv, TypeOK, Request
  <2>2. items \o calls["more"].got \in Seq(Card)
    BY <2>1 DEF TableInv, TypeOK
  <2> QED
    BY <1>7, <2>2 DEF MoreArrives, TableInv, TypeOK
<1> QED
  BY <1>1, <1>2, <1>3, <1>4, <1>5, <1>6, <1>7

\* What an answer of event-service adds to the list.
Answers(e) == {[entry |-> e, row |-> r] : r \in RowsOf(e)}

\* And what saved-service does.
LEMMA SavedKeepsType ==
    ASSUME TableInv,
           \/ \E r \in rows : AddSaved(r)
           \/ \E e \in saved : DeleteSaved(e)
           \/ ListSaved \/ FetchSaved \/ FetchSavedRefused \/ SavedArrives \/ SavedFails
    PROVE  TypeOK' /\ UNCHANGED <<rows, nextId>>
<1> USE DEF pageVars
<1>1. ASSUME NEW r \in rows, AddSaved(r)
      PROVE  TypeOK' /\ UNCHANGED <<rows, nextId>>
  <2>1. EntryOf(r) \in Entry
    BY DEF EntryOf, Entry, TableInv, TypeOK, TableRow
  <2> QED
    BY <1>1, <2>1 DEF AddSaved, TableInv, TypeOK
<1>2. CASE \E e \in saved : DeleteSaved(e)
  BY <1>2 DEF DeleteSaved, TableInv, TypeOK
<1>3. CASE ListSaved
  <2>1. Sure(rows) \subseteq Entry
    BY DEF Sure, TableInv, TypeOK
  <2>2. list' \in Listing
    BY <1>3, <2>1 DEF ListSaved, Listing, TableInv, TypeOK
  <2> QED
    BY <1>3, <2>2 DEF ListSaved, TableInv, TypeOK
<1>4. CASE FetchSaved
  <2>1. PICK e \in Entry : e = NextEntry
    BY <1>4, NextEntryFacts DEF FetchSaved, TableInv
  <2>2. Answers(e) \subseteq [entry : Entry, row : Card]
    BY RowsOfFacts DEF Answers, TableInv
  <2>3. list' = [list EXCEPT !.left = @ \ {e}, !.got = @ \cup Answers(e)]
    BY <1>4, <2>1 DEF FetchSaved, Answers
  <2>4. list \in Listing
    BY <1>4 DEF FetchSaved, TableInv, TypeOK
  <2>5. list' \in Listing
    BY <2>2, <2>3, <2>4 DEF Listing
  <2> QED
    BY <1>4, <2>5 DEF FetchSaved, TableInv, TypeOK
<1>5. CASE FetchSavedRefused
  BY <1>5 DEF FetchSavedRefused, Listing, TableInv, TypeOK
<1>6. CASE SavedArrives \/ SavedFails
  BY <1>6 DEF SavedArrives, SavedFails, TableInv, TypeOK
<1> QED
  BY <1>1, <1>2, <1>3, <1>4, <1>5, <1>6

\* Every step keeps the types, and the keys of the table.
LEMMA TableStep == TableInv /\ [Next]_vars => TableInv'
<1> SUFFICES ASSUME TableInv, [Next]_vars PROVE TableInv'
  OBVIOUS
<1>1. CASE TableChanges
  <2>1. /\ rows' \subseteq TableRow /\ KeysInv' /\ nextId' \in 1 .. MaxId + 1
    <3>1. nextId \in 1 .. MaxId + 1 /\ nextId' <= MaxId + 1
      BY <1>1 DEF TableChanges, TableInv, TypeOK
    <3> QED
      BY <1>1, <3>1, TableKeepsKeys, ReadersAssumption DEF TableChanges
  <2>2. changes' \in 0 .. MaxChanges
    BY <1>1, ReadersAssumption DEF TableChanges, TableInv, TypeOK
  <2>3. list' = Null \/ list' \in Listing
    <3>1. CASE list = Null
      BY <1>1, <3>1 DEF TableChanges
    <3>2. CASE list # Null
      <4>1. PICK S : S = Sure(rows')
        OBVIOUS
      <4>2. list' = [list EXCEPT !.sure = @ \cap S]
        BY <1>1, <3>2, <4>1 DEF TableChanges
      <4> QED
        BY <3>2, <4>2 DEF TableInv, TypeOK, Listing
    <3> QED
      BY <3>1, <3>2
  <2> QED
    BY <1>1, <2>1, <2>2, <2>3 DEF TableChanges, TableInv, TypeOK
<1>2. CASE \E c \in {"first", "more"} : SelectRows(c) \/ SelectCount(c)
  <2>1. TypeOK' /\ UNCHANGED <<rows, nextId>>
    BY <1>2, QueriesKeepType DEF SelectRows, SelectCount
  <2> QED
    BY <2>1 DEF TableInv, KeysInv
<1>3. CASE \/ OpenDashboard \/ LeaveDashboard \/ LoadMore \/ \E f \in Area : ChooseFilter(f)
           \/ FirstArrives \/ FirstFails \/ MoreArrives \/ MoreFails
  BY <1>3, DashboardKeepsType DEF TableInv, KeysInv
<1>4. CASE \/ \E r \in rows : AddSaved(r)
           \/ \E e \in saved : DeleteSaved(e)
           \/ ListSaved \/ FetchSaved \/ FetchSavedRefused \/ SavedArrives \/ SavedFails
  BY <1>4, SavedKeepsType DEF TableInv, KeysInv
<1>5. CASE UNCHANGED vars
  BY <1>5 DEF vars, pageVars, savedVars, TableInv, KeysInv, TypeOK
<1> QED
  BY <1>1, <1>2, <1>3, <1>4, <1>5 DEF Next

\* An empty table, and nobody at the page.
LEMMA TableInvInit == Init => TableInv
<1> SUFFICES ASSUME Init PROVE TableInv
  OBVIOUS
<1>1. IsFiniteSet(rows)
  BY FS_EmptySet DEF Init, TableInit
<1>2. nextId \in 1 .. MaxId + 1 /\ changes \in 0 .. MaxChanges
  BY ReadersAssumption DEF Init, TableInit
<1>3. <<>> \in Seq(Card) /\ Null \in Area
  BY DEF Area
<1>4. DOMAIN calls = {"first", "more"} /\ \A c \in {"first", "more"} : calls[c] = Null
  BY DEF Init, Idle
<1>5. TypeOK
  BY <1>2, <1>3, <1>4 DEF Init, TableInit, TypeOK
<1> QED
  BY <1>1, <1>5 DEF TableInv, KeysInv, Init, TableInit

\* So the types and the keys hold in every reachable state.
LEMMA TableInvHolds == Spec => []TableInv
  BY TableInvInit, TableStep, PTL DEF Spec

\* Type correctness; in it, the pages shown, asked for and under way are made of
\* rows that have a venue, and a saved list of entries and rows.
THEOREM ReadersTypeOK == Spec => []TypeOK
<1>1. TableInv => TypeOK
  BY DEF TableInv
<1> QED
  BY <1>1, TableInvHolds, PTL
-----------------------------------------------------------------------------
(* The saved list                                                          *)

\* What carries the id of an entry is the performance that was saved.
Honest(e) == e.id < nextId /\ \A r \in rows : r.id = e.id => r.kopis_id = e.kopis_id

\* What the entry stands for is to be seen.
InSight(e) == \E r \in Visible(rows) : EntryOf(r) = e

\* Entries that wait for their turn can be trusted like those that are saved, and
\* what was to be seen all the while waits or has been shown.
SavedInv ==
    /\ \A e \in saved : Honest(e)
    /\ list # Null =>
         /\ \A e \in list.left : Honest(e)
         /\ \A g \in list.got : g.entry.kopis_id = g.row.kopis_id
         /\ \A e \in list.sure : InSight(e) /\ (e \in list.left \/ \E g \in list.got : g.entry = e)

-----------------------------------------------------------------------------
(* The scroll                                                              *)

\* While the table stays as it is, a call brings the page that comes next.
Faithful(q) ==
    /\ q.filter = filter /\ q.offset = Len(items)
    /\ q.step # "sent" => q.got = PageOf(filter, q.offset)
    /\ q.step = "answered" => q.total = Len(Ordered(filter))

ScrollInv ==
    calm =>
        /\ IsPrefix(items, Ordered(filter))
        /\ items # <<>> => total = Len(Ordered(filter))
        /\ calls["first"] # Null => items = <<>> /\ calls["more"] = Null
        /\ calls["more"] # Null => items # <<>>
        /\ \A c \in {"first", "more"} : calls[c] # Null => Faithful(calls[c])
-----------------------------------------------------------------------------
(* The saved list is right.                                                *)

\* An entry that is honest stays so: no id comes to mean another performance.
LEMMA HonestStays ==
    ASSUME TableInv, TableNext, NEW e \in Entry, Honest(e)
    PROVE  Honest(e)'
<1>1. e.id \in Nat /\ e.id < nextId /\ nextId \in Nat
  BY DEF Entry, Honest, TableInv, TypeOK
<1>2. nextId' \in Nat /\ nextId <= nextId'
  BY TableKeepsKeys
<1>3. ASSUME NEW t \in rows', t.id = e.id
      PROVE  t.kopis_id = e.kopis_id
  <2>1. t \in rows \/ \E r \in rows : r.kopis_id = t.kopis_id /\ r.id = t.id
    BY <1>1, <1>3, TableKeepsKeys
  <2> QED
    BY <1>3, <2>1 DEF Honest
<1> QED
  BY <1>1, <1>2, <1>3 DEF Honest

\* An answer is about the performance that was saved, and there is one if it can
\* be seen.
LEMMA FetchKeepsSaved ==
    ASSUME TableInv, SavedInv, FetchSaved
    PROVE  SavedInv'
<1>1. PICK e \in Entry : e = NextEntry /\ e \in list.left
  BY NextEntryFacts DEF FetchSaved, TableInv
<1>2. /\ list' = [list EXCEPT !.left = @ \ {e}, !.got = @ \cup Answers(e)]
      /\ list # Null /\ list \in Listing /\ UNCHANGED <<rows, nextId, saved>>
  BY <1>1 DEF FetchSaved, Answers, TableInv, TypeOK
<1>3. list'.left = list.left \ {e} /\ list'.got = list.got \cup Answers(e) /\ list'.sure = list.sure
  BY <1>2 DEF Listing
<1>4. /\ \A d \in list.left : Honest(d)
      /\ \A g \in list.got : g.entry.kopis_id = g.row.kopis_id
      /\ \A d \in list.sure : InSight(d) /\ (d \in list.left \/ \E g \in list.got : g.entry = d)
      /\ \A d \in saved : Honest(d)
  BY <1>2 DEF SavedInv
<1>5. ASSUME NEW g \in Answers(e)
      PROVE  g.entry = e /\ g.entry.kopis_id = g.row.kopis_id
  <2>1. PICK r \in RowsOf(e) : g = [entry |-> e, row |-> r]
    BY DEF Answers
  <2>2. r \in rows /\ r.id = e.id
    BY DEF RowsOf, Visible
  <2> QED
    BY <1>1, <1>4, <2>1, <2>2 DEF Honest
<1>6. ASSUME NEW d \in list.sure
      PROVE  d \in list'.left \/ \E g \in list'.got : g.entry = d
  <2>1. CASE d = e
    <3>1. PICK r \in Visible(rows) : EntryOf(r) = e
      BY <1>4, <2>1 DEF InSight
    <3>2. r \in RowsOf(e)
      BY <3>1 DEF EntryOf, RowsOf
    <3>3. [entry |-> e, row |-> r] \in Answers(e)
      BY <3>2 DEF Answers
    <3> QED
      BY <1>3, <2>1, <3>3
  <2>2. CASE d # e
    BY <1>3, <1>4, <2>2
  <2> QED
    BY <2>1, <2>2
<1>7. \A d : (Honest(d)' <=> Honest(d)) /\ (InSight(d)' <=> InSight(d))
  BY <1>2 DEF Honest, InSight
<1>8. \A g \in list'.got : g.entry.kopis_id = g.row.kopis_id
  BY <1>3, <1>4, <1>5
<1> QED
  BY <1>2, <1>3, <1>4, <1>6, <1>7, <1>8 DEF SavedInv

\* A change of the table takes what it puts out of sight from what must be shown.
LEMMA ChangesKeepSaved ==
    ASSUME TableInv, SavedInv, TableChanges
    PROVE  SavedInv'
<1>1. TableNext /\ saved' = saved
  BY DEF TableChanges
<1>2. \A e \in saved : Honest(e)'
  BY <1>1, HonestStays DEF SavedInv, TableInv, TypeOK
<1>3. CASE list = Null
  BY <1>1, <1>2, <1>3 DEF SavedInv, TableChanges
<1>4. CASE list # Null
  <2>1. list \in Listing
    BY <1>4 DEF TableInv, TypeOK
  <2>2. PICK S : S = Sure(rows')
    OBVIOUS
  <2>3. list'.left = list.left /\ list'.got = list.got /\ list'.sure = list.sure \cap S
    BY <1>4, <2>1, <2>2 DEF TableChanges, Listing
  <2>4. ASSUME NEW e \in list.left
        PROVE  Honest(e)'
    <3>1. e \in Entry /\ Honest(e)
      BY <1>4, <2>1 DEF Listing, SavedInv
    <3> QED
      BY <1>1, <3>1, HonestStays
  <2>5. ASSUME NEW e \in list'.sure
        PROVE  InSight(e)' /\ e \in list.sure
    <3>1. e \in S /\ e \in list.sure
      BY <2>3
    <3>2. \E r \in Visible(rows') : EntryOf(r) = e
      BY <2>2, <3>1 DEF Sure
    <3> QED
      BY <3>1, <3>2 DEF InSight, Visible, EntryOf
  <2> QED
    BY <1>1, <1>2, <1>4, <2>3, <2>4, <2>5 DEF SavedInv
<1> QED
  BY <1>3, <1>4

\* Every step keeps SavedInv.
LEMMA SavedStep == TableInv /\ SavedInv /\ [Next]_vars => SavedInv'
<1> SUFFICES ASSUME TableInv, SavedInv, [Next]_vars PROVE SavedInv'
  OBVIOUS
<1>1. ASSUME UNCHANGED <<rows, nextId>>
      PROVE  \A e : (Honest(e)' <=> Honest(e)) /\ (InSight(e)' <=> InSight(e))
  BY <1>1 DEF Honest, InSight
<1>2. CASE TableChanges
  BY <1>2, ChangesKeepSaved
<1>3. CASE FetchSaved
  BY <1>3, FetchKeepsSaved
<1>4. CASE UNCHANGED <<rows, nextId, saved, list>>
  BY <1>1, <1>4 DEF SavedInv
<1>5. CASE OpenDashboard \/ SavedArrives \/ SavedFails
  <2>1. list' = Null /\ UNCHANGED <<rows, nextId, saved>>
    BY <1>5 DEF OpenDashboard, SavedArrives, SavedFails
  <2> QED
    BY <1>1, <2>1 DEF SavedInv
<1>6. ASSUME NEW r \in rows, AddSaved(r)
      PROVE  SavedInv'
  <2>1. saved' = saved \cup {EntryOf(r)} /\ UNCHANGED <<rows, nextId, list>>
    BY <1>6 DEF AddSaved
  <2>2. Honest(EntryOf(r))
    BY DEF Honest, EntryOf, TableInv, KeysInv
  <2> QED
    BY <1>1, <2>1, <2>2 DEF SavedInv
<1>7. CASE \E e \in saved : DeleteSaved(e)
  <2>1. saved' \subseteq saved /\ UNCHANGED <<rows, nextId, list>>
    BY <1>7 DEF DeleteSaved
  <2> QED
    BY <1>1, <2>1 DEF SavedInv
<1>8. CASE ListSaved
  <2>1. /\ list' = [left |-> saved, got |-> {}, sure |-> Sure(rows)]
        /\ UNCHANGED <<rows, nextId, saved>>
    BY <1>8 DEF ListSaved
  <2>2. list'.left = saved /\ list'.got = {} /\ list'.sure = Sure(rows)
    BY <2>1
  <2>3. \A e \in Sure(rows) : e \in saved /\ InSight(e)
    BY DEF Sure, InSight
  <2> QED
    BY <1>1, <2>1, <2>2, <2>3 DEF SavedInv
<1>9. CASE FetchSavedRefused
  <2>1. list # Null /\ list \in Listing /\ UNCHANGED <<rows, nextId, saved>>
    BY <1>9 DEF FetchSavedRefused, TableInv, TypeOK
  <2>2. PICK e \in Entry : e = NextEntry
    BY <1>9, NextEntryFacts DEF FetchSavedRefused, TableInv
  <2>3. list'.left = list.left \ {e} /\ list'.got = list.got /\ list'.sure = list.sure \ {e}
    BY <1>9, <2>1, <2>2 DEF FetchSavedRefused, Listing
  <2> QED
    BY <1>1, <2>1, <2>3 DEF SavedInv
<1> QED
  BY <1>2, <1>3, <1>4, <1>5, <1>6, <1>7, <1>8, <1>9
     DEF Next, vars, pageVars, savedVars, SelectRows, SelectCount, LeaveDashboard, LoadMore, ChooseFilter,
         ShowFirstPage, FirstArrives, FirstFails, MoreArrives, MoreFails

\* Under an id the saved list shows the performance that was saved under it, and it
\* leaves out nothing that was saved and to be seen all the while, however the jobs
\* change the table between two of its calls.
THEOREM SavedListsAreRight == Spec => []SavedListIsRight
<1>1. Init => SavedInv
  BY DEF Init, SavedInv
<1>2. TableInv /\ SavedInv => SavedListIsRight
  <2> SUFFICES ASSUME TableInv, SavedInv, list # Null
               PROVE  /\ \A g \in list.got : g.entry.kopis_id = g.row.kopis_id
                      /\ list.left = {} => list.sure \subseteq {g.entry : g \in list.got}
    BY DEF SavedListIsRight
  <2> QED
    BY DEF SavedInv
<1> QED
  BY <1>1, <1>2, SavedStep, TableInvHolds, PTL DEF Spec
-----------------------------------------------------------------------------
(* Scrolling is quiet while the table is.                                  *)

\* A query is answered as the table is.
LEMMA QueriesKeepScroll ==
    ASSUME TableInv, ScrollInv, NEW c \in {"first", "more"}, SelectRows(c) \/ SelectCount(c)
    PROVE  ScrollInv'
<1> SUFFICES ASSUME calm' PROVE ScrollInv'
  BY DEF ScrollInv
<1>1. /\ calm /\ calls[c] # Null /\ calls[c] \in Request /\ DOMAIN calls = {"first", "more"}
      /\ UNCHANGED <<rows, filter, items, total>>
  BY DEF SelectRows, SelectCount, TableInv, TypeOK
<1>2. \A f : Selected(f)' = Selected(f) /\ Ordered(f)' = Ordered(f)
  BY <1>1 DEF Selected, Ordered
<1>3. \A o : PageOf(filter, o)' = PageOf(filter, o)
  BY <1>1, <1>2 DEF PageOf
<1>4. /\ IsPrefix(items, Ordered(filter))
      /\ items # <<>> => total = Len(Ordered(filter))
      /\ calls["first"] # Null => items = <<>> /\ calls["more"] = Null
      /\ calls["more"] # Null => items # <<>>
      /\ \A b \in {"first", "more"} : calls[b] # Null => Faithful(calls[b])
  BY <1>1 DEF ScrollInv
<1>5. Len(Ordered(filter)) = Cardinality(Selected(filter))
  BY OrderedFacts
<1>6. \E q : calls' = [calls EXCEPT ![c] = q] /\ Faithful(q)
  <2>1. Faithful(calls[c])
    BY <1>1, <1>4
  <2>2. CASE SelectRows(c)
    <3>1. PICK got : got = PageOf(calls[c].filter, calls[c].offset)
      OBVIOUS
    <3>2. PICK q : q = [calls[c] EXCEPT !.step = "rows", !.got = got]
      OBVIOUS
    <3>3. calls' = [calls EXCEPT ![c] = q]
      BY <2>2, <3>1, <3>2 DEF SelectRows
    <3>4. q.filter = calls[c].filter /\ q.offset = calls[c].offset /\ q.step = "rows" /\ q.got = got
      BY <1>1, <3>2 DEF Request
    <3> QED
      BY <2>1, <3>1, <3>3, <3>4 DEF Faithful
  <2>3. CASE SelectCount(c)
    <3>1. PICK n : n = Cardinality(Selected(calls[c].filter))
      OBVIOUS
    <3>2. PICK q : q = [calls[c] EXCEPT !.step = "answered", !.total = n]
      OBVIOUS
    <3>3. calls' = [calls EXCEPT ![c] = q] /\ calls[c].step = "rows"
      BY <2>3, <3>1, <3>2 DEF SelectCount
    <3>4. q.filter = calls[c].filter /\ q.offset = calls[c].offset /\ q.got = calls[c].got /\ q.total = n
      BY <1>1, <3>2 DEF Request
    <3> QED
      BY <1>5, <2>1, <3>1, <3>3, <3>4 DEF Faithful
  <2> QED
    BY <2>2, <2>3
<1>7. PICK q : calls' = [calls EXCEPT ![c] = q] /\ Faithful(q)
  BY <1>6
<1>8. \A b \in {"first", "more"} : calls'[b] = (IF b = c THEN q ELSE calls[b])
  BY <1>1, <1>7
<1>9. \A b \in {"first", "more"} : calls'[b] # Null => calls[b] # Null /\ Faithful(calls'[b])
  BY <1>1, <1>4, <1>7, <1>8
<1>10. \A p : Faithful(p)' <=> Faithful(p)
  <2>1. UNCHANGED <<filter, items>>
    BY <1>1
  <2> QED
    BY <1>2, <1>3, <2>1 DEF Faithful
<1>11. /\ IsPrefix(items, Ordered(filter))'
       /\ items' # <<>> => total' = Len(Ordered(filter))'
  BY <1>1, <1>2, <1>4
<1> QED
  BY <1>1, <1>4, <1>8, <1>9, <1>10, <1>11 DEF ScrollInv
\* A choice of a filter begins a new list, with one call under way.
LEMMA FirstPageStartsScroll ==
    ASSUME TableInv, NEW f \in Area, NEW more, ShowFirstPage(f, more), rows' = rows
    PROVE  ScrollInv'
<1> SUFFICES ASSUME calm' PROVE ScrollInv'
  BY DEF ScrollInv
<1>1. filter' = f /\ items' = <<>> /\ calls' = [first |-> Call(f, 0), more |-> Null]
  BY DEF ShowFirstPage
<1>2. calls'["first"] = Call(f, 0) /\ calls'["more"] = Null
  BY <1>1
<1>3. Faithful(Call(f, 0))'
  <2>1. /\ Call(f, 0).filter = f /\ Call(f, 0).offset = 0 /\ Call(f, 0).step = "sent"
    BY DEF Call
  <2> QED
    BY <1>1, <2>1 DEF Faithful
<1>4. IsPrefix(items, Ordered(filter))'
  <2>1. Ordered(filter)' = Ordered(f)
    BY <1>1 DEF Ordered, Selected
  <2>2. IsPrefix(<<>>, Ordered(f))
    BY OrderedFacts, EmptyIsPrefix
  <2> QED
    BY <1>1, <2>1, <2>2
<1> QED
  BY <1>1, <1>2, <1>3, <1>4 DEF ScrollInv

\* A page that arrives shows the list, or makes it longer; one that fails leaves
\* room to ask again.
LEMMA ArrivalsKeepScroll ==
    ASSUME TableInv, ScrollInv, FirstArrives \/ FirstFails \/ MoreArrives \/ MoreFails \/ LoadMore
    PROVE  ScrollInv'
<1> SUFFICES ASSUME calm' PROVE ScrollInv'
  BY DEF ScrollInv
<1>1. calm /\ UNCHANGED <<rows, filter>>
  BY DEF FirstArrives, FirstFails, MoreArrives, MoreFails, LoadMore
<1>2. /\ IsPrefix(items, Ordered(filter))
      /\ items # <<>> => total = Len(Ordered(filter))
      /\ calls["first"] # Null => items = <<>> /\ calls["more"] = Null
      /\ calls["more"] # Null => items # <<>>
      /\ \A b \in {"first", "more"} : calls[b] # Null => Faithful(calls[b])
  BY <1>1 DEF ScrollInv
<1>3. PICK O : O = Ordered(filter)
  OBVIOUS
<1>4. O \in Seq(Card) /\ Ordered(filter)' = O
  <2>1. Ordered(filter)' = Ordered(filter)
    BY <1>1 DEF Ordered, Selected
  <2> QED
    BY <1>3, <2>1, OrderedFacts
<1>5. DOMAIN calls = {"first", "more"} /\ items \in Seq(Card) /\ Len(items) \in Nat
  BY DEF TableInv, TypeOK
<1>6. \A o : PageOf(filter, o) = SubSeq(O, o + 1, Min({o + PAGE, Len(O)}))
  BY <1>3 DEF PageOf
<1>7. CASE FirstArrives
  <2>1. /\ items' = calls["first"].got /\ total' = calls["first"].total
        /\ calls'["first"] = Null /\ calls'["more"] = Null
        /\ Faithful(calls["first"]) /\ calls["first"].step = "answered" /\ items = <<>>
    BY <1>2, <1>5, <1>7 DEF FirstArrives
  <2>2. items' = SubSeq(O, 0 + 1, Min({0 + PAGE, Len(O)})) /\ total' = Len(O)
    BY <1>3, <1>6, <2>1 DEF Faithful
  <2>3. IsPrefix(<<>> \o SubSeq(O, 0 + 1, Min({0 + PAGE, Len(O)})), O)
    <3>1. IsPrefix(<<>>, O) /\ <<>> \in Seq(Card) /\ Len(<<>>) = 0
      BY <1>4, EmptyIsPrefix
    <3> QED
      BY <1>4, <3>1, PrefixGrows
  <2>4. <<>> \o SubSeq(O, 0 + 1, Min({0 + PAGE, Len(O)})) = SubSeq(O, 0 + 1, Min({0 + PAGE, Len(O)}))
    BY <1>4, PageIsSeq
  <2>5. IsPrefix(items, Ordered(filter))'
    BY <1>4, <2>2, <2>3, <2>4
  <2> QED
    BY <1>4, <2>1, <2>2, <2>5 DEF ScrollInv
<1>8. CASE MoreArrives
  <2>1. /\ items' = items \o calls["more"].got /\ total' = total
        /\ calls'["first"] = calls["first"] /\ calls'["more"] = Null
        /\ Faithful(calls["more"]) /\ calls["more"].step = "answered"
        /\ items # <<>> /\ calls["first"] = Null
    BY <1>2, <1>5, <1>8 DEF MoreArrives
  <2>2. calls["more"].got = SubSeq(O, Len(items) + 1, Min({Len(items) + PAGE, Len(O)}))
    BY <1>3, <1>6, <2>1 DEF Faithful
  <2>3. IsPrefix(items \o calls["more"].got, O)
    BY <1>2, <1>3, <1>4, <1>5, <2>2, PrefixGrows
  <2>4. IsPrefix(items, Ordered(filter))' /\ total' = Len(Ordered(filter))'
    BY <1>2, <1>3, <1>4, <2>1, <2>3
  <2> QED
    BY <2>1, <2>4 DEF ScrollInv
<1>9. CASE FirstFails
  <2>1. items' = <<>> /\ calls'["first"] = Null /\ calls'["more"] = Null
    BY <1>2, <1>5, <1>9 DEF FirstFails
  <2>2. IsPrefix(items, Ordered(filter))'
    BY <1>4, <2>1, EmptyIsPrefix
  <2> QED
    BY <2>1, <2>2 DEF ScrollInv
<1>10. CASE MoreFails
  <2>1. /\ items' = items /\ total' = total
        /\ calls'["first"] = calls["first"] /\ calls'["more"] = Null
    BY <1>5, <1>10 DEF MoreFails
  <2>2. calls["first"] = Null
    BY <1>2, <1>10 DEF MoreFails
  <2> QED
    BY <1>2, <1>3, <1>4, <2>1, <2>2 DEF ScrollInv
<1>11. CASE LoadMore
  <2>1. /\ items' = items /\ total' = total /\ items # <<>>
        /\ calls'["first"] = calls["first"] /\ calls'["more"] = Call(filter, Len(items))
        /\ calls["first"] = Null
    BY <1>2, <1>5, <1>11 DEF LoadMore
  <2>2. Faithful(Call(filter, Len(items)))'
    <3>1. /\ Call(filter, Len(items)).filter = filter /\ Call(filter, Len(items)).step = "sent"
          /\ Call(filter, Len(items)).offset = Len(items)
      BY DEF Call
    <3>2. Call(filter, Len(items))' = Call(filter, Len(items))
      BY <1>1, <2>1 DEF Call
    <3> QED
      BY <1>1, <2>1, <3>1, <3>2 DEF Faithful
  <2> QED
    BY <1>1, <1>2, <1>3, <1>4, <2>1, <2>2 DEF ScrollInv
<1> QED
  BY <1>7, <1>8, <1>9, <1>10, <1>11

\* Every step keeps ScrollInv.
LEMMA ScrollStep == TableInv /\ ScrollInv /\ [Next]_vars => ScrollInv'
<1> SUFFICES ASSUME TableInv, ScrollInv, [Next]_vars PROVE ScrollInv'
  OBVIOUS
<1>1. CASE ~calm'
  BY <1>1 DEF ScrollInv
<1>2. CASE UNCHANGED <<rows, filter, items, total, calls, calm>>
  <2>1. \A f : Ordered(f)' = Ordered(f)
    BY <1>2 DEF Ordered, Selected
  <2>2. Ordered(filter)' = Ordered(filter) /\ \A o : PageOf(filter, o)' = PageOf(filter, o)
    BY <1>2, <2>1 DEF PageOf
  <2>3. \A q : Faithful(q)' <=> Faithful(q)
    BY <1>2, <2>2 DEF Faithful
  <2> QED
    BY <1>2, <2>2, <2>3 DEF ScrollInv
<1>3. CASE \E c \in {"first", "more"} : SelectRows(c) \/ SelectCount(c)
  BY <1>3, QueriesKeepScroll
<1>4. CASE FirstArrives \/ FirstFails \/ MoreArrives \/ MoreFails \/ LoadMore
  BY <1>4, ArrivalsKeepScroll
<1>5. CASE OpenDashboard
  BY <1>5, FirstPageStartsScroll DEF OpenDashboard, Area
<1>6. ASSUME NEW f \in Area, ChooseFilter(f)
      PROVE  ScrollInv'
  <2>1. PICK more : more = calls["more"]
    OBVIOUS
  <2>2. ShowFirstPage(f, more) /\ rows' = rows
    BY <1>6, <2>1 DEF ChooseFilter
  <2> QED
    BY <2>2, FirstPageStartsScroll
<1> QED
  BY <1>1, <1>2, <1>3, <1>4, <1>5, <1>6
     DEF Next, vars, pageVars, savedVars, TableChanges, LeaveDashboard, AddSaved, DeleteSaved, ListSaved,
         FetchSaved, FetchSavedRefused, SavedArrives, SavedFails

\* While the table stays as it is, and no next page of an earlier filter is under
\* way when this one is chosen, the list shown is the beginning of the answer, in
\* its order, without a gap or a repetition, and the total is that of the answer:
\* for every size of page, however pages fail and are asked for again.
THEOREM ScrollIsQuiet == Spec => []QuietScroll
<1>1. Init => ScrollInv
  BY DEF Init, ScrollInv
<1>2. ScrollInv => QuietScroll
  BY DEF ScrollInv, QuietScroll
<1> QED
  BY <1>1, <1>2, ScrollStep, TableInvHolds, PTL DEF Spec
-----------------------------------------------------------------------------
(* Schedules: what the two functions of event-service compute.             *)

\* A weekday is in a range of weekdays exactly if one comes to it on the way from
\* the first to the last, onwards through the week.
LEMMA RangeIsTheWay ==
    ASSUME NEW s \in Weekdays, NEW e \in Weekdays, NEW w \in Weekdays
    PROVE  w \in DaysOfRange(s, e) <=> (w - s) % 7 <= (e - s) % 7
<1>1. ASSUME NEW x \in -6 .. 6
      PROVE  x % 7 = IF x < 0 THEN x + 7 ELSE x
  BY <1>1
<1>2. /\ w - s \in -6 .. 6 /\ e - s \in -6 .. 6 /\ s \in 0 .. 6 /\ e \in 0 .. 6 /\ w \in 0 .. 6
  BY DEF Weekdays
<1>3. /\ (w - s) % 7 = IF w - s < 0 THEN (w - s) + 7 ELSE w - s
      /\ (e - s) % 7 = IF e - s < 0 THEN (e - s) + 7 ELSE e - s
  BY <1>1, <1>2
<1>4. w \in DaysOfRange(s, e) <=> IF e >= s THEN s <= w /\ w <= e ELSE s <= w \/ w <= e
  BY <1>2 DEF DaysOfRange
<1> QED
  BY <1>2, <1>3, <1>4

\* The weekdays of a text are those it names and those its ranges lead over: of
\* every text that says anything.
THEOREM DaysOfEveryText ==
    ASSUME NEW t \in Text, t.ranges # {} \/ t.names # {}
    PROVE  ScheduleDays(t) =
             {w \in Weekdays : w \in t.names \/ \E p \in t.ranges : (w - p[1]) % 7 <= (p[2] - p[1]) % 7}
<1> DEFINE over == UNION {DaysOfRange(p[1], p[2]) : p \in t.ranges}
           ends == UNION {{p[1], p[2]} : p \in t.ranges}
           days == over \cup t.names \cup ends
           way  == {w \in Weekdays : w \in t.names \/ \E p \in t.ranges : (w - p[1]) % 7 <= (p[2] - p[1]) % 7}
<1>1. t.names \subseteq Weekdays /\ \A p \in t.ranges : p[1] \in Weekdays /\ p[2] \in Weekdays
  BY DEF Text
<1>2. ASSUME NEW p \in t.ranges
      PROVE  /\ DaysOfRange(p[1], p[2]) \subseteq Weekdays
             /\ p[1] \in DaysOfRange(p[1], p[2]) /\ p[2] \in DaysOfRange(p[1], p[2])
    BY <1>1 DEF DaysOfRange, Weekdays
<1>3. ASSUME NEW w
      PROVE  w \in days <=> w \in t.names \/ \E p \in t.ranges : w \in DaysOfRange(p[1], p[2])
  <2>1. w \in over <=> \E p \in t.ranges : w \in DaysOfRange(p[1], p[2])
    OBVIOUS
  <2>2. w \in ends => \E p \in t.ranges : w = p[1] \/ w = p[2]
    OBVIOUS
  <2>3. w \in ends => \E p \in t.ranges : w \in DaysOfRange(p[1], p[2])
    BY <1>2, <2>2
  <2> HIDE DEF over, ends
  <2> QED
    BY <2>1, <2>3
<1>4. ASSUME NEW w
      PROVE  w \in days <=> w \in way
  <2>1. CASE w \in Weekdays
    <3>1. \A p \in t.ranges : w \in DaysOfRange(p[1], p[2]) <=> (w - p[1]) % 7 <= (p[2] - p[1]) % 7
      BY <1>1, <2>1, RangeIsTheWay
    <3>2. w \in way <=> w \in t.names \/ \E p \in t.ranges : w \in DaysOfRange(p[1], p[2])
      BY <2>1, <3>1
    <3> QED
      BY <1>3, <3>2
  <2>2. CASE w \notin Weekdays
    BY <1>1, <1>2, <1>3, <2>2
  <2> QED
    BY <2>1, <2>2
<1>5. days # {}
  <2>1. CASE t.names # {}
    BY <2>1, <1>3
  <2>2. CASE t.ranges # {}
    <3>1. PICK p \in t.ranges : TRUE
      BY <2>2
    <3>2. p[1] \in days
      BY <1>2, <1>3, <3>1
    <3> QED
      BY <3>2
  <2> QED
    BY <2>1, <2>2
<1>6. ScheduleDays(t) = days
  <2>1. ScheduleDays(t) = IF days = {} THEN Weekend ELSE days
    BY DEF ScheduleDays
  <2> HIDE DEF days
  <2> QED
    BY <1>5, <2>1
<1>7. days = way
  BY <1>4
<1> QED
  BY <1>6, <1>7

\* One turn of the loop of compute_schedules.
NextDates(dates, cur, days, max) ==
    IF Len(dates) < max /\ cur % 7 \in days THEN Append(dates, cur) ELSE dates

\* f[n] is its result after n days.
IsDates(f, N, start, days, max) ==
    /\ f \in [0 .. N -> Seq(Int)]
    /\ f[0] = <<>>
    /\ \A n \in 1 .. N : f[n] = NextDates(f[n - 1], start + n - 1, days, max)

\* The loop can go on for as many days as one likes.
LEMMA DatesExist ==
    ASSUME NEW start \in Int, NEW days, NEW max \in Nat
    PROVE  \A N \in Nat : \E f : IsDates(f, N, start, days, max)
<1> DEFINE Bad == {N \in Nat : ~\E f : IsDates(f, N, start, days, max)}
<1>1. SUFFICES ASSUME Bad # {} PROVE FALSE
  OBVIOUS
<1>2. PICK N \in Bad : \A M \in Bad : N <= M
  <2>1. Bad \in SUBSET Nat
    OBVIOUS
  <2> HIDE DEF Bad
  <2> QED
    BY <1>1, <2>1, LeastNatural
<1>3. CASE N = 0
  <2>1. IsDates([n \in 0 .. 0 |-> <<>>], 0, start, days, max)
    <3>1. <<>> \in Seq(Int)
      OBVIOUS
    <3> QED
      BY <3>1 DEF IsDates
  <2> QED
    BY <1>3, <2>1
<1>4. CASE N # 0
  <2>1. N - 1 \in Nat /\ N - 1 \notin Bad /\ N \in Nat
    BY <1>2, <1>4
  <2>2. PICK f : IsDates(f, N - 1, start, days, max)
    BY <2>1
  <2> DEFINE g == [n \in 0 .. N |->
                     IF n = N THEN NextDates(f[N - 1], start + N - 1, days, max) ELSE f[n]]
  <2>3. f \in [0 .. N - 1 -> Seq(Int)] /\ f[0] = <<>>
        /\ \A n \in 1 .. N - 1 : f[n] = NextDates(f[n - 1], start + n - 1, days, max)
    BY <2>2 DEF IsDates
  <2>4. NextDates(f[N - 1], start + N - 1, days, max) \in Seq(Int)
    BY <2>1, <2>3 DEF NextDates
  <2>5. g \in [0 .. N -> Seq(Int)] /\ g[0] = <<>>
    BY <1>4, <2>1, <2>3, <2>4
  <2>6. ASSUME NEW n \in 1 .. N
        PROVE  g[n] = NextDates(g[n - 1], start + n - 1, days, max)
    <3>1. n - 1 \in 0 .. N /\ n - 1 # N /\ g[n - 1] = f[n - 1]
      BY <2>1, <2>6
    <3>2. CASE n = N
      BY <2>1, <3>1, <3>2
    <3>3. CASE n # N
      BY <2>1, <2>3, <3>1, <3>3
    <3> QED
      BY <3>2, <3>3
  <2>7. IsDates(g, N, start, days, max)
    BY <2>5, <2>6 DEF IsDates
  <2> QED
    BY <2>7
<1> QED
  BY <1>3, <1>4
\* What the LET of compute_schedules defines.
IsLoop(f, N, start, days, max) ==
    f = [n \in 0 .. N |->
            IF n = 0 THEN <<>>
            ELSE IF Len(f[n - 1]) < max /\ (start + n - 1) % 7 \in days
                 THEN Append(f[n - 1], start + n - 1) ELSE f[n - 1]]

\* It is the loop.
LEMMA LoopIsDates ==
    ASSUME NEW start \in Int, NEW days, NEW max \in Nat, NEW N \in Nat,
           NEW f, IsDates(f, N, start, days, max), NEW g, IsLoop(g, N, start, days, max)
    PROVE  \A n \in 0 .. N : g[n] = f[n]
<1> DEFINE Bad == {n \in 0 .. N : g[n] # f[n]}
<1>1. SUFFICES ASSUME Bad # {} PROVE FALSE
  OBVIOUS
<1>2. PICK n \in Bad : \A m \in Bad : n <= m
  <2>1. Bad \in SUBSET Nat
    OBVIOUS
  <2> HIDE DEF Bad
  <2> QED
    BY <1>1, <2>1, LeastNatural
<1>3. n \in 0 .. N /\ g[n] # f[n]
  BY <1>2
<1>4. CASE n = 0
  <2>1. g[0] = <<>>
    BY DEF IsLoop
  <2> QED
    BY <1>3, <1>4, <2>1 DEF IsDates
<1>5. CASE n # 0
  <2>1. n \in 1 .. N /\ n - 1 \in 0 .. N
    BY <1>3, <1>5
  <2>2. g[n - 1] = f[n - 1]
    <3>1. n - 1 \notin Bad
      BY <1>2, <2>1
    <3> QED
      BY <2>1, <3>1
  <2>3. g[n] = NextDates(g[n - 1], start + n - 1, days, max)
    BY <1>3, <1>5, <2>1 DEF IsLoop, NextDates
  <2>4. f[n] = NextDates(f[n - 1], start + n - 1, days, max)
    BY <2>1 DEF IsDates
  <2> QED
    BY <1>3, <2>2, <2>3, <2>4
<1> QED
  BY <1>4, <1>5

\* So compute_schedules returns what the loop has after the last day.
LEMMA SchedulesAreDates ==
    ASSUME NEW start \in Nat, NEW end \in Int, start <= end, NEW days, NEW max \in Nat
    PROVE  \E f : /\ IsDates(f, end - start + 1, start, days, max)
                  /\ ComputeSchedules(start, end, days, max) = f[end - start + 1]
<1>1. PICK N \in Nat : N = end - start + 1
  OBVIOUS
<1>2. PICK f : IsDates(f, N, start, days, max)
  BY DatesExist
<1>3. IsLoop(f, N, start, days, max)
  <2>1. ASSUME NEW n \in 0 .. N
        PROVE  f[n] = IF n = 0 THEN <<>>
                      ELSE IF Len(f[n - 1]) < max /\ (start + n - 1) % 7 \in days
                           THEN Append(f[n - 1], start + n - 1) ELSE f[n - 1]
    <3>1. CASE n = 0
      BY <1>2, <3>1 DEF IsDates
    <3>2. CASE n # 0
      <4>1. n \in 1 .. N
        BY <3>2
      <4> QED
        BY <1>2, <3>2, <4>1 DEF IsDates, NextDates
    <3> QED
      BY <3>1, <3>2
  <2>2. f = [n \in 0 .. N |-> f[n]]
    BY <1>2 DEF IsDates
  <2> QED
    BY <2>1, <2>2 DEF IsLoop
<1>4. PICK g : g = (CHOOSE h : IsLoop(h, N, start, days, max)) /\ IsLoop(g, N, start, days, max)
  BY <1>3
<1>5. g[N] = f[N]
  BY <1>2, <1>4, LoopIsDates
<1>6. ComputeSchedules(start, end, days, max) = (CHOOSE h : IsLoop(h, N, start, days, max))[N]
  <2>1. Unset \notin {start, end} /\ ~(end < start)
    BY DEF Unset
  <2> QED
    BY <1>1, <2>1 DEF ComputeSchedules, IsLoop
<1> QED
  BY <1>1, <1>2, <1>4, <1>5, <1>6
\* What the dates are once the days before cur have been looked at.
DatesSoFar(dates, start, cur, days, max) ==
    /\ dates \in Seq(Int) /\ Len(dates) <= max
    /\ \A i, j \in 1 .. Len(dates) : i < j => dates[i] < dates[j]
    /\ \A i \in 1 .. Len(dates) : start <= dates[i] /\ dates[i] < cur /\ dates[i] % 7 \in days
    /\ \A d \in Int : start <= d /\ d < cur /\ d % 7 \in days =>
          \/ \E i \in 1 .. Len(dates) : dates[i] = d
          \/ Len(dates) = max /\ \A i \in 1 .. Len(dates) : dates[i] < d

\* One more day.
LEMMA NextDatesFacts ==
    ASSUME NEW start \in Int, NEW cur \in Int, start <= cur, NEW days, NEW max \in Nat,
           NEW dates, DatesSoFar(dates, start, cur, days, max)
    PROVE  DatesSoFar(NextDates(dates, cur, days, max), start, cur + 1, days, max)
<1>1. dates \in Seq(Int) /\ Len(dates) \in Nat /\ Len(dates) <= max /\ \A i \in 1 .. Len(dates) : dates[i] \in Int
  BY DEF DatesSoFar
<1>2. CASE Len(dates) < max /\ cur % 7 \in days
  <2>1. PICK t \in Seq(Int) :
          /\ t = NextDates(dates, cur, days, max) /\ Len(t) = Len(dates) + 1 /\ t[Len(dates) + 1] = cur
          /\ \A i \in 1 .. Len(dates) : t[i] = dates[i]
    <3>1. /\ Append(dates, cur) \in Seq(Int) /\ Len(Append(dates, cur)) = Len(dates) + 1
          /\ \A i \in 1 .. Len(dates) : Append(dates, cur)[i] = dates[i]
          /\ Append(dates, cur)[Len(dates) + 1] = cur
      BY <1>1, AppendProperties
    <3>2. NextDates(dates, cur, days, max) = Append(dates, cur)
      BY <1>2 DEF NextDates
    <3> QED
      BY <3>1, <3>2
  <2>0. \A i \in 1 .. Len(t) : i \in 1 .. Len(dates) \/ i = Len(dates) + 1
    BY <1>1, <2>1
  <2>2. ASSUME NEW i \in 1 .. Len(t), NEW j \in 1 .. Len(t), i < j
        PROVE  t[i] < t[j]
    <3>1. i \in 1 .. Len(dates)
      BY <1>1, <2>1, <2>2
    <3>2. CASE j = Len(dates) + 1
      BY <2>1, <3>1, <3>2 DEF DatesSoFar
    <3>3. CASE j \in 1 .. Len(dates)
      BY <2>1, <2>2, <3>1, <3>3 DEF DatesSoFar
    <3> QED
      BY <2>0, <3>2, <3>3
  <2>3. ASSUME NEW i \in 1 .. Len(t)
        PROVE  start <= t[i] /\ t[i] < cur + 1 /\ t[i] % 7 \in days
    <3>1. CASE i = Len(dates) + 1
      <4>1. t[i] = cur
        BY <2>1, <3>1
      <4>2. start <= cur /\ cur < cur + 1 /\ cur % 7 \in days
        BY <1>2
      <4> QED
        BY <4>1, <4>2
    <3>2. CASE i \in 1 .. Len(dates)
      <4>1. start <= dates[i] /\ dates[i] < cur /\ dates[i] % 7 \in days
        BY <3>2 DEF DatesSoFar
      <4>2. t[i] = dates[i] /\ dates[i] \in Int /\ dates[i] < cur + 1
        BY <1>1, <2>1, <3>2, <4>1
      <4> QED
        BY <4>1, <4>2
    <3> QED
      BY <2>0, <3>1, <3>2
  <2>4. ASSUME NEW d \in Int, start <= d, d < cur + 1, d % 7 \in days
        PROVE  \E i \in 1 .. Len(t) : t[i] = d
    <3>1. CASE d = cur
      BY <1>1, <2>1, <3>1
    <3>2. CASE d < cur
      <4>1. PICK i \in 1 .. Len(dates) : dates[i] = d
        <5>1. Len(dates) # max
          BY <1>1, <1>2
        <5> QED
          BY <2>4, <3>2, <5>1 DEF DatesSoFar
      <4> QED
        BY <1>1, <2>1, <4>1
    <3> QED
      BY <2>4, <3>1, <3>2
  <2>5. Len(t) <= max
    BY <1>1, <1>2, <2>1
  <2> QED
    BY <2>1, <2>2, <2>3, <2>4, <2>5 DEF DatesSoFar
<1>3. CASE ~(Len(dates) < max /\ cur % 7 \in days)
  <2>1. NextDates(dates, cur, days, max) = dates
    BY <1>3 DEF NextDates
  <2>2. \A i \in 1 .. Len(dates) : start <= dates[i] /\ dates[i] < cur + 1 /\ dates[i] % 7 \in days
    BY <1>1 DEF DatesSoFar
  <2>3. ASSUME NEW d \in Int, start <= d, d < cur + 1, d % 7 \in days
        PROVE  \/ \E i \in 1 .. Len(dates) : dates[i] = d
               \/ Len(dates) = max /\ \A i \in 1 .. Len(dates) : dates[i] < d
    <3>1. CASE d = cur
      BY <1>1, <1>3, <2>3, <3>1 DEF DatesSoFar
    <3>2. CASE d < cur
      BY <2>3, <3>2 DEF DatesSoFar
    <3> QED
      BY <2>3, <3>1, <3>2
  <2>4. DatesSoFar(dates, start, cur + 1, days, max)
    BY <2>2, <2>3 DEF DatesSoFar
  <2> QED
    BY <2>1, <2>4
<1> QED
  BY <1>2, <1>3

\* So after every day.
LEMMA DatesAfterDays ==
    ASSUME NEW start \in Int, NEW days, NEW max \in Nat, NEW N \in Nat,
           NEW f, IsDates(f, N, start, days, max)
    PROVE  \A n \in 0 .. N : DatesSoFar(f[n], start, start + n, days, max)
<1> DEFINE Bad == {n \in 0 .. N : ~DatesSoFar(f[n], start, start + n, days, max)}
<1>1. SUFFICES ASSUME Bad # {} PROVE FALSE
  OBVIOUS
<1>2. PICK n \in Bad : \A m \in Bad : n <= m
  <2>1. Bad \in SUBSET Nat
    OBVIOUS
  <2> HIDE DEF Bad
  <2> QED
    BY <1>1, <2>1, LeastNatural
<1>3. n \in 0 .. N /\ ~DatesSoFar(f[n], start, start + n, days, max)
  BY <1>2
<1>4. CASE n = 0
  <2>1. f[0] = <<>>
    BY DEF IsDates
  <2>2. DatesSoFar(<<>>, start, start + 0, days, max)
    BY DEF DatesSoFar
  <2> QED
    BY <1>3, <1>4, <2>1, <2>2
<1>5. CASE n # 0
  <2>1. n \in 1 .. N /\ n - 1 \in 0 .. N /\ n - 1 \in Nat
    BY <1>3, <1>5
  <2>2. DatesSoFar(f[n - 1], start, start + (n - 1), days, max)
    <3>1. n - 1 \notin Bad
      BY <1>2, <2>1
    <3> QED
      BY <2>1, <3>1
  <2>3. PICK cur \in Int : cur = start + n - 1 /\ start <= cur /\ cur = start + (n - 1) /\ cur + 1 = start + n
    BY <2>1
  <2>4. f[n] = NextDates(f[n - 1], cur, days, max)
    BY <2>1, <2>3 DEF IsDates
  <2>5. DatesSoFar(NextDates(f[n - 1], cur, days, max), start, cur + 1, days, max)
    BY <2>2, <2>3, NextDatesFacts
  <2> QED
    BY <1>3, <2>3, <2>4, <2>5
<1> QED
  BY <1>4, <1>5

\* The first max of the days are as many as there are, or max.
LEMMA DatesAreCounted ==
    ASSUME NEW start \in Int, NEW end \in Int, NEW days, NEW max \in Nat,
           NEW dates, DatesSoFar(dates, start, end + 1, days, max)
    PROVE  AreTheFirst(dates, start, end, days, max)
<1> DEFINE all == {d \in start .. end : d % 7 \in days}
           chosen == {dates[i] : i \in DOMAIN dates}
           n == Len(dates)
<1>1. /\ n \in Nat /\ n <= max /\ DOMAIN dates = 1 .. n /\ dates \in Seq(Int)
      /\ \A i, j \in 1 .. n : i < j => dates[i] < dates[j]
  BY DEF DatesSoFar
<1>2. \A i \in 1 .. n : dates[i] \in all
  BY DEF DatesSoFar
<1>3. dates \in [1 .. n -> all] /\ \A i, j \in 1 .. n : dates[i] = dates[j] => i = j
  BY <1>1, <1>2
<1>4. ASSUME NEW d \in all
      PROVE  (\E i \in 1 .. n : dates[i] = d) \/ (n = max /\ \A i \in 1 .. n : dates[i] < d)
  <2>1. d \in Int /\ start <= d /\ d < end + 1 /\ d % 7 \in days
    OBVIOUS
  <2> HIDE DEF n
  <2> QED
    BY <2>1 DEF DatesSoFar, n
<1>5. IsFiniteSet(all) /\ Cardinality(all) \in Nat
  BY FS_Interval, FS_Subset, FS_CardinalityType
<1>6. n = Min({max, Cardinality(all)})
  <2> HIDE DEF all, chosen, n
  <2>1. CASE n < max
    <3>1. \A d \in all : \E i \in 1 .. n : dates[i] = d
      BY <1>1, <1>4, <2>1
    <3>2. dates \in Bijection(1 .. n, all)
      BY <1>3, <3>1, Fun_IsBij
    <3>3. Cardinality(all) = n
      BY <1>1, <3>2, Fun_ExistsBij, FS_CountingElements
    <3> QED
      BY <1>1, <1>5, <2>1, <3>3, MinOfTwo
  <2>2. CASE n = max
    <3>1. dates \in Injection(1 .. n, all)
      BY <1>3, Fun_IsInj
    <3>2. Cardinality(1 .. n) <= Cardinality(all)
      BY <1>5, <3>1, FS_Injection
    <3>3. Cardinality(1 .. n) = n
      <4>1. 1 \in Int /\ n \in Int
        BY <1>1
      <4>2. Cardinality(1 .. n) = IF 1 > n THEN 0 ELSE n - 1 + 1
        BY <4>1, FS_Interval
      <4> QED
        BY <1>1, <4>2
    <3> QED
      BY <1>1, <1>5, <2>2, <3>2, <3>3, MinOfTwo
  <2> QED
    BY <1>1, <2>1, <2>2
<1>7. chosen \subseteq all /\ \A d \in all \ chosen : \A c \in chosen : c < d
  BY <1>1, <1>2, <1>4
<1> QED
  BY <1>1, <1>6, <1>7 DEF AreTheFirst

\* compute_schedules offers the first max dates of the run that fall on a weekday of
\* the text, for every run, set of weekdays and limit.
THEOREM DatesOfEveryRun ==
    ASSUME NEW start \in Nat, NEW end \in Int, NEW days, NEW max \in Nat
    PROVE  AreTheFirst(ComputeSchedules(start, end, days, max), start, end, days, max)
<1>1. CASE start <= end
  <2>1. PICK f : /\ IsDates(f, end - start + 1, start, days, max)
                 /\ ComputeSchedules(start, end, days, max) = f[end - start + 1]
    BY <1>1, SchedulesAreDates
  <2>2. PICK N \in Nat : N = end - start + 1 /\ start + N = end + 1
    BY <1>1
  <2>3. DatesSoFar(f[N], start, start + N, days, max)
    BY <2>1, <2>2, DatesAfterDays
  <2> QED
    BY <2>1, <2>2, <2>3, DatesAreCounted
<1>2. CASE end < start
  <2>1. ComputeSchedules(start, end, days, max) = <<>>
    BY <1>2 DEF ComputeSchedules
  <2>2. DatesSoFar(<<>>, start, end + 1, days, max)
    BY <1>2 DEF DatesSoFar
  <2> QED
    BY <2>1, <2>2, DatesAreCounted
<1> QED
  BY <1>1, <1>2

\* So whatever the catalog holds, the dates offered are those the texts name: the
\* range of starts is the one the property looks at.
THEOREM SchedulesAreRight ==
    ASSUME Days \subseteq 0 .. 13
    PROVE  Spec => []SchedulesFollowTheText
<1>1. DaysFollowTheText
  <2>1. Texts \subseteq Text
    BY DEF Texts, Text
  <2> QED
    BY <2>1, DaysOfEveryText DEF DaysFollowTheText
<1>2. ASSUME NEW start \in 0 .. 13
      PROVE  DatesAreTheFirst[start]
  <2>1. ASSUME NEW days \in SUBSET Weekdays, NEW length \in 0 .. 16, NEW max \in {0, 1, 3}
        PROVE  AreTheFirst(ComputeSchedules(start, start + length - 1, days, max),
                           start, start + length - 1, days, max)
    <3>1. start \in Nat /\ start + length - 1 \in Int /\ max \in Nat
      OBVIOUS
    <3> QED
      BY <3>1, DatesOfEveryRun
  <2> QED
    BY <2>1 DEF DatesAreTheFirst
<1>3. TypeOK => SchedulesFollowTheText
  <2> SUFFICES ASSUME TypeOK, NEW r \in rows PROVE DatesAreTheFirst[r.start]
    BY <1>1 DEF SchedulesFollowTheText
  <2>1. r.start \in 0 .. 13
    BY DEF TypeOK, TableRow
  <2> QED
    BY <1>2, <2>1
<1> QED
  BY <1>3, ReadersTypeOK, PTL
=============================================================================
