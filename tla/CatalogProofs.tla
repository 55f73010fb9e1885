--------------------------- MODULE CatalogProofs ---------------------------
(***************************************************************************)
(* Proofs about Catalog, for any performances, venues, periods and sizes   *)
(* of the window, whatever fails and whenever KOPIS changes.               *)
(*                                                                         *)
(* SyncInv says that performances has its two keys, that ids lie below the *)
(* sequence, and what the job holds while it is at an item.                *)
(***************************************************************************)
EXTENDS Catalog, TLAPS

\* The keys of performances, and its sequence.
IdsInv ==
    \A r \in perfs :
        /\ r.id < nextId
        /\ \A t \in perfs : r.id = t.id \/ r.kopis_id = t.kopis_id => r = t

\* The item at hand, and the venue that is to be added; a job that has not started
\* has collected nothing.
ItemInv ==
    /\ pc = "idle" => list = {} /\ seen = {}
    /\ pc \in {"detail", "venue", "upsert"} => item \in Item
    /\ pc = "venue" => mt10id \in Venues

SyncInv == TypeOK /\ IdsInv /\ ItemInv

-----------------------------------------------------------------------------
\* The end of a window is a day.
LEMMA WindowEndIsNat ==
    ASSUME TypeOK
    PROVE  WindowEnd \in Nat
<1> DEFINE a == cur + Window - 1
           b == day + Horizon
<1>1. a \in Nat /\ b \in Nat
  BY CatalogAssumption DEF TypeOK
<1> HIDE DEF a, b
<1>2. \E x \in {a, b} : \A y \in {a, b} : x <= y
  <2>1. CASE a <= b
    BY <1>1, <2>1
  <2>2. CASE b <= a
    BY <1>1, <2>2
  <2> QED
    BY <1>1, <2>1, <2>2
<1>3. Min({a, b}) \in {a, b}
  BY <1>2 DEF Min
<1>4. WindowEnd = Min({a, b})
  BY DEF WindowEnd, a, b
<1> QED
  BY <1>1, <1>3, <1>4

\* The id an upsert gives: the one the row has, or the next one.
LEMMA IdForFacts ==
    ASSUME SyncInv, NEW p \in Perfs
    PROVE  \/ Existing(p) = {} /\ IdFor(p) = nextId
           \/ \E r \in perfs : Existing(p) = {r} /\ r.kopis_id = p /\ IdFor(p) = r.id
<1>1. CASE Existing(p) = {}
  BY <1>1 DEF IdFor
<1>2. CASE Existing(p) # {}
  <2>1. PICK r \in Existing(p) : r = CHOOSE t \in Existing(p) : TRUE
    BY <1>2
  <2>2. r \in perfs /\ r.kopis_id = p
    BY DEF Existing
  <2>3. Existing(p) = {r}
    BY <2>2 DEF Existing, SyncInv, IdsInv
  <2>4. IdFor(p) = r.id
    BY <1>2, <2>1 DEF IdFor
  <2> QED
    BY <2>2, <2>3, <2>4
<1> QED
  BY <1>1, <1>2

\* The row an upsert writes.
LEMMA NewRowFacts ==
    ASSUME SyncInv, pc = "upsert"
    PROVE  /\ item.kopis_id \in Perfs /\ item.run \in Runs
           /\ NewRow \in Row
           /\ NewRow.kopis_id = item.kopis_id /\ NewRow.id = IdFor(item.kopis_id)
           /\ NewRow.run = item.run /\ NewRow.venue \in Venues \cup {Null}
<1>1. item.kopis_id \in Perfs /\ item.run \in Runs
  BY DEF SyncInv, ItemInv, Item
<1>2. IdFor(item.kopis_id) \in Nat
  BY <1>1, IdForFacts DEF SyncInv, TypeOK, Row
<1>3. (IF mt10id \in map THEN mt10id ELSE Null) \in venues \cup {Null}
  BY DEF SyncInv, TypeOK
<1>4. NewRow \in Row
  BY <1>1, <1>2, <1>3 DEF NewRow, Row
<1> QED
  BY <1>1, <1>3, <1>4 DEF NewRow, SyncInv, TypeOK

\* What an upsert leaves: the other rows, and one for the item.
LEMMA UpsertFacts ==
    ASSUME SyncInv, Upsert
    PROVE  /\ pc = "upsert" /\ perfs' = {r \in perfs : r.kopis_id # item.kopis_id} \cup {NewRow}
           /\ \/ /\ \A r \in perfs : r.kopis_id # item.kopis_id
                 /\ NewRow.id = nextId /\ nextId' = nextId + 1
              \/ \E o \in perfs : o.kopis_id = item.kopis_id /\ NewRow.id = o.id /\ nextId' = nextId
<1>1. pc = "upsert" /\ perfs' = {r \in perfs : r.kopis_id # item.kopis_id} \cup {NewRow}
  BY DEF Upsert, Existing
<1>2. item.kopis_id \in Perfs /\ NewRow.id = IdFor(item.kopis_id)
  BY <1>1, NewRowFacts
<1>3. CASE Existing(item.kopis_id) = {}
  BY <1>1, <1>2, <1>3, IdForFacts DEF Upsert, Existing
<1>4. CASE Existing(item.kopis_id) # {}
  BY <1>1, <1>2, <1>4, IdForFacts DEF Upsert
<1> QED
  BY <1>1, <1>3, <1>4

-----------------------------------------------------------------------------
(* SyncInv is inductive.                                                   *)

\* An upsert gives the row its own id, or one nobody has.
LEMMA UpsertKeepsIds == SyncInv /\ Upsert => IdsInv'
<1> SUFFICES ASSUME SyncInv, Upsert PROVE IdsInv'
  OBVIOUS
<1>1. NewRow.kopis_id = item.kopis_id /\ NewRow \in Row /\ nextId \in Nat /\ \A r \in perfs : r.id \in Nat
  BY UpsertFacts, NewRowFacts DEF SyncInv, TypeOK, Row
<1>2. nextId' \in Nat /\ nextId <= nextId' /\ NewRow.id < nextId'
  BY <1>1, UpsertFacts DEF SyncInv, IdsInv
<1>3. ASSUME NEW r \in perfs, r.kopis_id # item.kopis_id
      PROVE  r.id # NewRow.id
  BY <1>1, <1>3, UpsertFacts DEF SyncInv, IdsInv
<1>4. \A r \in perfs' : r = NewRow \/ (r \in perfs /\ r.kopis_id # item.kopis_id)
  BY UpsertFacts
<1>5. ASSUME NEW r \in perfs'
      PROVE  r.id < nextId'
  BY <1>1, <1>2, <1>4 DEF SyncInv, IdsInv
<1>6. ASSUME NEW r \in perfs', NEW t \in perfs', r.id = t.id \/ r.kopis_id = t.kopis_id
      PROVE  r = t
  <2>1. CASE r = NewRow \/ t = NewRow
    BY <1>1, <1>3, <1>4, <1>6, <2>1
  <2>2. CASE r # NewRow /\ t # NewRow
    BY <1>4, <1>6, <2>2 DEF SyncInv, IdsInv
  <2> QED
    BY <2>1, <2>2
<1> QED
  BY <1>5, <1>6 DEF IdsInv

\* Every step of KOPIS, of the calendar and of both jobs keeps SyncInv.
LEMMA SyncStep == SyncInv /\ [Next]_vars => SyncInv'
<1> SUFFICES ASSUME SyncInv, [Next]_vars PROVE SyncInv'
  OBVIOUS
<1> USE DEF jobVars, world, vars
<1>1. ASSUME NEW p \in Perfs, KopisChanges(p) PROVE SyncInv'
  BY <1>1 DEF SyncInv, TypeOK, IdsInv, ItemInv, KopisChanges, Row
<1>2. CASE DayPasses
  <2>1. day' \in 1 .. LastDay
    BY <1>2, CatalogAssumption DEF DayPasses, SyncInv, TypeOK
  <2>2. trusted' = FALSE /\ UNCHANGED <<kopis, perfs, nextId, venues, pc, cur, list, seen, map, item, mt10id>>
    BY <1>2 DEF DayPasses
  <2> QED
    BY <2>1, <2>2 DEF SyncInv, TypeOK, IdsInv, ItemInv, Row
<1>3. CASE StartJob
  BY <1>3 DEF SyncInv, TypeOK, IdsInv, ItemInv, StartJob, Steps, Row
<1>4. CASE FetchWindow
  <2>1. PICK got \in SUBSET Playing(cur, WindowEnd) :
          list' = list \cup Items(got \ seen) /\ seen' = seen \cup got
          /\ trusted' = (trusted /\ got = Playing(cur, WindowEnd))
    BY <1>4 DEF FetchWindow
  <2>2. got \subseteq Perfs /\ \A p \in got : kopis[p] \in Runs
    BY CatalogAssumption DEF Playing, SyncInv, TypeOK
  <2>3. list' \subseteq Item
    BY <2>1, <2>2 DEF Items, Item, SyncInv, TypeOK
  <2>4. cur' \in Nat
    BY <1>4, WindowEndIsNat DEF FetchWindow, NextWindow, SyncInv
  <2>5. seen' \subseteq Perfs /\ trusted' \in BOOLEAN
    BY <2>1, <2>2 DEF SyncInv, TypeOK
  <2>6. UNCHANGED <<perfs, nextId, venues, pc, map, item, mt10id, kopis, day>>
    BY <1>4 DEF FetchWindow
  <2>7. TypeOK'
    BY <2>3, <2>4, <2>5, <2>6 DEF SyncInv, TypeOK, Row
  <2>8. IdsInv' /\ ItemInv'
    BY <1>4, <2>6 DEF FetchWindow, SyncInv, IdsInv, ItemInv
  <2> QED
    BY <2>7, <2>8 DEF SyncInv
<1>5. CASE ListIsFetched
  BY <1>5 DEF SyncInv, TypeOK, IdsInv, ItemInv, ListIsFetched, Steps, Row
<1>6. CASE LoadVenues
  BY <1>6 DEF SyncInv, TypeOK, IdsInv, ItemInv, LoadVenues, Steps, Row
<1>7. CASE NextItem
  BY <1>7 DEF SyncInv, TypeOK, IdsInv, ItemInv, NextItem, Steps, Row
<1>8. CASE FetchDetail
  <2>1. VenueOf[item.kopis_id] \in Venues
    BY <1>8, CatalogAssumption DEF FetchDetail, SyncInv, ItemInv, Item
  <2> QED
    BY <1>8, <2>1 DEF SyncInv, TypeOK, IdsInv, ItemInv, FetchDetail, Steps, Row
<1>9. CASE DetailFails
  BY <1>9 DEF SyncInv, TypeOK, IdsInv, ItemInv, DetailFails, Steps, Row
<1>10. CASE AddVenue
  <2>1. mt10id \in Venues /\ venues' = venues \cup {mt10id} /\ map' = map \cup {mt10id} /\ pc' = "upsert"
        /\ UNCHANGED <<perfs, nextId, cur, list, seen, item, mt10id, trusted, kopis, day>>
    BY <1>10 DEF AddVenue, SyncInv, ItemInv
  <2>2. perfs' \subseteq Row'
    BY <2>1 DEF SyncInv, TypeOK, Row
  <2>3. item \in Item
    BY <1>10 DEF AddVenue, SyncInv, ItemInv
  <2> QED
    BY <2>1, <2>2, <2>3 DEF SyncInv, TypeOK, IdsInv, ItemInv, Steps
<1>11. CASE VenueFails
  BY <1>11 DEF SyncInv, TypeOK, IdsInv, ItemInv, VenueFails, Steps, Row
<1>12. CASE Upsert
  <2>1. UNCHANGED <<venues, cur, list, seen, map, trusted, kopis, day>>
        /\ pc' = "next" /\ item' = Null /\ mt10id' = Null
    BY <1>12 DEF Upsert, NextTurn
  <2>2. perfs' \subseteq Row'
    BY <1>12, <2>1, UpsertFacts, NewRowFacts DEF SyncInv, TypeOK, Row
  <2>3. nextId' \in Nat
    BY <1>12, UpsertFacts DEF SyncInv, TypeOK
  <2>4. TypeOK'
    BY <2>1, <2>2, <2>3 DEF SyncInv, TypeOK, Steps
  <2> QED
    BY <1>12, <2>1, <2>4, UpsertKeepsIds DEF SyncInv, ItemInv
<1>13. CASE UpsertFails
  BY <1>13 DEF SyncInv, TypeOK, IdsInv, ItemInv, UpsertFails, NextTurn, Steps, Row
<1>14. CASE JobDone \/ JobDies
  <2>1. /\ pc' = "idle" /\ cur' = 1 /\ list' = {} /\ seen' = {} /\ map' = {}
        /\ item' = Null /\ mt10id' = Null
        /\ UNCHANGED <<perfs, nextId, venues, kopis, day>>
    BY <1>14 DEF JobDone, JobDies, JobEnded
  <2>2. trusted' \in BOOLEAN
    BY <1>14 DEF JobDone, JobDies, SyncInv, TypeOK
  <2>3. TypeOK'
    BY <2>1, <2>2 DEF SyncInv, TypeOK, Steps, Row
  <2> QED
    BY <2>1, <2>3 DEF SyncInv, IdsInv, ItemInv
<1>15. CASE DeleteOver
  BY <1>15 DEF SyncInv, TypeOK, IdsInv, ItemInv, DeleteOver, Row
<1>16. CASE UNCHANGED vars
  BY <1>16 DEF SyncInv, TypeOK, IdsInv, ItemInv, Row
<1> QED
  BY <1>1, <1>2, <1>3, <1>4, <1>5, <1>6, <1>7, <1>8, <1>9, <1>10, <1>11, <1>12, <1>13, <1>14,
     <1>15, <1>16 DEF Next, UpdateStep, UpdateFault

\* An empty catalog and no job.
LEMMA SyncInit == Init => SyncInv
<1> SUFFICES ASSUME Init PROVE SyncInv
  OBVIOUS
<1>1. day \in 1 .. LastDay
  BY CatalogAssumption DEF Init
<1>2. TypeOK
  BY <1>1 DEF Init, TypeOK, Steps
<1> QED
  BY <1>2 DEF Init, SyncInv, IdsInv, ItemInv

\* The inductive invariant holds of every behaviour.
LEMMA SyncInvHolds == Spec => []SyncInv
  BY SyncInit, SyncStep, PTL DEF Spec

-----------------------------------------------------------------------------
(* What follows                                                            *)

\* Type correctness; in it, no performance is linked to a venue that is not there.
THEOREM CatalogTypeCorrect == Spec => []TypeOK
<1>1. SyncInv => TypeOK
  BY DEF SyncInv
<1> QED
  BY <1>1, SyncInvHolds, PTL

\* The table changes by an upsert or by a deletion.
LEMMA PerfsStep ==
    ASSUME [Next]_vars
    PROVE  Upsert \/ DeleteOver \/ UNCHANGED <<perfs, nextId>>
  BY DEF Next, vars, UpdateStep, UpdateFault, KopisChanges, DayPasses, StartJob, FetchWindow,
         ListIsFetched, LoadVenues, NextItem, FetchDetail, DetailFails, AddVenue, VenueFails,
         UpsertFails, JobDone, JobDies

\* A performance keeps its id while it is in the catalog, and an id is never given
\* to another one, whatever fails and whenever jobs die.
THEOREM IdsStay == Spec => IdsArePermanent
<1>1. ASSUME SyncInv, [Next]_vars, NEW r \in perfs'
      PROVE  /\ \A q \in perfs : q.id = r.id <=> q.kopis_id = r.kopis_id
             /\ r.id \in {q.id : q \in perfs} \/ r.id >= nextId
  <2>1. CASE r \in perfs
    BY <1>1, <2>1 DEF SyncInv, IdsInv
  <2>2. CASE Upsert /\ r = NewRow
    <3>1. NewRow.kopis_id = item.kopis_id /\ nextId \in Nat /\ \A q \in perfs : q.id \in Nat
      BY <1>1, <2>2, UpsertFacts, NewRowFacts DEF SyncInv, TypeOK, Row
    <3>2. CASE (\A q \in perfs : q.kopis_id # item.kopis_id) /\ NewRow.id = nextId
      BY <1>1, <2>2, <3>1, <3>2 DEF SyncInv, IdsInv
    <3>3. CASE \E o \in perfs : o.kopis_id = item.kopis_id /\ NewRow.id = o.id
      BY <1>1, <2>2, <3>1, <3>3 DEF SyncInv, IdsInv
    <3> QED
      BY <1>1, <2>2, <3>2, <3>3, UpsertFacts
  <2>3. r \in perfs \/ (Upsert /\ r = NewRow)
    BY <1>1, PerfsStep, UpsertFacts DEF DeleteOver
  <2> QED
    BY <2>1, <2>2, <2>3
<1>2. SyncInv /\ [Next]_vars => [\A r \in perfs' :
        /\ \A q \in perfs : q.id = r.id <=> q.kopis_id = r.kopis_id
        /\ r.id \in {q.id : q \in perfs} \/ r.id >= nextId]_vars
  BY <1>1
<1> QED
  BY <1>2, SyncInvHolds, PTL DEF Spec, IdsArePermanent

-----------------------------------------------------------------------------
(* The refinement                                                          *)

\* How a row appears to the readers.
Shown(r) == [kopis_id |-> r.kopis_id, id |-> r.id, venue |-> r.venue, start |-> r.run.start]

\* The rows as the readers see them.
ShownRows == {Shown(r) : r \in perfs}

\* An upsert is a Put of the item's performance.
LEMMA UpsertPuts ==
    ASSUME SyncInv, Upsert
    PROVE  \E p \in Perfs, v \in Venues \cup {Null}, d \in {r.start : r \in Runs} : Table!Put(p, v, d)
<1>1. PICK p \in Perfs, v \in Venues \cup {Null}, d \in {r.start : r \in Runs} :
        /\ p = item.kopis_id /\ v = NewRow.venue /\ d = item.run.start
        /\ NewRow.kopis_id = p /\ NewRow.run = item.run
  BY UpsertFacts, NewRowFacts
<1>2. perfs' = {r \in perfs : r.kopis_id # p} \cup {NewRow}
  BY <1>1, UpsertFacts
<1>3. ShownRows' = {t \in ShownRows : t.kopis_id # p}
                     \cup {[kopis_id |-> p, id |-> NewRow.id, venue |-> v, start |-> d]}
  BY <1>1, <1>2 DEF ShownRows, Shown
<1>4. \/ /\ \A t \in ShownRows : t.kopis_id # p
         /\ NewRow.id = nextId /\ nextId' = nextId + 1
      \/ /\ \E t \in ShownRows : t.kopis_id = p
         /\ \A t \in ShownRows : t.kopis_id = p => t.id = NewRow.id
         /\ nextId' = nextId
  <2>1. CASE (\A r \in perfs : r.kopis_id # p) /\ NewRow.id = nextId /\ nextId' = nextId + 1
    BY <2>1 DEF ShownRows, Shown
  <2>2. ASSUME NEW o \in perfs, o.kopis_id = p, NewRow.id = o.id, nextId' = nextId
        PROVE  /\ \E t \in ShownRows : t.kopis_id = p
               /\ \A t \in ShownRows : t.kopis_id = p => t.id = NewRow.id
    <3>1. Shown(o) \in ShownRows /\ Shown(o).kopis_id = p
      BY <2>2 DEF ShownRows, Shown
    <3>2. ASSUME NEW t \in ShownRows, t.kopis_id = p
          PROVE  t.id = NewRow.id
      <4>1. PICK r \in perfs : t = Shown(r)
        BY DEF ShownRows
      <4>2. r.kopis_id = p /\ t.id = r.id
        BY <3>2, <4>1 DEF Shown
      <4>3. r = o
        BY <2>2, <4>2 DEF SyncInv, IdsInv
      <4> QED
        BY <2>2, <4>2, <4>3
    <3> QED
      BY <3>1, <3>2
  <2> QED
    BY <1>1, <2>1, <2>2, UpsertFacts
<1>5. Table!IdFor(p) = NewRow.id
  BY <1>4 DEF Table!IdFor, ShownRows, Shown
<1>6. Table!Put(p, v, d)
  BY <1>3, <1>4, <1>5 DEF Table!Put, ShownRows, Shown
<1> QED
  BY <1>6

\* The deletion of what is over removes the same rows from the readers' sight.
LEMMA DeletionRemoves ==
    ASSUME SyncInv, DeleteOver
    PROVE  \E gone \in SUBSET ShownRows : Table!RemoveRows(gone)
<1>0. PICK gone : gone = {Shown(r) : r \in Over}
  OBVIOUS
<1>1. Over \subseteq perfs /\ Over # {} /\ perfs' = perfs \ Over /\ nextId' = nextId
  BY DEF DeleteOver, Over
<1>2. gone \in SUBSET ShownRows /\ gone # {}
  BY <1>0, <1>1 DEF ShownRows
<1>3. ASSUME NEW r \in perfs, NEW t \in perfs, Shown(r) = Shown(t)
      PROVE  r = t
  BY <1>3 DEF Shown, SyncInv, IdsInv
<1>4. ShownRows' = ShownRows \ gone
  BY <1>0, <1>1, <1>3 DEF ShownRows, Shown
<1>5. Table!RemoveRows(gone)
  BY <1>1, <1>2, <1>4 DEF Table!RemoveRows, ShownRows, Shown
<1> QED
  BY <1>2, <1>5

\* The catalog changes as its readers are told: every behaviour of the two jobs is
\* one of CatalogTable.
THEOREM CatalogImplementsTable == Spec => TableImplemented
<1>1. Init => Table!TableInit
  BY DEF Init, Table!TableInit
<1>2. ASSUME SyncInv, [Next]_vars
      PROVE  Table!TableNext \/ UNCHANGED Table!tableVars
  <2>1. CASE Upsert
    BY <1>2, <2>1, UpsertPuts DEF Table!TableNext
  <2>2. CASE DeleteOver
    BY <1>2, <2>2, DeletionRemoves DEF Table!TableNext, ShownRows, Shown
  <2>3. CASE UNCHANGED <<perfs, nextId>>
    BY <2>3 DEF Table!tableVars
  <2> QED
    BY <1>2, <2>1, <2>2, <2>3, PerfsStep
<1>3. SyncInv /\ [Next]_vars => [Table!TableNext]_(Table!tableVars)
  BY <1>2
<1> QED
  BY <1>1, <1>3, SyncInvHolds, PTL DEF Spec, TableImplemented, Table!TableSpec
-----------------------------------------------------------------------------
(* A run without a failure sets the catalog right.                         *)

\* The row of p says what KOPIS says.
Right(p) ==
    \E r \in perfs : r.kopis_id = p /\ r.run = kopis[p] /\ r.details /\ r.venue = VenueOf[p]

\* i is what KOPIS publishes at present.
Current(i) == i.run = kopis[i.kopis_id]

\* p is waiting for its turn.
Listed(p) == \E i \in list : i.kopis_id = p

Due == Playing(day, day + Horizon)

\* Before the loop: the windows already fetched have listed what plays in them.
ListRepairInv ==
    /\ pc = "list" => /\ day <= cur
                      /\ day < cur => \A p \in Playing(day, cur - 1) : p \in seen
                      /\ \A p \in seen : Listed(p)
    /\ pc = "connect" => \A p \in Due : Listed(p)

\* In the loop, and after it: what is due is right, or still to come.
LoopRepairInv ==
    /\ pc = "next" => \A p \in Due : Right(p) \/ Listed(p)
    /\ pc \in {"detail", "venue", "upsert"} =>
         /\ Current(item)
         /\ \A p \in Due : Right(p) \/ Listed(p) \/ p = item.kopis_id
    /\ pc \in {"venue", "upsert"} => mt10id = VenueOf[item.kopis_id]
    /\ pc = "upsert" => mt10id \in map
    /\ pc = "idle" => \A p \in Due : Right(p)

RepairInv ==
    trusted => (\A i \in list : Current(i)) /\ ListRepairInv /\ LoopRepairInv

\* The end of a window, as a number.
LEMMA WindowEndFacts ==
    ASSUME TypeOK, cur <= day + Horizon
    PROVE  /\ WindowEnd \in Nat /\ cur <= WindowEnd /\ WindowEnd <= day + Horizon
           /\ cur \in Nat /\ day \in Nat /\ Horizon \in Nat
<1> DEFINE a == cur + Window - 1
           b == day + Horizon
<1>1. a \in Nat /\ b \in Nat /\ cur <= a /\ cur <= b /\ cur \in Nat /\ day \in Nat /\ Horizon \in Nat
  BY CatalogAssumption DEF TypeOK
<1> HIDE DEF a, b
<1>2. \E x \in {a, b} : \A y \in {a, b} : x <= y
  <2>1. CASE a <= b
    BY <1>1, <2>1
  <2>2. CASE b <= a
    BY <1>1, <2>2
  <2> QED
    BY <1>1, <2>1, <2>2
<1>3. Min({a, b}) \in {a, b} /\ \A y \in {a, b} : Min({a, b}) <= y
  BY <1>2 DEF Min
<1>4. WindowEnd = Min({a, b}) /\ day + Horizon = b
  BY DEF WindowEnd, a, b
<1> QED
  BY <1>1, <1>3, <1>4

\* What plays in the days up to a window's end plays before the window or in it:
\* no run ends before it starts.
LEMMA PlayingSplits ==
    ASSUME TypeOK, \A r \in Runs : r.start <= r.end,
           NEW c \in Nat, NEW e \in Nat, NEW p \in Playing(day, e)
    PROVE  p \in Playing(day, c - 1) \cup Playing(c, e)
<1>1. p \in Perfs /\ kopis[p] \in Runs /\ kopis[p].start <= e /\ kopis[p].end >= day
  BY DEF Playing, TypeOK
<1>2. kopis[p].start \in Nat /\ kopis[p].end \in Nat /\ kopis[p].start <= kopis[p].end /\ kopis[p] # Null
  BY <1>1, CatalogAssumption DEF Playing
<1>3. kopis[p].end >= c \/ kopis[p].start <= c - 1
  BY <1>2
<1> QED
  BY <1>1, <1>2, <1>3 DEF Playing

\* A window fetched whole leaves nothing out of the days up to its end.
LEMMA FetchKeepsRepair ==
    ASSUME SyncInv, RepairInv, \A r \in Runs : r.start <= r.end, FetchWindow
    PROVE  RepairInv'
<1> SUFFICES ASSUME trusted' PROVE RepairInv'
  BY DEF RepairInv
<1>1. PICK got \in SUBSET Playing(cur, WindowEnd) :
        list' = list \cup Items(got \ seen) /\ seen' = seen \cup got
        /\ trusted' = (trusted /\ got = Playing(cur, WindowEnd))
  BY DEF FetchWindow
<1>2. trusted /\ got = Playing(cur, WindowEnd)
  BY <1>1
<1>3. /\ pc = "list" /\ pc' = "list" /\ cur <= day + Horizon /\ cur' = WindowEnd + 1
      /\ UNCHANGED <<kopis, day>>
  BY DEF FetchWindow, NextWindow, world
<1>4. /\ WindowEnd \in Nat /\ cur <= WindowEnd /\ cur \in Nat /\ day \in Nat
  BY <1>3, WindowEndFacts DEF SyncInv
<1>5. /\ \A i \in list : Current(i)
      /\ day <= cur /\ (day < cur => \A p \in Playing(day, cur - 1) : p \in seen)
      /\ \A p \in seen : Listed(p)
  BY <1>2, <1>3 DEF RepairInv, ListRepairInv
<1>6. \A i \in list' : Current(i)'
  BY <1>1, <1>3, <1>5 DEF Current, Items
<1>7. day' <= cur'
  BY <1>3, <1>4, <1>5
<1>8. cur' - 1 = WindowEnd
  BY <1>3, <1>4
<1>9. ASSUME NEW p \in Playing(day, WindowEnd)
      PROVE  p \in seen'
  <2>1. CASE day = cur
    BY <1>1, <1>2, <1>9, <2>1
  <2>2. CASE day < cur
    <3>1. p \in Playing(day, cur - 1) \cup Playing(cur, WindowEnd)
      BY <1>4, PlayingSplits DEF SyncInv
    <3> QED
      BY <1>1, <1>2, <1>5, <2>2, <3>1
  <2> QED
    BY <1>4, <1>5, <2>1, <2>2
<1>10. \A p \in Playing(day, cur - 1)' : p \in seen'
  <2>1. Playing(day, cur - 1)' = Playing(day, WindowEnd)
    BY <1>3, <1>8 DEF Playing
  <2> QED
    BY <1>9, <2>1
<1>11. ASSUME NEW p \in seen'
       PROVE  Listed(p)'
  <2>1. CASE p \in seen
    BY <1>1, <1>5, <2>1 DEF Listed
  <2>2. CASE p \in got \ seen
    <3>1. [kopis_id |-> p, run |-> kopis[p]] \in list'
      BY <1>1, <2>2 DEF Items
    <3> QED
      BY <3>1 DEF Listed
  <2> QED
    BY <1>1, <2>1, <2>2
<1> QED
  BY <1>3, <1>6, <1>7, <1>10, <1>11 DEF RepairInv, ListRepairInv, LoopRepairInv

\* An upsert sets the item's row right, and leaves the other rows alone.
LEMMA UpsertKeepsRepair ==
    ASSUME SyncInv, RepairInv, Upsert
    PROVE  RepairInv'
<1> SUFFICES ASSUME trusted' PROVE RepairInv'
  BY DEF RepairInv
<1>1. /\ trusted /\ pc = "upsert" /\ pc' = "next"
      /\ UNCHANGED <<kopis, day, list, map>>
  BY DEF Upsert, NextTurn, world
<1>2. /\ \A i \in list : Current(i)
      /\ Current(item) /\ mt10id = VenueOf[item.kopis_id] /\ mt10id \in map
      /\ \A p \in Due : Right(p) \/ Listed(p) \/ p = item.kopis_id
  BY <1>1 DEF RepairInv, LoopRepairInv
<1>3. perfs' = {r \in perfs : r.kopis_id # item.kopis_id} \cup {NewRow}
  BY UpsertFacts
<1>4. mt10id # Null
  BY <1>2, CatalogAssumption DEF SyncInv, TypeOK
<1>5. /\ NewRow.kopis_id = item.kopis_id /\ NewRow.run = kopis[item.kopis_id]
      /\ NewRow.details /\ NewRow.venue = VenueOf[item.kopis_id]
  BY <1>2, <1>4 DEF NewRow, Current
<1>6. ASSUME NEW p \in Due
      PROVE  Right(p)' \/ Listed(p)'
  <2>1. CASE p = item.kopis_id
    <3>1. NewRow \in perfs'
      BY <1>3
    <3> QED
      BY <1>1, <1>5, <2>1, <3>1 DEF Right
  <2>2. CASE p # item.kopis_id /\ Right(p)
    BY <1>1, <1>3, <2>2 DEF Right
  <2>3. CASE Listed(p)
    BY <1>1, <2>3 DEF Listed
  <2> QED
    BY <1>2, <2>1, <2>2, <2>3
<1>7. Due' = Due /\ \A i \in list' : Current(i)'
  BY <1>1, <1>2 DEF Due, Playing, Current
<1> QED
  BY <1>1, <1>6, <1>7 DEF RepairInv, ListRepairInv, LoopRepairInv

\* What is over is nothing that is due.
LEMMA DeleteKeepsRepair ==
    ASSUME SyncInv, RepairInv, DeleteOver
    PROVE  RepairInv'
<1> SUFFICES ASSUME trusted' PROVE RepairInv'
  BY DEF RepairInv
<1>1. /\ trusted /\ perfs' = perfs \ Over
      /\ UNCHANGED <<kopis, day, pc, cur, list, seen, map, item, mt10id>>
  BY DEF DeleteOver, jobVars, world
<1>2. ASSUME NEW p \in Due, Right(p)
      PROVE  Right(p)'
  <2>1. PICK r \in perfs : r.kopis_id = p /\ r.run = kopis[p] /\ r.details /\ r.venue = VenueOf[p]
    BY <1>2 DEF Right
  <2>2. kopis[p] \in Runs /\ kopis[p].end >= day
    BY DEF Due, Playing, SyncInv, TypeOK
  <2>3. kopis[p].end \in Nat /\ day \in Nat
    BY <2>2, CatalogAssumption DEF SyncInv, TypeOK
  <2>4. r \notin Over
    BY <2>1, <2>2, <2>3 DEF Over
  <2> QED
    BY <1>1, <2>1, <2>4 DEF Right
<1>3. /\ Due' = Due /\ \A p : Listed(p)' <=> Listed(p)
      /\ \A i \in list : Current(i)' <=> Current(i)
      /\ Current(item)' <=> Current(item)
  BY <1>1 DEF Due, Playing, Listed, Current
<1>4. ListRepairInv'
  <2>1. ListRepairInv
    BY <1>1 DEF RepairInv
  <2>2. Playing(day, cur - 1)' = Playing(day, cur - 1)
    BY <1>1 DEF Playing
  <2> QED
    BY <1>1, <1>3, <2>1, <2>2 DEF ListRepairInv
<1>5. LoopRepairInv'
  BY <1>1, <1>2, <1>3 DEF RepairInv, LoopRepairInv
<1> QED
  BY <1>1, <1>3, <1>4, <1>5 DEF RepairInv
\* Every step of KOPIS, of the calendar and of both jobs keeps RepairInv.
LEMMA RepairStep ==
    ASSUME SyncInv, RepairInv, \A r \in Runs : r.start <= r.end, [Next]_vars
    PROVE  RepairInv'
<1> USE DEF jobVars, world, vars
<1>1. CASE ~trusted'
  BY <1>1 DEF RepairInv
<1>2. CASE FetchWindow
  BY <1>2, FetchKeepsRepair
<1>3. CASE Upsert
  BY <1>3, UpsertKeepsRepair
<1>4. CASE DeleteOver
  BY <1>4, DeleteKeepsRepair
<1>5. CASE StartJob
  <2>1. pc' = "list" /\ cur' = day /\ UNCHANGED <<list, seen, kopis, day>> /\ pc = "idle"
    BY <1>5 DEF StartJob
  <2>2. list = {} /\ seen = {}
    BY <2>1 DEF SyncInv, ItemInv
  <2>3. day \in Nat
    BY DEF SyncInv, TypeOK
  <2> QED
    BY <2>1, <2>2, <2>3 DEF RepairInv, ListRepairInv, LoopRepairInv
<1>6. CASE ListIsFetched
  <2>1. /\ pc = "list" /\ cur > day + Horizon /\ pc' = "connect" /\ UNCHANGED <<perfs, list, kopis, day, trusted>>
    BY <1>6 DEF ListIsFetched
  <2>2. day + Horizon \in Nat /\ cur \in Nat /\ day + Horizon <= cur - 1 /\ day < cur
    BY <2>1, CatalogAssumption DEF SyncInv, TypeOK
  <2>3. Due \subseteq Playing(day, cur - 1)
    <3>1. ASSUME NEW p \in Perfs, kopis[p] # Null, kopis[p].start <= day + Horizon
          PROVE  kopis[p].start <= cur - 1
      <4>1. kopis[p] \in Runs
        BY <3>1 DEF SyncInv, TypeOK
      <4>2. kopis[p].start \in Nat
        BY <4>1, CatalogAssumption
      <4> QED
        BY <2>2, <3>1, <4>2
    <3> QED
      BY <3>1 DEF Due, Playing
  <2>4. trusted => \A p \in Due : Listed(p)
    BY <2>1, <2>2, <2>3 DEF RepairInv, ListRepairInv
  <2>5. Due' = Due /\ \A p : Listed(p)' <=> Listed(p)
    BY <2>1 DEF Due, Playing, Listed
  <2> QED
    BY <2>1, <2>4, <2>5 DEF RepairInv, ListRepairInv, LoopRepairInv, Current
<1>7. CASE LoadVenues
  BY <1>7 DEF LoadVenues, RepairInv, ListRepairInv, LoopRepairInv, Due, Playing, Listed, Current
<1>8. CASE NextItem
  <2>1. PICK i \in list : item' = i /\ list' = list \ {i}
    BY <1>8 DEF NextItem
  <2>2. pc = "next" /\ pc' = "detail" /\ UNCHANGED <<perfs, kopis, day, trusted>>
    BY <1>8 DEF NextItem
  <2>3. \A p : Listed(p) => Listed(p)' \/ p = item'.kopis_id
    BY <2>1 DEF Listed
  <2>4. Due' = Due /\ \A p : Right(p)' <=> Right(p)
    BY <2>2 DEF Due, Playing, Right
  <2> QED
    BY <2>1, <2>2, <2>3, <2>4 DEF RepairInv, ListRepairInv, LoopRepairInv, Current
<1>9. CASE FetchDetail
  BY <1>9 DEF FetchDetail, RepairInv, ListRepairInv, LoopRepairInv, Due, Playing, Listed, Current, Right
<1>10. CASE AddVenue
  BY <1>10 DEF AddVenue, RepairInv, ListRepairInv, LoopRepairInv, Due, Playing, Listed, Current, Right
<1>11. CASE JobDone
  BY <1>11 DEF JobDone, JobEnded, RepairInv, ListRepairInv, LoopRepairInv, Due, Playing, Listed, Current, Right
<1>12. CASE UNCHANGED vars
  BY <1>12 DEF RepairInv, ListRepairInv, LoopRepairInv, Due, Playing, Listed, Current, Right
<1> QED
  BY <1>1, <1>2, <1>3, <1>4, <1>5, <1>6, <1>7, <1>8, <1>9, <1>10, <1>11, <1>12
     DEF Next, UpdateStep, UpdateFault, KopisChanges, DayPasses, DetailFails, VenueFails, UpsertFails, JobDies

\* A run in which no step fails and nothing changes meanwhile puts everything that
\* is due into the catalog as KOPIS has it, whatever was there before, for any
\* horizon and any window.  Without the hypothesis the code does lose a run that
\* KOPIS would date backwards: its two days may lie in two windows, and neither
\* window lists it.
THEOREM SyncIsRepair ==
    ASSUME \A r \in Runs : r.start <= r.end
    PROVE  Spec => []SyncRepairs
<1>1. Init => RepairInv
  BY DEF Init, RepairInv
<1>2. SyncInv /\ RepairInv /\ [Next]_vars => RepairInv'
  BY RepairStep
<1>3. RepairInv => SyncRepairs
  BY DEF RepairInv, LoopRepairInv, SyncRepairs, Due, Right
<1> QED
  BY <1>1, <1>2, <1>3, SyncInvHolds, PTL DEF Spec
=============================================================================
