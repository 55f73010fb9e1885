---------------------------- MODULE CatalogTable ----------------------------
(***************************************************************************)
(* What the readers of event_db may rely on: how the table performances    *)
(* changes while the daily jobs run.  Rows are put by their kopis_id, which *)
(* is UNIQUE, and removed; a new row gets a new serial id, a row that is   *)
(* there keeps its own.                                                    *)
(***************************************************************************)
EXTENDS Naturals

CONSTANTS Perfs, Venues, Days, Null

ASSUME TableAssumption == Days \subseteq Nat /\ Null \notin Venues

VARIABLES rows, nextId

tableVars == <<rows, nextId>>

\* venue: the row of venues it refers to, or Null; unlinked rows are hidden.
TableRow == [kopis_id : Perfs, id : Nat, venue : Venues \cup {Null}, start : Days]

TableInit == rows = {} /\ nextId = 1

\* Mutant: serial ids that start over from the rows that are left.
IdForReused(p) ==
    IF \E r \in rows : r.kopis_id = p
    THEN (CHOOSE r \in rows : r.kopis_id = p).id
    ELSE CHOOSE n \in 1 .. nextId : \A r \in rows : r.id # n

IdFor(p) == IF \E r \in rows : r.kopis_id = p
            THEN (CHOOSE r \in rows : r.kopis_id = p).id
            ELSE nextId

Put(p, v, s) ==
    /\ rows' = {r \in rows : r.kopis_id # p}
                 \cup {[kopis_id |-> p, id |-> IdFor(p), venue |-> v, start |-> s]}
    /\ nextId' = IF \E r \in rows : r.kopis_id = p THEN nextId ELSE nextId + 1

RemoveRows(gone) ==
    /\ gone # {}
    /\ rows' = rows \ gone
    /\ UNCHANGED nextId

TableNext ==
    \/ \E p \in Perfs, v \in Venues \cup {Null}, s \in Days : Put(p, v, s)
    \/ \E gone \in SUBSET rows : RemoveRows(gone)

TableSpec == TableInit /\ [][TableNext]_tableVars
=============================================================================
