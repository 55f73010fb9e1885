--------------------------- MODULE CatalogReaders ---------------------------
(***************************************************************************)
(* One user's tab over the catalog, while the daily jobs change it: the    *)
(* dashboard's infinite scroll over GET /performances of event-service,    *)
(* and saved-service, whose list asks event-service for one performance    *)
(* after the other.  The table changes as CatalogTable allows, which is    *)
(* what Catalog is shown to implement.                                     *)
(***************************************************************************)
EXTENDS CatalogTable, Schedules, Sequences, FiniteSets, SequencesExt

CONSTANTS
    PAGE,           \* rows per page, 24
    Faults,         \* of {"read", "detail"}
    MaxId,          \* bound: rows ever inserted
    MaxChanges      \* bound: changes of the table

ASSUME ReadersAssumption ==
    /\ PAGE \in Nat \ {0} /\ MaxId \in Nat /\ MaxChanges \in Nat
    /\ Null \notin Perfs

VARIABLES
    changes,        \* how often the table has changed
    page,           \* where the user is: on the dashboard, or elsewhere
    filter,         \* the area chosen; it stands for genre, too
    items, total,   \* what the dashboard shows
    calls,          \* its calls of GET /performances: first page and next page
    calm,           \* since the filter was chosen the table has not changed, and no
                    \* call of an earlier choice was under way
    saved,          \* saved:user:{id}, with the performance each id stood for
    list            \* GET /saved/me at work

pageVars  == <<filter, items, total, calls, calm>>
savedVars == <<saved, list>>
vars      == <<rows, nextId, changes, page, pageVars, savedVars>>

Area    == Venues \cup {Null}
Card    == {r \in TableRow : r.venue # Null}
Request == [filter : Area, offset : Nat, step : {"sent", "rows", "answered"},
            got : Seq(Card), total : Nat]
Entry   == [id : Nat, kopis_id : Perfs]
Listing == [left : SUBSET Entry, got : SUBSET [entry : Entry, row : Card], sure : SUBSET Entry]

TypeOK ==
    /\ rows \subseteq TableRow
    /\ nextId \in 1 .. MaxId + 1
    /\ changes \in 0 .. MaxChanges
    /\ page \in {"dashboard", "elsewhere"}
    /\ filter \in Area
    /\ items \in Seq(Card)
    /\ total \in Nat
    /\ DOMAIN calls = {"first", "more"}
    /\ \A c \in DOMAIN calls : calls[c] = Null \/ calls[c] \in Request
    /\ calm \in BOOLEAN
    /\ saved \subseteq Entry
    /\ list = Null \/ list \in Listing

Idle == [c \in {"first", "more"} |-> Null]

Init ==
    /\ TableInit
    /\ changes = 0
    /\ page = "elsewhere"
    /\ filter = Null /\ items = <<>> /\ total = 0 /\ calls = Idle /\ calm = FALSE
    /\ saved = {} /\ list = Null

-----------------------------------------------------------------------------
(* event-service: what the queries select                                  *)

\* Mutant: LEFT JOIN venues.
VisibleWithoutVenue(rs) == rs

\* JOIN venues: a row without a venue is not to be seen.
Visible(rs) == {r \in rs : r.venue # Null}

Selected(f) == {r \in Visible(rows) : f = Null \/ r.venue = f}

\* ORDER BY start_date, id.
Before(r, t) == r.start < t.start \/ (r.start = t.start /\ r.id < t.id)

Ordered(f) == CHOOSE s \in SetToSeqs(Selected(f)) :
                  \A i, j \in DOMAIN s : i < j => Before(s[i], s[j])

\* Mutant: an offset counted from one.
PageOfFromOne(f, offset) ==
    SubSeq(Ordered(f), IF offset = 0 THEN 1 ELSE offset, Min({offset + PAGE, Len(Ordered(f))}))

PageOf(f, offset) == SubSeq(Ordered(f), offset + 1, Min({offset + PAGE, Len(Ordered(f))}))

\* The two statements of one call, each on the table as it is then.
SelectRows(c) ==
    /\ calls[c] # Null /\ calls[c].step = "sent"
    /\ calls' = [calls EXCEPT ![c].step = "rows",
                              ![c].got = PageOf(calls[c].filter, calls[c].offset)]
    /\ UNCHANGED <<rows, nextId, changes, page, filter, items, total, calm, savedVars>>

SelectCount(c) ==
    /\ calls[c] # Null /\ calls[c].step = "rows"
    /\ calls' = [calls EXCEPT ![c].step = "answered",
                              ![c].total = Cardinality(Selected(calls[c].filter))]
    /\ UNCHANGED <<rows, nextId, changes, page, filter, items, total, calm, savedVars>>

-----------------------------------------------------------------------------
(* The dashboard                                                           *)

Call(f, offset) == [filter |-> f, offset |-> offset, step |-> "sent", got |-> <<>>, total |-> 0]

\* The effect on [genre, area]: the answer of its previous first page will be
\* ignored, that of a next page not.
ShowFirstPage(f, more) ==
    /\ filter' = f
    /\ items' = <<>>
    /\ calls' = [first |-> Call(f, 0), more |-> more]
    /\ calm' = (more = Null)

OpenDashboard ==
    /\ page = "elsewhere"
    /\ page' = "dashboard"
    /\ ShowFirstPage(Null, Null)
    /\ total' = 0
    /\ list' = Null
    /\ UNCHANGED <<rows, nextId, changes, saved>>

ChooseFilter(f) ==
    /\ page = "dashboard"
    /\ f # filter
    /\ ShowFirstPage(f, calls["more"])
    /\ UNCHANGED <<rows, nextId, changes, page, total, savedVars>>

LeaveDashboard ==
    /\ page = "dashboard"
    /\ page' = "elsewhere"
    /\ filter' = Null /\ items' = <<>> /\ total' = 0 /\ calls' = Idle /\ calm' = FALSE
    /\ UNCHANGED <<rows, nextId, changes, savedVars>>

\* The end of the list comes near: the next page, unless one is under way or
\* all are there.
LoadMore ==
    /\ calls["more"] = Null
    /\ items # <<>> /\ Len(items) < total
    /\ calls' = [calls EXCEPT !["more"] = Call(filter, Len(items))]
    /\ UNCHANGED <<rows, nextId, changes, page, filter, items, total, calm, savedVars>>

FirstArrives ==
    /\ calls["first"] # Null /\ calls["first"].step = "answered"
    /\ items' = calls["first"].got
    /\ total' = calls["first"].total
    /\ calls' = [calls EXCEPT !["first"] = Null]
    /\ UNCHANGED <<rows, nextId, changes, page, filter, calm, savedVars>>

FirstFails ==
    /\ "read" \in Faults
    /\ calls["first"] # Null
    /\ items' = <<>> /\ total' = 0
    /\ calls' = [calls EXCEPT !["first"] = Null]
    /\ UNCHANGED <<rows, nextId, changes, page, filter, calm, savedVars>>

\* Whatever filter is chosen by now.  The total that comes with it is not used.
MoreArrives ==
    /\ calls["more"] # Null /\ calls["more"].step = "answered"
    /\ items' = items \o calls["more"].got
    /\ calls' = [calls EXCEPT !["more"] = Null]
    /\ UNCHANGED <<rows, nextId, changes, page, filter, total, calm, savedVars>>

MoreFails ==
    /\ "read" \in Faults
    /\ calls["more"] # Null
    /\ calls' = [calls EXCEPT !["more"] = Null]
    /\ UNCHANGED <<rows, nextId, changes, page, filter, items, total, calm, savedVars>>

-----------------------------------------------------------------------------
(* saved-service                                                           *)

EntryOf(r) == [id |-> r.id, kopis_id |-> r.kopis_id]
Sure(rs)   == saved \cap {EntryOf(r) : r \in Visible(rs)}

\* SADD, from the page of a performance.
AddSaved(r) ==
    /\ page = "elsewhere"
    /\ r \in Visible(rows)
    /\ \A e \in saved : e.id # r.id
    /\ saved' = saved \cup {EntryOf(r)}
    /\ UNCHANGED <<rows, nextId, changes, page, pageVars, list>>

\* SREM.
DeleteSaved(e) ==
    /\ page = "elsewhere"
    /\ saved' = saved \ {e}
    /\ UNCHANGED <<rows, nextId, changes, page, pageVars, list>>

\* SMEMBERS.
ListSaved ==
    /\ page = "elsewhere"
    /\ list = Null
    /\ list' = [left |-> saved, got |-> {}, sure |-> Sure(rows)]
    /\ UNCHANGED <<rows, nextId, changes, page, pageVars, saved>>

NextEntry == CHOOSE e \in list.left : \A d \in list.left : e.id <= d.id
RowsOf(e) == {r \in Visible(rows) : r.id = e.id}

\* Mutant: the list ends at the first performance that is gone.
FetchSavedStops ==
    /\ list # Null /\ list.left # {}
    /\ list' = IF RowsOf(NextEntry) = {}
               THEN [list EXCEPT !.left = {}]
               ELSE [list EXCEPT !.left = @ \ {NextEntry},
                                 !.got = @ \cup {[entry |-> NextEntry, row |-> r] : r \in RowsOf(NextEntry)}]
    /\ UNCHANGED <<rows, nextId, changes, page, pageVars, saved>>

\* GET /performances/{id}: 404, if it is gone or has no venue, leaves it out.
FetchSaved ==
    /\ list # Null /\ list.left # {}
    /\ list' = [list EXCEPT
         !.left = @ \ {NextEntry},
         !.got = @ \cup {[entry |-> NextEntry, row |-> r] : r \in RowsOf(NextEntry)}]
    /\ UNCHANGED <<rows, nextId, changes, page, pageVars, saved>>

\* So does an error of event-service.
FetchSavedRefused ==
    /\ "detail" \in Faults
    /\ list # Null /\ list.left # {}
    /\ list' = [list EXCEPT !.left = @ \ {NextEntry}, !.sure = @ \ {NextEntry}]
    /\ UNCHANGED <<rows, nextId, changes, page, pageVars, saved>>

SavedArrives ==
    /\ list # Null /\ list.left = {}
    /\ list' = Null
    /\ UNCHANGED <<rows, nextId, changes, page, pageVars, saved>>

\* No answer in five seconds: the whole list fails.
SavedFails ==
    /\ "read" \in Faults
    /\ list # Null
    /\ list' = Null
    /\ UNCHANGED <<rows, nextId, changes, page, pageVars, saved>>

-----------------------------------------------------------------------------
(* The jobs                                                                *)

TableChanges ==
    /\ changes < MaxChanges
    /\ TableNext
    /\ rows' # rows /\ nextId' <= MaxId + 1
    /\ changes' = changes + 1
    /\ calm' = FALSE
    /\ list' = IF list = Null THEN Null ELSE [list EXCEPT !.sure = @ \cap Sure(rows')]
    /\ UNCHANGED <<page, filter, items, total, calls, saved>>

Next ==
    \/ TableChanges
    \/ OpenDashboard \/ LeaveDashboard \/ LoadMore
    \/ \E f \in Area : ChooseFilter(f)
    \/ \E c \in {"first", "more"} : SelectRows(c) \/ SelectCount(c)
    \/ FirstArrives \/ FirstFails \/ MoreArrives \/ MoreFails
    \/ \E r \in rows : AddSaved(r)
    \/ \E e \in saved : DeleteSaved(e)
    \/ ListSaved \/ FetchSaved \/ FetchSavedRefused \/ SavedArrives \/ SavedFails

Spec == Init /\ [][Next]_vars

-----------------------------------------------------------------------------
(* Properties                                                              *)

\* While the table stays as it is, and no next page of an earlier filter was under
\* way when this one was chosen (ItemsMatchFilter is about those), scrolling shows
\* the performances of the filter in their order, none twice and none left out,
\* and "all are loaded" is shown when they are: for every size of page, and also
\* when pages fail and are asked for again.
QuietScroll ==
    calm =>
        /\ IsPrefix(items, Ordered(filter))
        /\ items # <<>> => total = Len(Ordered(filter))

\* What the saved list shows under an id is the performance that was saved under
\* it, though rows have gone and come since; and what is saved and to be seen
\* all the while is in the list, whatever else is gone.
SavedListIsRight ==
    list # Null =>
        /\ \A g \in list.got : g.entry.kopis_id = g.row.kopis_id
        /\ list.left = {} => list.sure \subseteq {g.entry : g \in list.got}

\* Whatever text KOPIS has for a performance of the catalog and whenever its run
\* ends, the dates offered to a buyer are those the text names, the earliest ones.
SchedulesFollowTheText ==
    DaysFollowTheText /\ \A r \in rows : DatesAreTheFirst[r.start]

\* Every performance shown is one of the filter chosen.
ItemsMatchFilter ==
    \A i \in DOMAIN items : filter = Null \/ items[i].venue = filter
=============================================================================
