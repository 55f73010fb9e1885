------------------------------ MODULE Catalog ------------------------------
(***************************************************************************)
(* The daily jobs that keep event_db in step with KOPIS.                   *)
(*                                                                         *)
(* daily_update_data.py collects the list of performances window by window *)
(* for a year from today, loads the venues it knows, and then fetches each *)
(* performance's details, and its venue if that is new, and upserts it,    *)
(* one short transaction each.  daily_delete_data.py removes what is over. *)
(* KOPIS, which is external, publishes, changes and withdraws performances *)
(* at any time; any call to it may fail.                                   *)
(***************************************************************************)
EXTENDS Integers, FiniteSets, FiniteSetsExt

CONSTANTS
    Perfs, Venues,
    VenueOf,            \* the venue KOPIS names for each performance
    Runs,               \* the periods KOPIS may publish, records [start, end]
    LastDay,            \* bound: the days considered are 1 .. LastDay
    Horizon,            \* sync_end - sync_start, 365 days
    Window,             \* days per request of the list, 31
    Faults,             \* of {"list", "detail", "venue", "row", "job"}
    Null

ASSUME CatalogAssumption ==
    /\ VenueOf \in [Perfs -> Venues]
    /\ Runs \subseteq [start : Nat, end : Nat]
    /\ LastDay \in Nat \ {0} /\ Horizon \in Nat /\ Window \in Nat \ {0}
    /\ Null \notin Venues \cup Runs \cup Perfs

VARIABLES
    kopis,          \* what KOPIS publishes: a run for each performance, or Null
    day,            \* date.today() of a job that starts now
    perfs, nextId,  \* performances, and the sequence of its ids
    venues,         \* venues, by their kopis_id
    pc,             \* where the update job stands
    cur,            \* fetch_performance_list: the day its next window begins
    list,           \* the items it has collected, what is not yet done of them
    seen,           \*   and their ids
    map,            \* venue_map
    item, mt10id,   \* the item at hand, and the venue its details name or Null
    trusted         \* no step of the last run failed, and nothing has changed since

vars == <<kopis, day, perfs, nextId, venues, pc, cur, list, seen, map, item, mt10id, trusted>>

jobVars == <<cur, list, seen, map, item, mt10id>>
world   == <<kopis, day>>

\* What a job holds is gone with its process.
JobEnded ==
    /\ pc' = "idle"
    /\ cur' = 1
    /\ list' = {} /\ seen' = {} /\ map' = {}
    /\ item' = Null /\ mt10id' = Null

Item   == [kopis_id : Perfs, run : Runs]
\* details: whether the texts of the detail call are there.
\* venue_id REFERENCES venues: a row linked to one that is not there is refused.
Row    == [kopis_id : Perfs, id : Nat, venue : venues \cup {Null}, run : Runs, details : BOOLEAN]
Steps  == {"idle", "list", "connect", "next", "detail", "venue", "upsert"}

TypeOK ==
    /\ kopis \in [Perfs -> Runs \cup {Null}]
    /\ day \in 1 .. LastDay
    /\ perfs \subseteq Row
    /\ nextId \in Nat
    /\ venues \subseteq Venues
    /\ pc \in Steps
    /\ cur \in Nat
    /\ list \subseteq Item
    /\ seen \subseteq Perfs
    /\ map \subseteq venues
    /\ item \in Item \cup {Null}
    /\ mt10id \in Venues \cup {Null}
    /\ trusted \in BOOLEAN

Init ==
    /\ kopis = [p \in Perfs |-> Null]
    /\ day = 1
    /\ perfs = {} /\ nextId = 1
    /\ venues = {}
    /\ pc = "idle"
    /\ cur = 1
    /\ list = {} /\ seen = {} /\ map = {}
    /\ item = Null /\ mt10id = Null
    /\ trusted = FALSE

-----------------------------------------------------------------------------
(* KOPIS and the calendar                                                  *)

KopisChanges(p) ==
    /\ \E r \in Runs \cup {Null} :
        /\ kopis[p] # r
        /\ kopis' = [kopis EXCEPT ![p] = r]
    /\ trusted' = FALSE
    /\ UNCHANGED <<day, perfs, nextId, venues, pc>> /\ UNCHANGED jobVars

\* A job that runs for an hour at 3 is over at midnight.
DayPasses ==
    /\ pc = "idle"
    /\ day < LastDay
    /\ day' = day + 1
    /\ trusted' = FALSE
    /\ UNCHANGED <<kopis, perfs, nextId, venues, pc>> /\ UNCHANGED jobVars

-----------------------------------------------------------------------------
(* fetch_performance_list                                                  *)

StartJob ==
    /\ pc = "idle"
    /\ pc' = "list"
    /\ cur' = day
    /\ trusted' = TRUE
    /\ UNCHANGED <<perfs, nextId, venues, list, seen, map, item, mt10id>> /\ UNCHANGED world

WindowEnd == Min({cur + Window - 1, day + Horizon})

\* What KOPIS lists for a window: whatever plays on one of its days.
Playing(from, to) ==
    {p \in Perfs : kopis[p] # Null /\ kopis[p].start <= to /\ kopis[p].end >= from}

Items(ps) == {[kopis_id |-> p, run |-> kopis[p]] : p \in ps}

\* Mutant: the day after a window's last is left out.
NextWindowSkips == cur' = WindowEnd + 2

NextWindow == cur' = WindowEnd + 1

\* The pages of one window.  A page that fails ends the window, without those it
\* and later pages would have listed.
FetchWindow ==
    /\ pc = "list"
    /\ cur <= day + Horizon
    /\ \E got \in SUBSET Playing(cur, WindowEnd) :
        /\ got # Playing(cur, WindowEnd) => "list" \in Faults
        /\ trusted' = (trusted /\ got = Playing(cur, WindowEnd))
        /\ list' = list \cup Items(got \ seen)
        /\ seen' = seen \cup got
    /\ NextWindow
    /\ UNCHANGED <<perfs, nextId, venues, pc, map, item, mt10id>> /\ UNCHANGED world

ListIsFetched ==
    /\ pc = "list"
    /\ cur > day + Horizon
    /\ pc' = "connect"
    /\ cur' = 1 /\ seen' = {}
    /\ UNCHANGED <<perfs, nextId, venues, list, map, item, mt10id, trusted>> /\ UNCHANGED world

-----------------------------------------------------------------------------
(* main                                                                    *)

\* venue_map is what venues held when the job connected, and its own additions.
LoadVenues ==
    /\ pc = "connect"
    /\ map' = venues
    /\ pc' = "next"
    /\ UNCHANGED <<perfs, nextId, venues, cur, list, seen, item, mt10id, trusted>> /\ UNCHANGED world

\* The loop takes the items in the order listed: any order.
NextItem ==
    /\ pc = "next"
    /\ \E i \in list : item' = i /\ list' = list \ {i}
    /\ pc' = "detail"
    /\ UNCHANGED <<perfs, nextId, venues, cur, seen, map, mt10id, trusted>> /\ UNCHANGED world

\* A withdrawn performance has no details, as one whose call fails has none.
FetchDetail ==
    /\ pc = "detail"
    /\ kopis[item.kopis_id] # Null
    /\ mt10id' = VenueOf[item.kopis_id]
    /\ pc' = IF mt10id' \in map THEN "upsert" ELSE "venue"
    /\ UNCHANGED <<perfs, nextId, venues, cur, list, seen, map, item, trusted>> /\ UNCHANGED world

DetailFails ==
    /\ pc = "detail"
    /\ "detail" \in Faults \/ kopis[item.kopis_id] = Null
    /\ trusted' = FALSE
    /\ pc' = "upsert"
    /\ UNCHANGED <<perfs, nextId, venues, cur, list, seen, map, item, mt10id>> /\ UNCHANGED world

\* A new venue: its details, INSERT, COMMIT, and its place in venue_map.
AddVenue ==
    /\ pc = "venue"
    /\ venues' = venues \cup {mt10id}
    /\ map' = map \cup {mt10id}
    /\ pc' = "upsert"
    /\ UNCHANGED <<perfs, nextId, cur, list, seen, item, mt10id, trusted>> /\ UNCHANGED world

\* Mutant: venue_map is filled although the transaction was rolled back.
VenueFailsKnown ==
    /\ pc = "venue"
    /\ "venue" \in Faults
    /\ map' = map \cup {mt10id}
    /\ trusted' = FALSE
    /\ pc' = "upsert"
    /\ UNCHANGED <<perfs, nextId, venues, cur, list, seen, item, mt10id>> /\ UNCHANGED world

\* KOPIS does not answer, or the row is refused and rolled back.
VenueFails ==
    /\ pc = "venue"
    /\ "venue" \in Faults
    /\ trusted' = FALSE
    /\ pc' = "upsert"
    /\ UNCHANGED <<perfs, nextId, venues, cur, list, seen, map, item, mt10id>> /\ UNCHANGED world

Existing(p) == {r \in perfs : r.kopis_id = p}

\* Mutant: the old row is deleted and a new one inserted.
IdForAnew(p) == nextId

\* ON CONFLICT (kopis_id): the row keeps its id.
IdFor(p) == IF Existing(p) = {} THEN nextId ELSE (CHOOSE r \in Existing(p) : TRUE).id

\* What the upsert writes: every column, the ones of a lost detail call empty.
NewRow == [kopis_id |-> item.kopis_id,
           id       |-> IdFor(item.kopis_id),
           venue    |-> IF mt10id \in map THEN mt10id ELSE Null,
           run      |-> item.run,
           details  |-> mt10id # Null]

\* The end of one turn of the loop.
NextTurn == pc' = "next" /\ item' = Null /\ mt10id' = Null

\* Mutant: ON CONFLICT DO NOTHING.
UpsertOnce ==
    /\ pc = "upsert"
    /\ IF Existing(item.kopis_id) = {}
       THEN perfs' = perfs \cup {NewRow} /\ nextId' = nextId + 1
       ELSE UNCHANGED <<perfs, nextId>>
    /\ NextTurn
    /\ UNCHANGED <<venues, cur, list, seen, map, trusted>> /\ UNCHANGED world

\* The sequence moves on for an insertion (the values an update uses up, too,
\* are left out).
Upsert ==
    /\ pc = "upsert"
    /\ perfs' = (perfs \ Existing(item.kopis_id)) \cup {NewRow}
    /\ nextId' = IF Existing(item.kopis_id) = {} THEN nextId + 1 ELSE nextId
    /\ NextTurn
    /\ UNCHANGED <<venues, cur, list, seen, map, trusted>> /\ UNCHANGED world

\* Mutant: a row that fails is tried again at once.
UpsertFailsAgain ==
    /\ pc = "upsert"
    /\ "row" \in Faults
    /\ list' = list \cup {item}
    /\ trusted' = FALSE
    /\ NextTurn
    /\ UNCHANGED <<perfs, nextId, venues, cur, seen, map>> /\ UNCHANGED world

\* The row is refused, as a text too long for its column is: it is skipped.
UpsertFails ==
    /\ pc = "upsert"
    /\ "row" \in Faults
    /\ trusted' = FALSE
    /\ NextTurn
    /\ UNCHANGED <<perfs, nextId, venues, cur, list, seen, map>> /\ UNCHANGED world

JobDone ==
    /\ pc = "next"
    /\ list = {}
    /\ JobEnded
    /\ UNCHANGED <<perfs, nextId, venues, trusted>> /\ UNCHANGED world

\* An answer that is no XML, a lost connection or activeDeadlineSeconds: what is
\* committed stays, and the next run begins at the beginning.
JobDies ==
    /\ "job" \in Faults
    /\ pc # "idle"
    /\ JobEnded
    /\ trusted' = FALSE
    /\ UNCHANGED <<perfs, nextId, venues>> /\ UNCHANGED world

-----------------------------------------------------------------------------
(* daily_delete_data.py                                                    *)

\* Mutant: end_date <= today.
OverTooSoon == {r \in perfs : r.run.end <= day}

Over == {r \in perfs : r.run.end < day}

DeleteOver ==
    /\ Over # {}
    /\ perfs' = perfs \ Over
    /\ UNCHANGED <<nextId, venues, pc, trusted>> /\ UNCHANGED jobVars /\ UNCHANGED world

-----------------------------------------------------------------------------
UpdateStep ==
    \/ FetchWindow \/ ListIsFetched \/ LoadVenues \/ NextItem \/ FetchDetail \/ AddVenue
    \/ Upsert \/ JobDone

UpdateFault == DetailFails \/ VenueFails \/ UpsertFails \/ JobDies

Next ==
    \/ \E p \in Perfs : KopisChanges(p)
    \/ DayPasses
    \/ StartJob \/ UpdateStep \/ UpdateFault
    \/ DeleteOver

Spec == Init /\ [][Next]_vars

\* A job that was started goes on; nothing obliges it to start.
FairSpec == Spec /\ WF_vars(UpdateStep \/ UpdateFault)

-----------------------------------------------------------------------------
(* Properties                                                              *)

\* A run without a failure sets the catalog right, whatever earlier runs that
\* failed half way, or lost details, have left in it: everything that KOPIS has
\* in the year ahead is there, with its present dates, its details and a venue,
\* and the deletion of what is over leaves it alone.
SyncRepairs ==
    pc = "idle" /\ trusted => \A p \in Playing(day, day + Horizon) :
        \E r \in perfs : r.kopis_id = p /\ r.run = kopis[p] /\ r.details /\ r.venue = VenueOf[p]

\* A performance has one row, and one id as long as it is in the catalog; an id
\* never comes to mean another performance, not even after its row is gone:
\* bookings and saved performances hold nothing but the id.
IdsArePermanent ==
    [][\A r \in perfs' :
        /\ \A q \in perfs : q.id = r.id <=> q.kopis_id = r.kopis_id
        /\ r.id \in {q.id : q \in perfs} \/ r.id >= nextId]_vars

\* A job that has started ends, however many rows fail, though KOPIS changes
\* its lists meanwhile.
JobEnds == pc # "idle" ~> pc = "idle"

\* The jobs change the table as the readers of the catalog are told.
Table == INSTANCE CatalogTable WITH
    Days <- {r.start : r \in Runs},
    rows <- {[kopis_id |-> r.kopis_id, id |-> r.id, venue |-> r.venue, start |-> r.run.start] : r \in perfs}

TableImplemented == Table!TableSpec
=============================================================================
