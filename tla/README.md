# TLA+ models of the ticketing services

This directory holds TLA+ models of the ticketing system, the TLC runs that
check them on small instances, and TLAPS proofs about them for instances of any
size. The models are written from the code (`services/`, `cron/`,
`apps/frontend/`, `infra/docker-compose/postgres/init/`), read with its tests
and documents. `PROJECT.json` lists components, runs, mutants, findings,
hazards and theorems, and maps every definition to the lines it stands for.

## 1. Inventory

### Components and what they share

| component | state it keeps | operations | talks to |
|---|---|---|---|
| booking-service API (`booking-service/app/main.py`) | `booking_requests`, `bookings` in booking_db | create a request, poll it, seat availability, my bookings | Redis stream `booking.requests` (XADD) |
| booking worker (`worker.py`) | nothing but its batch and its database session | read a batch, process a message, mark it failed, acknowledge it | the stream's group `booking-workers`, booking_db, event-service, payment-service |
| payment-service (`payment-service/app/main.py`) | `point_balances`, `payment_history` in payment_db | balance, history, deduct | called by workers and by the frontend |
| waiting room (`main.py` `/queue/*`, `dispatcher.py`, `admission_worker.py`) | Redis: `queue:*` (ZSET), `seq:*`, `active-queues`, `work-stream` and its group, `token:*` | join, status, dispatch, issue a token, reclaim | gates POST /booking-requests when `ENFORCE_ADMISSION_TOKEN` is set |
| event-service | tables `performances`, `venues` (reads) | lists, facets, detail with computed schedules, seat definition | called by workers and by the frontend |
| auth-service | `users` in auth_db | sign up, log in, Google login, dev login | issues stateless tokens |
| saved-service | Redis set `saved:*` | list, add, delete | event-service |
| cron | `performances`, `venues` (writes) | daily upsert from KOPIS, daily delete | the external KOPIS service |
| frontend | page state | queue entry and polling, booking several seats, polling requests | every service |

A booking runs through five of them: the API commits a `PENDING` row and
appends to the stream; a worker of the consumer group receives the entry,
opens a transaction, takes an advisory lock on the seat, looks whether the seat
is taken, reads the performance and the seat from event-service, has
payment-service deduct the points (a transaction of another database), inserts
the booking with `ON CONFLICT DO NOTHING`, writes the outcome and commits; the
client polls the row.

### What is hard, and what makes each component correct

- *Booking pipeline.* Two databases, a stream and an HTTP call make one
  booking, and no transaction spans them. Workers and the API can be killed
  between any two steps; replies of Redis, of payment-service and of COMMIT can
  be lost; the exception handler acts on an outcome it may not know. It is
  correct when no seat is sold twice, what a client is told is true and final,
  points are taken only for seats, and every request is decided.
- *payment-service.* READ COMMITTED transactions with a check before the lock,
  a lazily inserted row and a unique constraint as last resort. It is correct
  when points are conserved, no request is paid twice and each call looks
  atomic to its caller.
- *Waiting room.* Five separate Redis commands per join race with the
  dispatcher's atomic script, with its separate emptiness test, and with
  at-least-once admission work. It is correct when users are admitted in the
  order of their numbers and nobody who waits is forgotten.
- *Catalog synchronisation.* A job of many small transactions over the answers
  of a service that fails and changes, row by row and window by window. It is
  correct when one run without failures repairs whatever earlier ones left, and
  when ids never come to mean another performance: bookings and saved
  performances hold nothing else.
- *Readers of the catalog.* Pages cut out by OFFSET, calls that overlap on one
  dashboard, a saved list made of one call per entry, dates computed from a
  free text. They are correct when what is shown is what was asked for.
- *auth.* Two unique keys, of which ON CONFLICT names one, and a derivation of
  ids that is not injective, and not a function of the account either: an
  account of the provider `local` has one id by sign-up and another by
  dev-login. It is correct when an id is one account's for
  good, and who has an account gets in and gets no other.

The `hazards` of `PROJECT.json` name each of these at its line, with the
property that would catch it, or the reason why none does.

## 2. Plan

| order | module | of | state |
|---|---|---|---|
| 1 | `BookingPipeline`, `SeatSale` | the booking of seats and what it promises | done |
| 2 | `PaymentService`, `PaymentLedger` | point deduction and what the pipeline assumes of it | done |
| 3 | `BookingPipelineProofs` | type correctness, safety, refinement of the pipeline | done |
| 4 | `WaitingRoom` | join, dispatcher, admission worker, tokens, TTLs, the gate of POST /booking-requests | done |
| 5 | `Accounts` | auth-service | done |
| 6 | `Catalog`, `CatalogTable` | both cron jobs, and what their readers rely on | done |
| 7 | `Schedules`, `CatalogReaders` | the schedule algorithm, the dashboard's scroll, saved-service | done |
| 8 | `AccountsProofs`, `CatalogProofs` | auth-service; the jobs' types, permanent ids, refinement | done |
| 9 | `PaymentServiceProofs`, `WaitingRoomProofs`, `BookingChargeProofs` | types, points, one payment per request, the ledger; no waiter lost or overtaken, the gate; refusals, charges, the pipeline's use of the ledger | done |
| 10 | `CatalogReadersProofs`, `SetInduction`, `SyncIsRepair` | the scroll, the saved list, the schedule algorithm for every input; a clean run repairs | done |

Abstract specifications: `SeatSale` (a request gets its seat for good or fails
for good), `PaymentLedger` (each call is one atomic step), `CatalogTable` (how
the table performances may change). Every invariant, action property and
refinement a passing run checks is now stated by a theorem; what is left to the
runs is liveness. Worth proving next: `FailedIsNotCharged` request
by request, so that a fault of one worker only excuses the requests in its batch;
`WaiterHasPlace` under `expire` for the rooms whose keys have not expired;
`NobodyCutsIn` with `api` and `expire` together, outside the rooms a stopped join
leaves with the wrong TTL; and
that a finished call of `PaymentService` is what a worker waits for, in one
module that composes it with `BookingPipeline`.

## 3. Modules

### BookingPipeline

State that survives a process is global, state in a process's memory or
database session is indexed by `Workers`:

| variable | in the system |
|---|---|
| `body`, `status`, `reason`, `linked` | the columns of `booking_requests` (`linked`: the rows whose `booking_id` is filled) |
| `bookings` | table `bookings` |
| `stream`, `lastId`, `pel` | stream `booking.requests`, the group's last-delivered-id, its pending entries |
| `call`, `balance`, `payments` | the HTTP call of each request to payment-service, and payment_db |
| `api` | where the handler of each POST stands |
| `pc`, `batch`, `tx`, `why` | of each worker: its place in `main`/`process`, the entries it has left, its transaction, the refusal it is about to commit |

Actions follow the code's order: `CreateRequest`, `Publish`; `ReadBatch`;
`AcquireSeatLock`, `CheckSeat`, `SendDeduct`, `ReceivePaid` or `ReceiveRefusal`,
`Confirm`, `InsertConflicts` or `Reject`; `Ack`. A transaction appears by its
effect at COMMIT and by the advisory lock it holds until then; its statements
are separate steps, so that other workers, payment-service and every failure
fall between them. The write of `PROCESSING` never becomes visible, so it is
not a value of `status`.

`Faults` chooses what may fail: the API between INSERT and XADD (`api`), the
reply of XREADGROUP (`read`), the lookups (`event`), payment-service before its
commit (`payment`), the answer of payment-service's COMMIT (`payanswer`: the
deduction stands and the worker is told 500), the worker's wait for it
(`timeout`), a database session or one of its statements (`session`), the answer
of the worker's COMMIT (`answer`), `mark_failed` (`markfail`), a worker process
(`crash`). A cut session means that the server has ended the transaction; a
session the server keeps while the worker has lost it is not modelled.

A seat is a performance, a calendar date and a seat number. The advisory lock
is on the *text* of the request, so a seat can have several lock keys
(`Inputs`), and two seats may share one (`hashtext` is 32 bits wide).

### SeatSale

The abstract specification: `Submit`, `Sell` a free seat to a pending request,
`Fail` a pending request. The refinement (`Sale`, `SaleImplemented`) maps a
seat's owner to the request of its booking.

### PaymentService and PaymentLedger

`PaymentService` interleaves the statements of POST /payments/deduct and
GET /payments/me/balance. `FOR UPDATE` waits while another transaction has
inserted or locked the row (`RowBusy`), the lookup of an existing payment and
the SELECT of `ensure_balance` do not. A transaction may be cut before its COMMIT
(`cut`, `Abort`), or commit and be answered 500 all the same (`answer`,
`Committed`). `PaymentLedger` has one atomic step per call, and an error tells
its caller nothing: points may have been taken (`Pay`) or not (`Fail`).
`LedgerImplemented` shows that the service amounts to it, and
`PaymentAssumed` that the steps `BookingPipeline` takes for payment-service are
steps of the same ledger: the two models meet there.

### WaitingRoom

Everything shared is in Redis, so a step is one Redis command or one script.

| variable | in the system |
|---|---|
| `line`, `seq`, `active` | `queue:*` (the number of each member), `seq:*`, `active-queues` |
| `ttl` | for each room, which of its two keys have a TTL, in the order they expire |
| `torn` | no variable of the system: the rooms whose counter expired in the middle of a join |
| `stream`, `lastId`, `pel` | `work-stream`, its group's last id, its pending entries |
| `tokens` | `token:*` |
| `who`, `at`, `number` | a visit: by whom and to which room, the next command of its `queue_join` or the state of its page, the number drawn |
| `dpc`, `todo`, `room` | the dispatcher's place in `dispatch_once`, the rooms left, the room at hand |
| `wpc`, `batch` | the admission worker's place and the entries it has left |

A join is `Visit` (GET token), `ZScore`, `Incr`, `ZAdd`, `SAdd`, `ExpireLine`,
`ExpireSeq`, `AnswerJoin`, and may stop before each (`JoinFails`): the page
then shows the seats, as `enterQueue` swallows the error. `Poll` is the poll of
`queue_status` that finds the token. The dispatcher's tick is `Tick`
(SMEMBERS), `HandOff` (the Lua script), `ZCard`, `SRem`. The admission worker
reads or reclaims a batch, and for each entry sets the token and acknowledges;
SET may raise (the entry stays pending), XACK may raise (the rest of the batch
is dropped), the worker may be killed. XAUTOCLAIM's idle time is abstracted to
"any pending entry, at any time", those of a live worker included.

Time enters by the order of expiry only. A key may expire at any moment, also
between two commands of a join, for the TTL that ends was set by the join before
(`ExpireKey`). When the counter goes between a join's INCR and its EXPIRE of the
counter, that EXPIRE has nothing to renew, the next INCR draws 1, and whoever it
belongs to comes before all who stand in line. `torn` remembers such a room until
a key expires with no join half way and leaves nobody in line (`Tear`), and
`NobodyCutsIn` makes an exception of it.

`Enforce` is `ENFORCE_ADMISSION_TOKEN`. With it a page that shows the seats
either books (`Book`), if its user has a token, or is turned away
(`TurnedAway`) and joins again, as the catch of `book` in `Seats.tsx` does;
`MaxNumber` bounds how often.

### Accounts

One row of `users` is an account (provider, login id) with its id, name and
password. A session is one tab: its login by one of four ways, and a look at
GET /auth/me with the token it got. A handler's transaction is its probe for
(provider, login id), its INSERT or UPDATE, and its COMMIT, with the waits that
the two unique indexes cause (`AccountBusy`, `IdBusy`); `tx` is the row version
it holds until then. The Google login adds the state cookie, of which a browser
has one for all its tabs. `Faults`: `cut` (no connection, or one that breaks
before COMMIT), `answer` (the answer of a COMMIT is lost), `google` (consent or
exchange fails), `expire` (cookie or token).

`DevId` and `LocalId` are what `make_user_id` makes of a login id on a dev-login
or Google login, and on a sign-up, which prefixes `local-`: any two functions. So
accounts may collide, and an account of the provider `local`, which dev-login
takes as it takes any, may come under either of two ids. An INSERT therefore
passes its two indexes one after the other, the primary key first (`Insert`,
`Unique`); between the two it holds its id and not yet its account. A sign-up
that meets its account at the second waits and fails (`UniqueViolates`); ON
CONFLICT takes its row back and looks again (`Retract`).

### Catalog and CatalogTable

| variable of `Catalog` | in the system |
|---|---|
| `kopis` | the periods KOPIS publishes (external; changes at any moment) |
| `day` | `date.today()` of a job that starts |
| `perfs`, `nextId`, `venues` | the tables and the sequence |
| `cur`, `list`, `seen`, `map`, `item`, `mt10id` | locals of `fetch_performance_list` and `main`; `map` is `venue_map` |
| `pc`, `trusted` | where the update job stands; whether its run has been free of failures and KOPIS unchanged |

The job fetches window by window, connects and loads the venues, and then for
each item fetches details, adds the venue if it is new, and upserts. A page of
the list that fails ends its window early; a detail call that fails leaves the
venue and the texts empty; a venue or row that fails is rolled back and
skipped; the job may die anywhere. `DeleteOver` is the other job, one DELETE,
and may come between any two transactions of the first.

`CatalogTable` says what readers may rely on: rows are put by `kopis_id` and
removed, and ids are serial. `Catalog` implements it (`TableImplemented`), and
`CatalogReaders` extends it for its environment, so that the readers are
checked against every table history the jobs can make and more.

### Schedules and CatalogReaders

`Schedules` has `_schedule_days` and `compute_schedules` of event-service as
functions of what the two patterns find in a text, and definitions that say
independently which dates are right: the arithmetic of weekdays modulo 7, and
the first dates of the run in order.

`CatalogReaders` is one user's tab. The dashboard has a filter, items and a
total, and at most two calls in flight, its first page (`calls["first"]`,
dropped when the filter changes) and a next page (`calls["more"]`, not
dropped). GET /performances is two statements, rows and count, each on the
table as it is then. The saved list is SMEMBERS and then one call per entry, in
the order of ids; `saved` also records which performance an id stood for when
it was saved, which the code does not store and the property needs. `calm` and
`list.sure` record what has held all the while, for the same reason. `filter`
is the area; the genre is a second condition of the same kind and is left out.

### The proof and MC modules

The proofs (section 6), and the small instances TLC checks.

## 4. Runs

Each cfg names its bounds: requests, workers, lock keys, the inputs a POST may
carry, points, the batch size and the faults.

| run | instance | shows |
|---|---|---|
| `pipeline_all_faults` | 3 requests for one seat under 2 keys, 2 workers, every fault | no double sale; confirmed is booked and paid; refusals are true (PAYMENT_FAILED: that payment-service answered an error); one handler per entry |
| `pipeline_settled` | 3 requests, two seats, one key per seat, the faults `api`, `read`, `event`, `payment`, `crash` | outcomes final and truthful; a failed request was not charged; nothing acknowledged undecided; `SeatSale` implemented |
| `pipeline_live` | 2 requests, 2 keys, the faults that leave processes alive (all but `api`, `read`, `markfail`, `crash`), fairness | every request is decided; no entry is orphaned; the payment steps are the ledger's |
| `payment_service` | 3 calls: duplicates, first reads, cuts, lost answers of COMMIT; fairness | points conserved, one payment per request, the row lock works, every call is answered, the ledger implemented |
| `waiting_room` | 3 visits by 2 users, keys and tokens expire | nobody in line is overtaken, except in a room whose counter expired in the middle of a join |
| `admission` | 2 visits, the gate on, a worker with batches of 2, every other fault; fairness | no waiter is dropped; whoever is called up gets a token; nobody books who was not called up |
| `accounts` | 3 sessions, 3 login ids: two accounts with one user id, one account with two; every fault; fairness | one account per id; tokens name their account; members are let in; accounts are permanent; every call is answered |
| `catalog` | 2 performances, 1 venue, 3 days, windows of 2 days over a year of 3, every fault; fairness | a clean run repairs the catalog; ids are permanent; jobs end; `CatalogTable` implemented |
| `readers` | 2 performances in 2 areas, pages of one, 4 changes of the table, every fault | scrolling a quiet table is right; the saved list is right; dates follow the text |

Why these bounds suffice for the cases of interest: two workers make every race
for a seat, a lock and a batch; three requests with a batch size of 2 make one
worker hold a batch of two while the other holds the third, and fill a batch
exactly, short of it and beyond it; two keys for one seat put two workers past
the lock together; points for one seat but not for two, or for none, make each
refusal. Three calls suffice for a duplicate pair with a third transaction that
changes the balance in between. The code's batch size of 50 and its number of
replicas are constants, and the proofs hold for all of them. Overtaking needs
two users in line and a third visit that cuts in, by a user who is new or there
already. One admission worker is enough because SET and XACK are idempotent:
what a second one does to an entry the first one has, it does too when it
reclaims its own. Users and visits are interchangeable, and `waiting_room`
(safety only) uses that symmetry. `MaxNumber` = 1 in `admission` lets a page be
turned away before anybody has a number, which is the case of a failed join; in
`waiting_room` the gate is off. Three sessions make a pair that collides and a
third that sees what they leave; alice comes in by sign-up under one id and by
dev-login under another. Two performances of `catalog` share a venue, so that
the second finds it known, new, or failed by the first. A run is of the days 1
and 2, or 3 and 4: the first is over, under way when a job starts, or ahead, and
the second is in the later window of day 1 and in both windows of day 2. With
pages of one and two performances in either of two areas, a scroll has a first
page, a next one and an end, and loses or repeats rows if it can; four changes
suffice to save a performance, remove it, put it back under another id and
change something else. Schedules are checked for all texts of up to two ranges
and a name, runs of up to 16 days, and the starts 1 and 2 (`Days`); the theorems
have every start. `readers` uses the symmetry of performances and areas, which
no definition tells apart. `CHECK_DEADLOCK FALSE` is set because the system may
stop: users stop asking and every request may have been decided.

Fairness: the API goes on after its commit, payment-service answers each call,
and each worker loops (`while True`): weak fairness of each. It is stated for
a worker as a whole (`WorkerStep`), as its actions exclude one another. Users
need not act and failures need not happen. Weak fairness of `AcquireSeatLock`
is enough although locks are shared: a worker that waits is passed over only by
requests that are in the stream already, each once.

For the waiting room: joins, dispatcher and admission workers are loops or
handlers that go on (weak fairness), and failures of the admission workers stop
one day (`WorkerFairSpec`); `finding_lost_wakeup` has no failures at all.

For auth: a handler that has been called goes on (weak fairness of
`HandlerStep`), and nobody need come back from Google. For the catalog: a job
that was started goes on or fails (weak fairness of the two together); that it
is started is the CronJob's business and not assumed.

### Disagreements found

| run | the code does | the documents say |
|---|---|---|
| `finding_failed_but_booked` | a COMMIT whose answer is lost ends in FAILED with a booking | FAILED "could not become a Booking" (PLAN.md:263) |
| `finding_lost_wakeup` | a join between ZCARD and SREM leaves its user in a line nobody serves | "wait a moment and you will be taken to the booking page" (Seats.tsx:28) |
| `finding_stale_page` | the next page of the previous filter is appended to the new filter's list | the list is reset "whenever the filter changes" (Dashboard.tsx:89) |

Others, seen while modelling. Of the pipeline: a row whose XADD did not happen
stays PENDING (ACCEPTANCE_CHECKLIST.md:52 says a request "reaches a terminal
state"; `EveryRequestIsDecided` fails in `pipeline_live` with the fault `api`);
entries of a killed worker stay pending, one that is paid included
(DEPLOY_STRATEGY.md:168-172 has a new worker process them; PLAN.md:255 rules
recovery out; `NothingOrphaned` with the fault `crash`); a `mark_failed` that
raises has its entry acknowledged and undecided (`AckedIsDecided` with the fault
`markfail`); PROCESSING is overwritten in the transaction that writes it, so no
poll sees the status PLAN.md:261 lists. Of what a failed request costs: a
deduction whose COMMIT loses its answer is answered 500, and the request fails
with PAYMENT_FAILED although it was charged; one that is made after the timeout
charges a request that has failed with WORKER_ERROR; so does one whose worker's
session is cut afterwards (`FailedIsNotCharged` with the faults `payanswer`,
`timeout` or `session`). BookingStatus.tsx:11-12 tells the user of both that
there was a problem and to try again, which pays once more, as a new request has
a new id. Of payments: a duplicate that overlaps the first call may be answered
409, where 기능명세서.md:126 returns the existing payment; two first uses of a
balance collide on the primary key and one gets a 500 (`EnsureCollides`), where
기능명세서.md:125 guarantees a balance. Of the waiting room: a join that stops
between its two EXPIREs lets the counter expire before the line, and restart
below users who wait (`NobodyCutsIn` with the faults `api` and `expire`). And
with no failure at all: after an hour without a join the counter may expire
between the INCR and the EXPIRE of the next one, which stands in line with, say,
6 when the join after it draws 1 and overtakes it (`NobodyCutsIn` without its
exception, in 15 states; main.py:136 and 기능명세서.md:109 promise first come, first
served). Seats.tsx:29 warns that a reload resets the place, which ZSCORE keeps
(`NobodyCutsIn`). Of the booking page (BookingStatus.tsx:36): polls overlap, and
one that was sent before the decision and arrives after the poll that stopped
the polling puts PENDING back for good.

Of auth: two accounts whose user ids collide, such as the two demo buttons',
exclude each other, and the second gets a 500 (`InsertViolates`); so may one of
two simultaneous first logins; a sign-up answers 409 ID_TAKEN to any exception
of the database. Of the catalog: a detail call that fails unlinks a performance
that was linked, and it is hidden until the next clean run
(ACCEPTANCE_CHECKLIST.md:19 says "Every Performance is linked to a Venue."); a
venue that is known is never refreshed; the facets count rows without a venue,
which the list leaves out; the docstring daily_update_data.py:8 begins the
period 30 days ago and the code today. Of the readers: a 5xx of event-service
drops a saved performance from the list without a word; jobs that run between
two pages shift the OFFSET, so that rows are shown twice or not at all and "all
loaded" may be untrue (`QuietScroll` is about a table at rest, and about a filter
chosen while no next page of another one was under way, which is
`finding_stale_page`).

## 5. Mutants

Every property of a passing run has a mutant: an operator, defined next to the
one it replaces, with a plausible mistake (no advisory lock, an INSERT without
ON CONFLICT, XREADGROUP with NOACK, SELECT without FOR UPDATE, a window that
skips a day, a LEFT JOIN). With it the run
reports the property violated.

## 6. Proofs

Each proof module EXTENDS the model it is about and holds for every value of its
constants under the model's `...Assumption`, which says that numbers are numbers,
inputs are well formed, batches and windows are not empty, and `Null` is no
value. Each theorem rests on an inductive invariant: it holds initially and every
step keeps it, shown action by action. Further hypotheses are in the theorem.

### BookingPipelineProofs

`TypeOK` is not inductive: what `Ack` and `Publish` do to a batch or a row
depends on how stream, pending entries, batches and rows hang together. `Plumb`
adds that: a row exists from the INSERT on and a call only for a published
request (`RowsInv`); the stream holds a request once and the pending entries
are delivered ones (`StreamInv`); a worker has a batch exactly when it works
(`BatchInv`); batches are disjoint parts of the pending entries
(`DeliveredToOne`, a safety property in its own right). From it:

| theorem | assumes of `Faults` | rests on |
|---|---|---|
| `TypeCorrect`, `DeliveryIsExclusive` | nothing | `Plumb` |
| `SeatSoldOnce` | nothing | the guard of the INSERT, no lock needed |
| `ConfirmedMeansBookedAndPaid` | nothing | `PaymentInv`: who may insert has paid |
| `AcknowledgedIsDecided` | no `markfail` | `DecidedInv`: before `Ack` the request is decided |
| `FailedMeansNotBooked`, `OutcomeIsFinal` | no `answer` | `PendingInv`: what is in a batch and not about to be acknowledged, and what is not yet delivered, is PENDING |
| `PipelineSellsSeats` | no `answer` | `PendingInv`, and that a new booking changes one seat's owner |

### BookingChargeProofs

What the pipeline does with money. Refusals and charges need to know that points
are asked for once: `FreshInv` says that a request nobody has taken up has no
call and no booking, up to the step that makes them. `StreamInv` and
`DeliveredToOne` keep it, as an entry delivered is never delivered again.

| theorem | assumes | rests on |
|---|---|---|
| `RefusalsAreTrue` | nothing | `RefusalInv`: behind each reason, in the row or in the worker about to write it, is the sale or the answer it speaks of; an answer is INSUFFICIENT_POINTS only of a request that is not paid; balances only fall |
| `FailedMeansNotCharged` | one lock key per seat; no `timeout`, `session`, `answer`, `payanswer` | `LockInv`: one open transaction per seat, and what it has seen free stays free; `ChargeInv`: who failed, or is about to, has no deduction made or under way |
| `PendingIsHeld` | no `crash`, `read`, `markfail` | `Plumb`: each step moves an entry from the PEL only with the batch it is in |
| `PipelineUsesLedger` | nothing | `FreshInv`: a call is new when it is made; each step of payment-service's is a step of the ledger, its lost answers included; all others are none |

None of these hypotheses can go: with any one fault, or with two keys, TLC finds
the property violated. Two
spellings of a date let a second worker book between check and INSERT after the
first has paid; a session that is cut, or a timeout, fails a request that is paid
or will be; a lost COMMIT answer marks FAILED what is booked and paid, or, of
payment-service, what is paid; a killed
worker or a lost reply orphans its batch, and a worker whose `mark_failed`
raises ends.

### PaymentServiceProofs

| theorem | rests on |
|---|---|
| `PaymentTypeOK` | `CallInv`: where a call stands says what it is and has read; `EnsuredInv`: who is past `ensure_balance` has a row, its own insert or a committed one |
| `SeenBalanceIsCurrent` | `RowLockInv`: one transaction at a time holds a user's row, inserted or locked; `SeenInv`: what it has seen is the balance, and enough |
| `PointsAreConserved` | `HistoryInv` and the sum of the amounts paid (below) |
| `RequestsArePaidOnce` | the unique key alone: the early lookup decides nothing |
| `PaymentsImplementLedger` | all of these: the COMMIT of a deduction is the ledger's step, answered or not; anything else is none |

All for any number of calls, users and amounts, with every overlap, collision,
cut and lost answer. Together with `PipelineUsesLedger` they give what the
pipeline takes for granted: it is `PaymentLedger` that one uses and the other
implements.

### WaitingRoomProofs

| theorem | assumes of `Faults` | rests on |
|---|---|---|
| `WaitingRoomTypeOK` | nothing | `RoomInv`: whose page it is, and that batches hold delivered entries |
| `OnlyCalledUsersBook` | nothing | `TokensInv`: a token was issued for an entry of the stream |
| `WaitersHaveAPlace` | no `expire` | `PlaceInv`: from its ZADD on a joining user is in line, on the way, or has a token; `AckInv`: an entry is acknowledged after its SET |
| `FirstComeFirstServed` | not both `api` and `expire` | `CounterInv`: in a room that is not torn, numbers in line and drawn come from the counter (`Counted`); with `expire`, `ExpiryInv`: while somebody is in line there, the line expires before the counter or a join is about to renew it |

With `expire` a token may end while its page shows "waiting"; that is what a TTL
is for. With `api` and `expire` together, a join that stops between its EXPIREs
lets the counter expire first (section 4). `FirstComeFirstServed` covers a
counter that expires and starts again, which needs the order of the two EXPIREs
and that both are set to the same length; `TornSteps` says how a room ceases to
be an exception. `ExpireKey` alone makes one, so without `expire` there is none.

### AccountsProofs

For any sessions, accounts, passwords, and any ids that dev-logins and sign-ups
are given, under every fault. The two unique indexes are a matter of the rows and
of what open transactions have written together, so `Keys` is about both: no two
rows share an id or an account (`OneAccountPerId`); a written version is of the
caller's account, no other transaction has its id, and a row that has it is the
one it updates (`WrittenInv`); once the second index has let it in, its account
is under no other id and in no other transaction that has come as far
(`UniqueInv`); and a transaction has written exactly when its handler is between
the first index and COMMIT (`HandlerInv`). That an account has one id rests on
`UniqueInv` alone: nothing relates the two functions that make ids. `WriteKeeps`
says that a COMMIT takes no account away, and the
theorems follow from the two:

| theorem | rests on |
|---|---|
| `AccountsTypeCorrect`, `IdsAreUnique` | `Keys` |
| `AccountsStay` | `WriteKeeps` |
| `TokensNameTheirAccount` | `WrittenInv`: what is let in is the version committed, or the row read |
| `SignupsAreExclusive` | `UniqueInv`: a sign-up which commits finds no row of its account; and a token's account is there |
| `MembersAreLetIn` | `MemberInv`: a member's account stays, so nothing is inserted for him |

### CatalogProofs

For any performances, venues, periods, horizon and window, under every fault.
`SyncInv` adds to the types that no two rows share an id or a `kopis_id` and ids
lie below the sequence (`IdsInv`), and what the job has at hand (`ItemInv`).
From it: `CatalogTypeCorrect`, which includes the foreign key; `IdsStay`; and
`CatalogImplementsTable`, where an upsert is a `Put` of its performance and the
deletion a `RemoveRows` of what it removes.

`SyncIsRepair`: `RepairInv` follows a job in which nothing has failed. While the
list is fetched, what plays in the windows behind `cur` has been seen, and what
has been seen is listed; in the loop, each performance that is due is right, or
listed, or at hand with its venue. The lemma under it is that what plays in
`day .. e` plays in `day .. c` or in `c + 1 .. e`. This is false of a run that
ends before it starts: its two days can lie in two windows and no request then
lists it, while one of the whole year would. Hence the hypothesis
`r.start <= r.end`, which KOPIS' data satisfies and the code does not check.

### CatalogReadersProofs

Everything is about `Ordered(f)`, the answer of a query with ORDER BY, so the
module first proves that finitely many rows with distinct ids can be put in
order (`SortingExists`) and that `Ordered` is such an order, with every row once
(`OrderedFacts`). `TableInv` is the types and the keys of the table.

| theorem | rests on |
|---|---|
| `ReadersTypeOK` | `TableInv` |
| `SavedListsAreRight` | `SavedInv`: an entry's id, saved or waiting in the list, stands for what was saved under it, or for nothing; what was to be seen all along is waiting or shown |
| `ScrollIsQuiet` | `ScrollInv`: while the table is at rest, what is shown is a beginning of the answer and a call under way brings the page after it |
| `DaysOfEveryText` | a range and its end, modulo 7 |
| `DatesOfEveryRun` | `DatesSoFar`: after each day, the dates are the first of those before it; by induction over the days |
| `SchedulesAreRight` | the two, for the texts and starts the property looks at |

`ScrollIsQuiet` and `SavedListsAreRight` hold for every size of page and any
changes of the table by jobs; `DatesOfEveryRun` for every start, end, set of
weekdays and limit. The invariant `SchedulesFollowTheText` quantifies over the
starts of two weeks, and so does the theorem that states it; the two before it
have no bound. Its hypothesis, `Days \subseteq 0 .. 13`, says that the days of
the model are among those.

### Induction

Induction rules take a predicate as a parameter, which the provers cannot
instantiate. `SetInduction` states two of them about sets instead and proves
them from the library's `WFMin` (a well-founded relation has minimal elements):
a set of numbers that is not empty has a least element (`LeastNatural`), and a
family of subsets of a finite set that holds a set whenever it holds its strict
subsets holds them all (`SubsetInduction`). To prove P of every n one takes the
least n in the set of those without it. So are proved: that the sum of a finite
set of payments exists and grows by what is added (`PaymentServiceProofs`); that
finitely many rows can be sorted; and that the recursive functions of `Schedules`
exist, are unique, and compute what they should.

### What the proofs found in the models

- `EnsureReads` of `PaymentService` was a CASE with overlapping guards, which
  denotes an arbitrary choice of the two; TLC took the first. It is an IF now.
- The invariant under `SyncIsRepair` first said that all that plays up to the day
  before `cur` has been seen, which is wrong of a run that began before the job's
  first window. No state of the old instance showed it, where a run that was
  under way when a job started did not exist; the periods of `catalog` were
  extended, and TLC then refuted it.
- An earlier state of these models had an error of payment-service take nothing,
  no key expire in the middle of a join, and no dev-login of the provider `local`.
  With each let in, a property had to be restated to hold of the code:
  `RefusalIsTrue`, `NobodyCutsIn`, and `OneAccountPerId` by another constraint.
- The inductive invariants (`Keys`, `PayInv`, `WaiterInv`, `CalledInv`, `FifoInv`,
  `RepairInv`, `SavedInv`, `ScrollInv`, `FreshInv`, `RefusalInv`, `LockInv`,
  `ChargeInv`) hold of the instances of the runs, too.
- `CatalogReaders.Ordered` was `SortSeq`, which only TLC can evaluate; it is now
  the sequence that ORDER BY describes, as a CHOOSE.
- `Null` could have been an input of the pipeline, or a record of its ledger:
  `PipelineAssumption` says that it is neither.

### Model-checked only

Liveness, which is out of the prover's reach with ENABLED:
`EveryRequestIsDecided`, `EveryCallIsAnswered` (of payment-service and of
auth-service), `CalledIsAdmitted`, `JobEnds`. What the three runs under
"Disagreements found" show are counterexamples, which TLC has and nothing need
prove.

## 7. Not modelled

Requests that only read one table and on which nothing depends: the facets, the
upcoming row, the list by ids, payment history, my bookings. The pages that only
display; the submission of several seats by one page and the polling of their
requests, which call what `BookingPipeline` models; the heart on a
performance's page, which shows what it last toggled. Telemetry, deployment
manifests and load tests, the legacy documents' services that no code
implements. The seat grid (8 rows of 10, `generate_seats`) and its prices are
constants.

Of modelled components: a Redis that loses its data (requests in the stream
would be lost with it, and nothing in the code says what should happen); time,
except for the order in which keys expire; the checks of a sign-up's form,
which come before anything that changes state; the texts of a performance,
except whether they are there, and periods that KOPIS leaves empty; sequence
values that an upsert uses up without inserting.
