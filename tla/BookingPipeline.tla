-------------------------- MODULE BookingPipeline --------------------------
(***************************************************************************)
(* The asynchronous booking of seats: POST /booking-requests records a     *)
(* PENDING row in booking_db and appends it to the Redis stream            *)
(* booking.requests; booking workers read the stream through the consumer  *)
(* group booking-workers, lock the seat, look the performance up, have     *)
(* payment-service deduct the points over HTTP, and commit the outcome.    *)
(*                                                                         *)
(* Everything that survives a process is a global variable (booking_db,    *)
(* payment_db, Redis, an HTTP call under way); everything a process holds  *)
(* in memory or in its database session is indexed by Workers.  A database *)
(* transaction is modelled by its visible effect at COMMIT, plus the       *)
(* advisory lock it holds until then.                                      *)
(***************************************************************************)
EXTENDS Naturals, Sequences, FiniteSets

CONSTANTS
    Requests,     \* the uuids POST /booking-requests hands out
    Workers,      \* booking-worker replicas
    Users, Seats, \* a seat is a (performance, calendar date, seat_id)
    LockKeys,     \* values of hashtext("performance:show_date:seat_id")
    Inputs,       \* what a POST may carry
    Price,        \* seat price, as event-service defines it
    StartPoints,  \* what payment-service gives a new user
    BatchSize,    \* the count of XREADGROUP (50 in the code)
    Null,         \* no row, no seat, nobody
    Faults        \* the failures that may happen, a subset of AllFaults

\* show_date is a DATE column but free text in the lock key: the same seat
\* may be asked for under two spellings of its date, hence two lock keys.
Input == [user : Users, seat : Seats, key : LockKeys]

AllFaults ==
    { "api",      \* the API dies, or Redis refuses, between INSERT and XADD
      "read",     \* the reply of an XREADGROUP is lost
      "event",    \* event-service answers 404 or 5xx, or not at all
      "payment",  \* payment-service answers 5xx and has deducted nothing
      "payanswer", \* payment_db's COMMIT succeeds, its answer is lost: 5xx too
      "timeout",  \* the worker stops waiting for payment-service (10 s)
      "session",  \* a worker's database session is cut, or a statement refused
      "answer",   \* booking_db's COMMIT succeeds and its answer is lost
      "markfail", \* mark_failed itself raises
      "crash" }   \* a worker process is killed

ASSUME PipelineAssumption ==
    /\ Inputs \subseteq Input
    /\ Price \in [Seats -> Nat]
    /\ StartPoints \in [Users -> Nat]
    /\ BatchSize \in Nat \ {0}
    /\ Null \notin Inputs \cup [request : Requests, user : Users, amount : Nat]
    /\ Faults \subseteq AllFaults

VARIABLES
    (* booking_db *)
    body,         \* columns user_id, seat, show_date of a booking_requests row
    status,       \* its column status, "NONE" while there is no row
    reason,       \* its column failure_reason, "NULL" if none
    linked,       \* the rows whose column booking_id is filled
    bookings,     \* the rows of table bookings
    (* Redis *)
    stream,       \* the entries of booking.requests, never trimmed
    lastId,       \* last-delivered-id of the group: a position in stream
    pel,          \* the group's pending entries: delivered, not acknowledged
    (* payment_db and the HTTP calls to it *)
    call,         \* the POST /payments/deduct made for a request
    balance,      \* point_balances
    payments,     \* payment_history
    (* processes *)
    api,          \* where the handler of each POST stands
    pc, batch,    \* where each worker stands, and the entries it still has
    tx,           \* its transaction: "none", "open" (lock held) or "broken"
    why           \* the business failure it is about to commit

dbVars      == <<body, status, reason, linked, bookings>>
redisVars   == <<stream, lastId, pel>>
paymentVars == <<call, balance, payments>>
workerVars  == <<pc, batch, tx, why>>
vars == <<dbVars, redisVars, paymentVars, api, workerVars>>

Terminal == {"CONFIRMED", "FAILED"}
Refusals == {"SEAT_ALREADY_BOOKED", "INSUFFICIENT_POINTS", "PAYMENT_FAILED"}
Reasons  == Refusals \cup {"WORKER_ERROR"}
Booking  == [request : Requests, user : Users, seat : Seats, paid : Nat]
Payment  == [request : Requests, user : Users, amount : Nat]
InTx     == {"check", "lookup", "paying", "insert", "reject"}

\* The request a worker is processing: the first of what is left of its batch.
Current(w)   == Head(batch[w])
User(r)    == body[r].user
Seat(r)    == body[r].seat
Cost(r)    == Price[Seat(r)]
Booked(s)  == \E b \in bookings : b.seat = s
HasBooking(r) == \E b \in bookings : b.request = r
Paid(r)    == \E p \in payments : p.request = r
InStream(r) == \E i \in DOMAIN stream : stream[i] = r

TypeOK ==
    /\ body \in [Requests -> Inputs \cup {Null}]
    /\ status \in [Requests -> {"NONE", "PENDING"} \cup Terminal]
    /\ reason \in [Requests -> Reasons \cup {"NULL"}]
    /\ linked \subseteq Requests
    /\ bookings \subseteq Booking
    /\ stream \in Seq(Requests)
    /\ lastId \in 0..Len(stream)
    /\ pel \subseteq Requests
    /\ call \in [Requests -> {"none", "sent", "paid", "insufficient", "error"}]
    /\ balance \in [Users -> Nat]
    /\ payments \subseteq Payment
    /\ api \in [Requests -> {"idle", "inserted", "done", "lost"}]
    /\ pc \in [Workers -> {"idle", "begin", "failing", "ack", "down"} \cup InTx]
    /\ batch \in [Workers -> Seq(Requests)]
    /\ tx \in [Workers -> {"none", "open", "broken"}]
    /\ why \in [Workers -> Refusals]

Init ==
    /\ body = [r \in Requests |-> Null]
    /\ status = [r \in Requests |-> "NONE"]
    /\ reason = [r \in Requests |-> "NULL"]
    /\ linked = {}
    /\ bookings = {}
    /\ stream = <<>>
    /\ lastId = 0
    /\ pel = {}
    /\ call = [r \in Requests |-> "none"]
    /\ balance = StartPoints
    /\ payments = {}
    /\ api = [r \in Requests |-> "idle"]
    /\ pc = [w \in Workers |-> "idle"]
    /\ batch = [w \in Workers |-> <<>>]
    /\ tx = [w \in Workers |-> "none"]
    /\ why = [w \in Workers |-> "PAYMENT_FAILED"]

-----------------------------------------------------------------------------
(* POST /booking-requests: one transaction, then XADD.  Nothing undoes the *)
(* row when the XADD does not happen.                                      *)

CreateRequest(r, b) ==
    /\ api[r] = "idle"
    /\ api' = [api EXCEPT ![r] = "inserted"]
    /\ body' = [body EXCEPT ![r] = b]
    /\ status' = [status EXCEPT ![r] = "PENDING"]
    /\ UNCHANGED <<reason, linked, bookings, redisVars, paymentVars, workerVars>>

Publish(r) ==
    /\ api[r] = "inserted"
    /\ api' = [api EXCEPT ![r] = "done"]
    /\ stream' = Append(stream, r)
    /\ UNCHANGED <<dbVars, lastId, pel, paymentVars, workerVars>>

PublishFails(r) ==
    /\ "api" \in Faults
    /\ api[r] = "inserted"
    /\ api' = [api EXCEPT ![r] = "lost"]
    /\ UNCHANGED <<dbVars, redisVars, paymentVars, workerVars>>

-----------------------------------------------------------------------------
(* The worker's loop: XREADGROUP with ">", which delivers an entry once.   *)

NextBatch ==
    LET backlog == Len(stream) - lastId
        n == IF backlog < BatchSize THEN backlog ELSE BatchSize
    IN  SubSeq(stream, lastId + 1, lastId + n)

\* Mutant: the count asked for is taken for the count received.
DeliverPastEnd ==
    /\ lastId < Len(stream)
    /\ lastId' = lastId + BatchSize
    /\ pel' = pel \cup {NextBatch[i] : i \in DOMAIN NextBatch}
    /\ UNCHANGED stream

\* Mutant: XREADGROUP ... NOACK.
DeliverNoAck ==
    /\ lastId < Len(stream)
    /\ lastId' = lastId + Len(NextBatch)
    /\ UNCHANGED <<stream, pel>>

\* Mutant: a read that does not advance the group (XREAD, or a stale id).
DeliverAgain ==
    /\ lastId < Len(stream)
    /\ pel' = pel \cup {NextBatch[i] : i \in DOMAIN NextBatch}
    /\ UNCHANGED <<stream, lastId>>

Deliver ==
    /\ lastId < Len(stream)
    /\ lastId' = lastId + Len(NextBatch)
    /\ pel' = pel \cup {NextBatch[i] : i \in DOMAIN NextBatch}
    /\ UNCHANGED stream

ReadBatch(w) ==
    /\ pc[w] = "idle"
    /\ Deliver
    /\ batch' = [batch EXCEPT ![w] = NextBatch]
    /\ pc' = [pc EXCEPT ![w] = "begin"]
    /\ UNCHANGED <<dbVars, paymentVars, api, tx, why>>

\* "except Exception: continue": the group has delivered, nobody has received.
ReadAnswerLost(w) ==
    /\ "read" \in Faults
    /\ pc[w] = "idle"
    /\ Deliver
    /\ UNCHANGED <<dbVars, paymentVars, api, workerVars>>

\* Mutant: the loop leaves the batch after its first message.
AckAndBreak(w) ==
    /\ pc[w] = "ack"
    /\ pel' = pel \ {Current(w)}
    /\ batch' = [batch EXCEPT ![w] = <<>>]
    /\ pc' = [pc EXCEPT ![w] = "idle"]
    /\ UNCHANGED <<dbVars, stream, lastId, paymentVars, api, tx, why>>

\* After a message: the next one of the batch, or the next XREADGROUP.
Ack(w) ==
    /\ pc[w] = "ack"
    /\ pel' = pel \ {Current(w)}
    /\ batch' = [batch EXCEPT ![w] = Tail(@)]
    /\ pc' = [pc EXCEPT ![w] = IF Len(batch[w]) = 1 THEN "idle" ELSE "begin"]
    /\ UNCHANGED <<dbVars, stream, lastId, paymentVars, api, tx, why>>

-----------------------------------------------------------------------------
(* process(): one transaction around two databases and two services.       *)

Goto(w, label) == pc' = [pc EXCEPT ![w] = label]

LockFree(k) == \A v \in Workers : tx[v] = "open" => body[Current(v)].key # k

\* Mutant: no advisory lock.
NoSeatLock(w) ==
    /\ pc[w] = "begin"
    /\ tx[w] = "none"
    /\ tx' = [tx EXCEPT ![w] = "open"]
    /\ Goto(w, "check")
    /\ UNCHANGED <<dbVars, redisVars, paymentVars, api, batch, why>>

\* pg_advisory_xact_lock: held until the transaction ends.  The update to
\* PROCESSING is overwritten before the COMMIT, so no other session sees it.
AcquireSeatLock(w) ==
    /\ pc[w] = "begin"
    /\ tx[w] = "none"
    /\ LockFree(body[Current(w)].key)
    /\ tx' = [tx EXCEPT ![w] = "open"]
    /\ Goto(w, "check")
    /\ UNCHANGED <<dbVars, redisVars, paymentVars, api, batch, why>>

\* Under READ COMMITTED this statement sees what committed before it.
CheckSeat(w) ==
    /\ pc[w] = "check"
    /\ tx[w] = "open"
    /\ IF Booked(Seat(Current(w)))
       THEN Goto(w, "reject") /\ why' = [why EXCEPT ![w] = "SEAT_ALREADY_BOOKED"]
       ELSE Goto(w, "lookup") /\ UNCHANGED why
    /\ UNCHANGED <<dbVars, redisVars, paymentVars, api, batch, tx>>

\* Performance and seat are read from event-service, and the deduction sent.
SendDeduct(w) ==
    /\ pc[w] = "lookup"
    /\ call' = [call EXCEPT ![Current(w)] = "sent"]
    /\ Goto(w, "paying")
    /\ UNCHANGED <<dbVars, redisVars, balance, payments, api, batch, tx, why>>

\* Mutant: the status code of the answer is not looked at.
ReceiveAnything(w) ==
    /\ pc[w] = "paying"
    /\ call[Current(w)] \in {"paid", "insufficient", "error"}
    /\ Goto(w, "insert")
    /\ UNCHANGED <<dbVars, redisVars, paymentVars, api, batch, tx, why>>

ReceivePaid(w) ==
    /\ pc[w] = "paying"
    /\ call[Current(w)] = "paid"
    /\ Goto(w, "insert")
    /\ UNCHANGED <<dbVars, redisVars, paymentVars, api, batch, tx, why>>

\* Mutant: the two reasons are swapped.
ReceiveRefusalSwapped(w) ==
    /\ pc[w] = "paying"
    /\ call[Current(w)] \in {"insufficient", "error"}
    /\ why' = [why EXCEPT ![w] = IF call[Current(w)] = "error"
                                  THEN "INSUFFICIENT_POINTS" ELSE "PAYMENT_FAILED"]
    /\ Goto(w, "reject")
    /\ UNCHANGED <<dbVars, redisVars, paymentVars, api, batch, tx>>

ReceiveRefusal(w) ==
    /\ pc[w] = "paying"
    /\ call[Current(w)] \in {"insufficient", "error"}
    /\ why' = [why EXCEPT ![w] = IF call[Current(w)] = "insufficient"
                                  THEN "INSUFFICIENT_POINTS" ELSE "PAYMENT_FAILED"]
    /\ Goto(w, "reject")
    /\ UNCHANGED <<dbVars, redisVars, paymentVars, api, batch, tx>>

\* Mutant: something after the COMMIT, still inside the try, may raise.
AfterCommitRaises == {"ack", "failing"}

\* Where a worker goes once its COMMIT is done: on, or, when the answer is
\* lost, into the handler that takes the request for failed.
AfterCommit == {"ack"} \cup (IF "answer" \in Faults THEN {"failing"} ELSE {})

SetRequestStatus(r, s, f) ==
    /\ status' = [status EXCEPT ![r] = s]
    /\ reason' = [reason EXCEPT ![r] = f]

EndTx(w) == tx' = [tx EXCEPT ![w] = "none"]

NewBooking(r) == [request |-> r, user |-> User(r), seat |-> Seat(r), paid |-> Cost(r)]

\* Mutant: an INSERT without ON CONFLICT, into a table without the UNIQUE.
ConfirmAnyway(w) ==
    LET r == Current(w) IN
    /\ pc[w] = "insert"
    /\ tx[w] = "open"
    /\ bookings' = bookings \cup {NewBooking(r)}
    /\ linked' = linked \cup {r}
    /\ SetRequestStatus(r, "CONFIRMED", "NULL")
    /\ \E next \in AfterCommit : Goto(w, next)
    /\ EndTx(w)
    /\ UNCHANGED <<body, redisVars, paymentVars, api, batch, why>>

\* INSERT ... ON CONFLICT DO NOTHING found the seat free; CONFIRMED; COMMIT.
Confirm(w) ==
    LET r == Current(w) IN
    /\ pc[w] = "insert"
    /\ tx[w] = "open"
    /\ ~Booked(Seat(r))
    /\ bookings' = bookings \cup {NewBooking(r)}
    /\ linked' = linked \cup {r}
    /\ SetRequestStatus(r, "CONFIRMED", "NULL")
    /\ \E next \in AfterCommit : Goto(w, next)
    /\ EndTx(w)
    /\ UNCHANGED <<body, redisVars, paymentVars, api, batch, why>>

\* The INSERT returned no row: someone else's booking holds the seat.
InsertConflicts(w) ==
    /\ pc[w] = "insert"
    /\ tx[w] = "open"
    /\ Booked(Seat(Current(w)))
    /\ why' = [why EXCEPT ![w] = "SEAT_ALREADY_BOOKED"]
    /\ Goto(w, "reject")
    /\ UNCHANGED <<dbVars, redisVars, paymentVars, api, batch, tx>>

\* set_request_status(FAILED, reason); return, which commits.
Reject(w) ==
    /\ pc[w] = "reject"
    /\ tx[w] = "open"
    /\ SetRequestStatus(Current(w), "FAILED", why[w])
    /\ \E next \in AfterCommit : Goto(w, next)
    /\ EndTx(w)
    /\ UNCHANGED <<body, linked, bookings, redisVars, paymentVars, api, batch, why>>

-----------------------------------------------------------------------------
(* Exceptions.  Leaving process() rolls its transaction back; the handler  *)
(* of main() then fails the request in a transaction of its own.           *)

\* Mutant: the exception is not caught, it only passes the finally clause.
RaiseUncaught(w) ==
    /\ Goto(w, "down")
    /\ EndTx(w)
    /\ pel' = pel \ {Current(w)}
    /\ batch' = [batch EXCEPT ![w] = <<>>]
    /\ UNCHANGED <<dbVars, stream, lastId, paymentVars, api, why>>

Raise(w) ==
    /\ Goto(w, "failing")
    /\ EndTx(w)
    /\ UNCHANGED <<dbVars, redisVars, paymentVars, api, batch, why>>

LookupFails(w) == "event" \in Faults /\ pc[w] = "lookup" /\ Raise(w)

\* No answer in time, or none at all: the call may still be carried out.
DeductTimesOut(w) == "timeout" \in Faults /\ pc[w] = "paying" /\ Raise(w)

\* The lock goes with the session; the worker learns at its next statement.
SessionCut(w) ==
    /\ "session" \in Faults
    /\ pc[w] \in InTx \cup {"begin"}
    /\ tx[w] # "broken"
    /\ tx' = [tx EXCEPT ![w] = "broken"]
    /\ UNCHANGED <<dbVars, redisVars, paymentVars, api, pc, batch, why>>

StatementFails(w) ==
    /\ tx[w] = "broken"
    /\ pc[w] \in {"begin", "check", "insert", "reject"}
    /\ Raise(w)

\* mark_failed; COALESCE leaves booking_id as it is.
MarkFailed(w) ==
    /\ pc[w] = "failing"
    /\ SetRequestStatus(Current(w), "FAILED", "WORKER_ERROR")
    /\ Goto(w, "ack")
    /\ UNCHANGED <<body, linked, bookings, redisVars, paymentVars, api, batch, tx, why>>

Die(w) ==
    /\ Goto(w, "down")
    /\ batch' = [batch EXCEPT ![w] = <<>>]
    /\ EndTx(w)

\* The finally clause acknowledges, then the exception ends the process.
MarkFailedRaises(w) ==
    /\ "markfail" \in Faults
    /\ pc[w] = "failing"
    /\ pel' = pel \ {Current(w)}
    /\ Die(w)
    /\ UNCHANGED <<dbVars, stream, lastId, paymentVars, api, why>>

\* A kill anywhere, an xack that raises included: the rest of the batch
\* stays in the PEL, which no code reads.
Crash(w) ==
    /\ "crash" \in Faults
    /\ pc[w] # "down"
    /\ Die(w)
    /\ UNCHANGED <<dbVars, redisVars, paymentVars, api, why>>

\* A new process, under a new consumer name; ensure_group finds its group.
Restart(w) ==
    /\ pc[w] = "down"
    /\ Goto(w, "idle")
    /\ UNCHANGED <<dbVars, redisVars, paymentVars, api, batch, tx, why>>

-----------------------------------------------------------------------------
(* payment-service, as one atomic step per call (PaymentService has the    *)
(* steps of the handler and shows that they amount to this).               *)

NewPayment(r) == [request |-> r, user |-> User(r), amount |-> Cost(r)]

\* What the caller of a deduction that was committed is told.
DeductAnswers == {"paid"} \cup (IF "payanswer" \in Faults THEN {"error"} ELSE {})

\* Mutant: the balance is not checked.
DeductOnCredit(r) ==
    /\ call[r] = "sent"
    /\ balance' = [balance EXCEPT ![User(r)] = @ - Cost(r)]
    /\ payments' = payments \cup {NewPayment(r)}
    /\ \E a \in DeductAnswers : call' = [call EXCEPT ![r] = a]
    /\ UNCHANGED <<dbVars, redisVars, api, workerVars>>

Deduct(r) ==
    /\ call[r] = "sent"
    /\ Cost(r) <= balance[User(r)]
    /\ balance' = [balance EXCEPT ![User(r)] = @ - Cost(r)]
    /\ payments' = payments \cup {NewPayment(r)}
    /\ \E a \in DeductAnswers : call' = [call EXCEPT ![r] = a]
    /\ UNCHANGED <<dbVars, redisVars, api, workerVars>>

RefuseDeduct(r) ==
    /\ call[r] = "sent"
    /\ balance[User(r)] < Cost(r)
    /\ call' = [call EXCEPT ![r] = "insufficient"]
    /\ UNCHANGED <<dbVars, redisVars, balance, payments, api, workerVars>>

DeductFails(r) ==
    /\ "payment" \in Faults
    /\ call[r] = "sent"
    /\ call' = [call EXCEPT ![r] = "error"]
    /\ UNCHANGED <<dbVars, redisVars, balance, payments, api, workerVars>>

-----------------------------------------------------------------------------
ApiStep(r)     == (\E b \in Inputs : CreateRequest(r, b)) \/ Publish(r) \/ PublishFails(r)
PaymentStep(r) == Deduct(r) \/ RefuseDeduct(r) \/ DeductFails(r)

\* What a worker does by itself; the failures that happen to it are below.
WorkerStep(w) ==
    \/ ReadBatch(w) \/ Ack(w)
    \/ AcquireSeatLock(w) \/ CheckSeat(w) \/ SendDeduct(w)
    \/ ReceivePaid(w) \/ ReceiveRefusal(w)
    \/ Confirm(w) \/ InsertConflicts(w) \/ Reject(w)
    \/ StatementFails(w) \/ MarkFailed(w) \/ Restart(w)

WorkerFault(w) ==
    \/ ReadAnswerLost(w) \/ LookupFails(w) \/ DeductTimesOut(w)
    \/ SessionCut(w) \/ MarkFailedRaises(w) \/ Crash(w)

Next ==
    \/ \E r \in Requests : ApiStep(r) \/ PaymentStep(r)
    \/ \E w \in Workers : WorkerStep(w) \/ WorkerFault(w)

Spec == Init /\ [][Next]_vars

\* Processes are scheduled and calls are answered; users need not act and
\* failures need not happen.
Fairness ==
    /\ \A r \in Requests : WF_vars(Publish(r)) /\ WF_vars(PaymentStep(r))
    /\ \A w \in Workers : WF_vars(WorkerStep(w))

FairSpec == Spec /\ Fairness

-----------------------------------------------------------------------------
(* What the pipeline promises, whatever fails.                             *)

\* A seat of a performance date is sold once: two workers may both have seen
\* it free (two lock keys, a cut session), and ON CONFLICT DO NOTHING decides.
OneBookingPerSeat ==
    \A a, b \in bookings : a.seat = b.seat => a = b

\* A poll that says CONFIRMED speaks of a booking of that user for that seat,
\* and every booking was paid for by its user at the price of the seat, across
\* two databases that no transaction spans.
ConfirmedIsBookedAndPaid ==
    /\ \A r \in Requests : status[r] = "CONFIRMED" =>
          r \in linked /\ NewBooking(r) \in bookings
    /\ \A b \in bookings :
          [request |-> b.request, user |-> b.user, amount |-> b.paid] \in payments

\* The reason a client is shown is true, and stays true: the seat is someone
\* else's, or the user cannot afford it and has not paid.  PAYMENT_FAILED says
\* that payment-service answered with an error and no more: an error may hide
\* points that were taken.  (WORKER_ERROR says nothing at all.)
RefusalIsTrue ==
    \A r \in Requests :
        /\ reason[r] = "SEAT_ALREADY_BOOKED" =>
              \E b \in bookings : b.seat = Seat(r) /\ b.request # r
        /\ reason[r] = "INSUFFICIENT_POINTS" => balance[User(r)] < Cost(r) /\ ~Paid(r)
        /\ reason[r] = "PAYMENT_FAILED" => call[r] = "error"

\* No two workers, and no worker twice, process one request: what a worker has
\* left of its batch is pending, and of nobody else.
DeliveredToOne ==
    \A w, v \in Workers : \A i \in DOMAIN batch[w], j \in DOMAIN batch[v] :
        /\ batch[w][i] \in pel
        /\ batch[w][i] = batch[v][j] => w = v /\ i = j

-----------------------------------------------------------------------------
(* What it promises while some failures stay away (each run says which).   *)

\* Points are taken only for a seat: a request that failed was not charged.
\* Needs one lock key per seat, a session that outlives the HTTP call, a caller
\* that waits for its answer, and an error that means a rollback.
FailedIsNotCharged ==
    \A r \in Requests : status[r] = "FAILED" => ~Paid(r)

\* An entry leaves the PEL only when its request is decided: XACK in the
\* finally clause comes after the outcome or mark_failed was committed.
AckedIsDecided ==
    \A i \in 1..lastId : stream[i] \notin pel => status[stream[i]] \in Terminal

\* A pending entry is in the hands of a live worker, so someone will decide it.
NothingOrphaned ==
    \A r \in pel : \E w \in Workers : \E i \in DOMAIN batch[w] : batch[w][i] = r

\* FAILED means that no booking was made.
FailedHasNoBooking ==
    \A r \in Requests : status[r] = "FAILED" => ~HasBooking(r)

\* A client stops polling at CONFIRMED or FAILED: neither is ever revised,
\* although set_request_status updates the row unconditionally.
TerminalIsFinal ==
    [][\A r \in Requests : status[r] \in Terminal =>
          status'[r] = status[r] /\ reason'[r] = reason[r]]_vars

\* A booking request reaches CONFIRMED or FAILED.
EveryRequestIsDecided ==
    \A r \in Requests : status[r] = "PENDING" ~> status[r] \in Terminal

-----------------------------------------------------------------------------
\* The sale of seats the pipeline implements.
Owner == [s \in Seats |-> IF Booked(s)
                          THEN (CHOOSE b \in bookings : b.seat = s).request
                          ELSE Null]
Wanted == [r \in Requests |-> IF body[r] = Null THEN Null ELSE Seat(r)]

Sale == INSTANCE SeatSale WITH outcome <- status, wanted <- Wanted, owner <- Owner

\* Every step of the pipeline sells a free seat to a pending request, fails a
\* pending request, submits one, or changes none of it.
SaleImplemented == Sale!Spec

\* The calls of the pipeline as calls of the payment ledger.
Ledger == INSTANCE PaymentLedger WITH
    Calls   <- Requests,
    Amounts <- {Price[s] : s \in Seats},
    task    <- [r \in Requests |-> IF call[r] = "none" THEN Null ELSE NewPayment(r)],
    answer  <- [r \in Requests |-> IF call[r] = "sent" THEN "none" ELSE call[r]],
    points  <- balance,
    paid    <- payments

\* What the pipeline takes payment-service to do is what PaymentService has
\* been shown to do, calls that nobody waits for any more included.
PaymentAssumed == Ledger!Spec
=============================================================================
