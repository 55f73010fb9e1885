------------------------ MODULE BookingChargeProofs ------------------------
(***************************************************************************)
(* Proofs about what BookingPipeline does with money and with refusals:    *)
(* the reason a client is shown is true, a failed request is not charged,  *)
(* and no pending entry is orphaned.  They rest on the invariants of       *)
(* BookingPipelineProofs.                                                  *)
(***************************************************************************)
EXTENDS BookingPipelineProofs

\* A request nobody has taken up yet: in a batch behind the current one,
\* published and not delivered, or not published.
Untouched(r) ==
    \/ api[r] # "done"
    \/ \E i \in 1..Len(stream) : lastId < i /\ stream[i] = r
    \/ \E w \in Workers : \E i \in 1..Len(batch[w]) : i # 1 /\ batch[w][i] = r

\* Points are asked for once per request, after "lookup", and a seat is booked
\* by nobody who has not got through "insert".
FreshInv ==
    /\ \A r \in Requests : Untouched(r) => call[r] = "none" /\ ~HasBooking(r)
    /\ \A w \in Workers : pc[w] \in {"begin", "check", "lookup"} => call[Current(w)] = "none"
    /\ \A w \in Workers : pc[w] \in {"begin"} \cup InTx => ~HasBooking(Current(w))

\* The seat of r is somebody else's.
SoldElsewhere(r) == \E b \in bookings : b.seat = Seat(r) /\ b.request # r

\* What stands behind each reason, in the row and in the worker about to write it.
Backed(r, f) ==
    /\ f = "SEAT_ALREADY_BOOKED" => SoldElsewhere(r)
    /\ f = "INSUFFICIENT_POINTS" => call[r] = "insufficient"
    /\ f = "PAYMENT_FAILED" => call[r] = "error"

RefusalInv ==
    /\ \A r \in Requests : Paid(r) => call[r] \in DeductAnswers
    /\ \A r \in Requests : call[r] = "insufficient" => balance[User(r)] < Cost(r)
    /\ \A r \in Requests : Backed(r, reason[r]) /\ (api[r] # "done" => reason[r] = "NULL")
    /\ \A w \in Workers : pc[w] = "reject" => Backed(Current(w), why[w])

\* A date is spelled in one way, so that a seat has one lock key.
OneKeyPerSeat == \A a, b \in Inputs : a.seat = b.seat => a.key = b.key

\* Where no session is cut, a worker in its transaction holds the lock of its
\* seat, and nobody else does; what it has seen free stays free.
LockInv ==
    /\ \A w \in Workers : tx[w] = IF pc[w] \in InTx THEN "open" ELSE "none"
    /\ \A v, w \in Workers :
          v # w /\ tx[v] = "open" /\ tx[w] = "open" => Seat(Current(v)) # Seat(Current(w))
    /\ \A w \in Workers : pc[w] \in {"lookup", "paying", "insert"} => ~Booked(Seat(Current(w)))

\* Whoever failed, or is about to, has no deduction under way, and none made
\* but one that payment-service answered with an error.
Unpaid == {"none", "insufficient", "error"}
ChargeInv ==
    /\ \A r \in Requests : status[r] = "FAILED" => call[r] \in Unpaid
    /\ \A w \in Workers : pc[w] \in {"reject", "failing"} => call[Current(w)] \in Unpaid

-----------------------------------------------------------------------------
\* What a worker has at hand was delivered, and is nobody else's.
LEMMA CurrentIsTaken ==
    ASSUME Plumb, NEW w \in Workers, pc[w] \notin {"idle", "down"}
    PROVE  /\ ~Untouched(Current(w))
           /\ \A v \in Workers :
                 pc[v] \notin {"idle", "down"} /\ Current(v) = Current(w) => v = w
<1>1. /\ Current(w) = batch[w][1] /\ Len(batch[w]) \in Nat \ {0}
      /\ Current(w) \in pel /\ api[Current(w)] = "done"
  BY CurrentIsPublished
<1>2. \A v \in Workers : batch[v] \in Seq(Requests) /\ DOMAIN batch[v] = 1..Len(batch[v])
  BY DEF Plumb, TypeOK
<1>3. ASSUME NEW v \in Workers, NEW i \in 1..Len(batch[v]), batch[v][i] = Current(w)
      PROVE  v = w /\ i = 1
  <2>1. 1 \in DOMAIN batch[w] /\ i \in DOMAIN batch[v]
    BY <1>1, <1>2
  <2> QED
    BY <1>1, <1>3, <2>1 DEF Plumb, DeliveredToOne
<1>4. ASSUME NEW i \in 1..Len(stream), lastId < i
      PROVE  stream[i] # Current(w)
  <2>1. PICK j \in 1..lastId : stream[j] = Current(w)
    BY <1>1 DEF Plumb, StreamInv
  <2>2. j \in 1..Len(stream) /\ j # i
    BY <1>4 DEF Plumb, TypeOK
  <2> QED
    BY <2>1, <2>2 DEF Plumb, StreamInv
<1>5. ASSUME NEW v \in Workers, pc[v] \notin {"idle", "down"}, Current(v) = Current(w)
      PROVE  v = w
  <2>1. Current(v) = batch[v][1] /\ 1 \in 1..Len(batch[v])
    BY <1>5, CurrentIsPublished
  <2> QED
    BY <1>3, <1>5, <2>1
<1> QED
  BY <1>1, <1>3, <1>4, <1>5 DEF Untouched

\* What a worker does next.
LEMMA WorkerMoves ==
    ASSUME Plumb, [Next]_vars, NEW w \in Workers
    PROVE  \/ pc'[w] = pc[w] /\ batch'[w] = batch[w] /\ why'[w] = why[w]
           \/ ReadBatch(w) \/ Ack(w)
           \/ pc'[w] \in {"idle", "down"}
           \/ /\ batch'[w] = batch[w]
              /\ \/ AcquireSeatLock(w) \/ CheckSeat(w) \/ SendDeduct(w)
                 \/ ReceivePaid(w) \/ ReceiveRefusal(w)
                 \/ Confirm(w) \/ InsertConflicts(w) \/ Reject(w) \/ MarkFailed(w)
                 \/ StatementFails(w) \/ LookupFails(w) \/ DeductTimesOut(w)
<1> USE DEF vars, workerVars
<1>1. CASE WorkerStep(w) \/ WorkerFault(w)
  <2>1. CASE Restart(w) \/ MarkFailedRaises(w) \/ Crash(w)
    BY <2>1 DEF Restart, MarkFailedRaises, Crash, Die, Goto, Plumb, TypeOK
  <2>2. CASE ReadAnswerLost(w) \/ SessionCut(w)
    BY <2>2 DEF ReadAnswerLost, SessionCut
  <2>3. CASE \/ AcquireSeatLock(w) \/ CheckSeat(w) \/ SendDeduct(w)
             \/ ReceivePaid(w) \/ ReceiveRefusal(w)
             \/ Confirm(w) \/ InsertConflicts(w) \/ Reject(w) \/ MarkFailed(w)
             \/ StatementFails(w) \/ LookupFails(w) \/ DeductTimesOut(w)
    BY <2>3 DEF AcquireSeatLock, CheckSeat, SendDeduct, ReceivePaid, ReceiveRefusal, Confirm,
                InsertConflicts, Reject, MarkFailed, StatementFails, LookupFails, DeductTimesOut, Raise
  <2> QED
    BY <1>1, <2>1, <2>2, <2>3 DEF WorkerStep, WorkerFault
<1>2. ASSUME NEW v \in Workers, v # w, WorkerStep(v) \/ WorkerFault(v)
      PROVE  pc'[w] = pc[w] /\ batch'[w] = batch[w] /\ why'[w] = why[w]
  BY <1>2 DEF WorkerStep, WorkerFault, ReadBatch, ReadAnswerLost, Ack, AcquireSeatLock, CheckSeat,
        SendDeduct, ReceivePaid, ReceiveRefusal, Confirm, InsertConflicts, Reject, MarkFailed,
        StatementFails, LookupFails, DeductTimesOut, SessionCut, MarkFailedRaises, Crash, Restart,
        Raise, Die, Goto, Plumb, TypeOK
<1>3. \/ \E v \in Workers : WorkerStep(v) \/ WorkerFault(v)
      \/ UNCHANGED workerVars
  BY DEF Next, ApiStep, PaymentStep, CreateRequest, Publish, PublishFails, Deduct, RefuseDeduct, DeductFails
<1> QED
  BY <1>1, <1>2, <1>3

\* What becomes of the call made for a request.
LEMMA CallSteps ==
    ASSUME Plumb, [Next]_vars, NEW r \in Requests
    PROVE  \/ call'[r] = call[r]
           \/ call[r] = "sent" /\ PaymentStep(r)
           \/ \E w \in Workers : SendDeduct(w) /\ r = Current(w)
<1>1. ASSUME NEW q \in Requests, PaymentStep(q)
      PROVE  call'[r] = call[r] \/ (q = r /\ call[r] = "sent")
  BY <1>1, DeductIsAnswered DEF PaymentStep, Deduct, RefuseDeduct, DeductFails, Plumb, TypeOK
<1>2. ASSUME NEW w \in Workers, SendDeduct(w)
      PROVE  call'[r] = call[r] \/ r = Current(w)
  BY <1>2 DEF SendDeduct, Plumb, TypeOK
<1>3. \/ \E q \in Requests : PaymentStep(q)
      \/ \E w \in Workers : SendDeduct(w)
      \/ UNCHANGED call
  BY DEF Next, ApiStep, WorkerStep, WorkerFault, Raise, vars, paymentVars,
        CreateRequest, Publish, PublishFails, ReadBatch, ReadAnswerLost, Ack, AcquireSeatLock, CheckSeat,
        ReceivePaid, ReceiveRefusal, Confirm, InsertConflicts, Reject, MarkFailed, LookupFails,
        DeductTimesOut, SessionCut, StatementFails, MarkFailedRaises, Crash, Restart
<1> QED
  BY <1>1, <1>2, <1>3

\* Bookings stay, and are added by Confirm.
LEMMA BookingSteps ==
    ASSUME [Next]_vars
    PROVE  /\ bookings \subseteq bookings'
           /\ \A b \in bookings' : \/ b \in bookings
                                   \/ \E w \in Workers : Confirm(w) /\ b = NewBooking(Current(w))
  BY DEF Next, ApiStep, PaymentStep, WorkerStep, WorkerFault, Raise, vars, dbVars,
        CreateRequest, Publish, PublishFails, Deduct, RefuseDeduct, DeductFails,
        ReadBatch, ReadAnswerLost, Ack, AcquireSeatLock, CheckSeat, SendDeduct,
        ReceivePaid, ReceiveRefusal, Confirm, InsertConflicts, Reject, MarkFailed, LookupFails,
        DeductTimesOut, SessionCut, StatementFails, MarkFailedRaises, Crash, Restart

\* The columns of a row never change.
LEMMA BodyStays ==
    ASSUME Plumb, [Next]_vars, NEW r \in Requests, api[r] # "idle"
    PROVE  /\ body'[r] = body[r] /\ body[r] \in Inputs /\ api'[r] # "idle"
           /\ api[r] = "done" => api'[r] = "done"
           /\ User(r)' = User(r) /\ Seat(r)' = Seat(r) /\ Cost(r)' = Cost(r)
<1>1. ASSUME NEW q \in Requests, NEW b \in Inputs, CreateRequest(q, b)
      PROVE  body'[r] = body[r] /\ api'[r] = api[r]
  BY <1>1 DEF CreateRequest, Plumb, TypeOK
<1>2. ASSUME NEW q \in Requests, Publish(q) \/ PublishFails(q)
      PROVE  /\ body'[r] = body[r] /\ api'[r] # "idle"
             /\ api[r] = "done" => api'[r] = "done"
  BY <1>2 DEF Publish, PublishFails, dbVars, Plumb, TypeOK
<1>3. \/ \E q \in Requests, b \in Inputs : CreateRequest(q, b)
      \/ \E q \in Requests : Publish(q) \/ PublishFails(q)
      \/ UNCHANGED <<body, api>>
  BY DEF Next, ApiStep, PaymentStep, WorkerStep, WorkerFault, Raise, vars, dbVars,
        Deduct, RefuseDeduct, DeductFails, ReadBatch, ReadAnswerLost, Ack, AcquireSeatLock, CheckSeat,
        SendDeduct, ReceivePaid, ReceiveRefusal, Confirm, InsertConflicts, Reject, MarkFailed,
        LookupFails, DeductTimesOut, SessionCut, StatementFails, MarkFailedRaises, Crash, Restart
<1>4. body[r] \in Inputs
  BY DEF Plumb, RowsInv, TypeOK
<1> QED
  BY <1>1, <1>2, <1>3, <1>4 DEF User, Seat, Cost
\* Nothing untouched comes back: a request is delivered once, and a worker's
\* batch gets shorter from the front.
LEMMA UntouchedBefore ==
    ASSUME Plumb, [Next]_vars, NEW r \in Requests, Untouched(r)'
    PROVE  Untouched(r)
<1> USE DEF vars, redisVars, workerVars
<1>1. /\ stream \in Seq(Requests) /\ Len(stream) \in Nat /\ lastId \in Nat /\ lastId <= Len(stream)
      /\ batch \in [Workers -> Seq(Requests)]
  BY DEF Plumb, TypeOK
<1>2. ASSUME NEW q \in Requests, Publish(q)
      PROVE  Untouched(r)
  <2>1. /\ stream' = Append(stream, q) /\ api[q] # "done" /\ UNCHANGED <<lastId, batch>>
        /\ \A x \in Requests : x # q => api'[x] = api[x]
    BY <1>2 DEF Publish, Plumb, TypeOK
  <2>2. \A i \in 1..Len(stream') : (i <= Len(stream) /\ stream'[i] = stream[i]) \/ stream'[i] = q
    BY <1>1, <2>1
  <2>3. Len(stream') = Len(stream) + 1
    BY <1>1, <2>1
  <2>4. CASE r = q
    BY <2>1, <2>4 DEF Untouched
  <2>5. CASE r # q /\ api'[r] # "done"
    BY <2>1, <2>5 DEF Untouched
  <2>6. ASSUME r # q, NEW i \in 1..Len(stream'), lastId < i, stream'[i] = r
        PROVE  Untouched(r)
    <3>1. i <= Len(stream) /\ stream[i] = r
      BY <2>2, <2>6
    <3>2. i \in 1..Len(stream)
      BY <1>1, <2>3, <3>1
    <3> QED
      BY <2>6, <3>1, <3>2 DEF Untouched
  <2>7. ASSUME NEW v \in Workers, NEW i \in 1..Len(batch[v]), i # 1, batch[v][i] = r
        PROVE  Untouched(r)
    BY <2>7 DEF Untouched
  <2>8. \/ api'[r] # "done"
        \/ \E i \in 1..Len(stream') : lastId < i /\ stream'[i] = r
        \/ \E v \in Workers : \E i \in 1..Len(batch[v]) : i # 1 /\ batch[v][i] = r
    BY <2>1 DEF Untouched
  <2> QED
    BY <2>4, <2>5, <2>6, <2>7, <2>8
<1>3. ASSUME NEW w \in Workers, ReadBatch(w) \/ ReadAnswerLost(w)
      PROVE  Untouched(r)
  <2>1. /\ lastId + Len(NextBatch) \in 0..Len(stream) /\ Len(NextBatch) \in Nat \ {0}
        /\ \A i \in 1..Len(NextBatch) : NextBatch[i] = stream[lastId + i]
        /\ lastId' = lastId + Len(NextBatch) /\ UNCHANGED <<stream, api>>
    BY <1>3, NextBatchFacts DEF ReadBatch, ReadAnswerLost, Deliver
  <2>2. \A v \in Workers : batch'[v] = batch[v] \/ batch'[v] = NextBatch
    BY <1>1, <1>3 DEF ReadBatch, ReadAnswerLost
  <2>3. ASSUME NEW i \in 1..Len(NextBatch), NextBatch[i] = r
        PROVE  Untouched(r)
    <3>1. lastId + i \in 1..Len(stream) /\ lastId < lastId + i /\ stream[lastId + i] = r
      BY <1>1, <2>1, <2>3
    <3> QED
      BY <3>1 DEF Untouched
  <2>4. ASSUME NEW i \in 1..Len(stream), lastId' < i, stream[i] = r
        PROVE  Untouched(r)
    <3>1. lastId < i
      BY <1>1, <2>1, <2>4
    <3> QED
      BY <2>4, <3>1 DEF Untouched
  <2>5. ASSUME NEW v \in Workers, NEW i \in 1..Len(batch'[v]), i # 1, batch'[v][i] = r
        PROVE  Untouched(r)
    <3>1. CASE batch'[v] = batch[v]
      BY <2>5, <3>1 DEF Untouched
    <3>2. CASE batch'[v] = NextBatch
      BY <2>3, <2>5, <3>2
    <3> QED
      BY <2>2, <3>1, <3>2
  <2>6. CASE api[r] # "done"
    BY <2>6 DEF Untouched
  <2>7. \/ api[r] # "done"
        \/ \E i \in 1..Len(stream) : lastId' < i /\ stream[i] = r
        \/ \E v \in Workers : \E i \in 1..Len(batch'[v]) : i # 1 /\ batch'[v][i] = r
    BY <2>1 DEF Untouched
  <2> QED
    BY <2>4, <2>5, <2>6, <2>7
<1>4. ASSUME NEW w \in Workers, Ack(w)
      PROVE  Untouched(r)
  <2>1. Len(batch[w]) \in Nat \ {0} /\ UNCHANGED <<stream, lastId, api>>
    BY <1>4, CurrentIsPublished DEF Ack
  <2>2. \A v \in Workers : batch'[v] = IF v = w THEN Tail(batch[w]) ELSE batch[v]
    BY <1>1, <1>4 DEF Ack
  <2>3. /\ Len(Tail(batch[w])) = Len(batch[w]) - 1
        /\ \A i \in 1..Len(Tail(batch[w])) : Tail(batch[w])[i] = batch[w][i + 1]
    BY <1>1, <2>1
  <2>4. ASSUME NEW i \in 1..Len(Tail(batch[w])), Tail(batch[w])[i] = r
        PROVE  Untouched(r)
    <3>1. i + 1 \in 1..Len(batch[w]) /\ i + 1 # 1
      BY <2>1, <2>3
    <3> QED
      BY <2>3, <2>4, <3>1 DEF Untouched
  <2> QED
    BY <2>1, <2>2, <2>4 DEF Untouched
<1>5. ASSUME UNCHANGED <<stream, lastId>>, \A x \in Requests : api'[x] = "done" \/ api[x] # "done",
             \A v \in Workers : batch'[v] = <<>> \/ batch'[v] = batch[v]
      PROVE  Untouched(r)
  BY <1>5 DEF Untouched
<1>6. ASSUME NEW q \in Requests, PaymentStep(q) \/ PublishFails(q) \/ \E b \in Inputs : CreateRequest(q, b)
      PROVE  Untouched(r)
  BY <1>5, <1>6 DEF PaymentStep, Deduct, RefuseDeduct, DeductFails, PublishFails, CreateRequest, Plumb, TypeOK
<1>7. ASSUME NEW w \in Workers, WorkerStep(w) \/ WorkerFault(w), ~ReadBatch(w), ~ReadAnswerLost(w), ~Ack(w)
      PROVE  Untouched(r)
  <2>1. UNCHANGED <<stream, lastId, api>>
    BY <1>7 DEF WorkerStep, WorkerFault, Raise, AcquireSeatLock, CheckSeat, SendDeduct, ReceivePaid,
          ReceiveRefusal, Confirm, InsertConflicts, Reject, MarkFailed, LookupFails, DeductTimesOut,
          SessionCut, StatementFails, MarkFailedRaises, Crash, Restart
  <2>2. batch' = batch \/ batch' = [batch EXCEPT ![w] = <<>>]
    BY <1>7 DEF WorkerStep, WorkerFault, Raise, Die, AcquireSeatLock, CheckSeat, SendDeduct, ReceivePaid,
          ReceiveRefusal, Confirm, InsertConflicts, Reject, MarkFailed, LookupFails, DeductTimesOut,
          SessionCut, StatementFails, MarkFailedRaises, Crash, Restart
  <2> QED
    BY <1>1, <1>5, <2>1, <2>2
<1>8. CASE UNCHANGED vars
  BY <1>5, <1>8
<1> QED
  BY <1>2, <1>3, <1>4, <1>6, <1>7, <1>8 DEF Next, ApiStep

\* What comes after the first of two entries or more.
LEMMA SecondEntry ==
    ASSUME NEW S, NEW b \in Seq(S), Len(b) \in Nat \ {0, 1}
    PROVE  Head(Tail(b)) = b[2] /\ 2 \in 1..Len(b)
<1>1. b # <<>>
  OBVIOUS
<1>2. PICK t \in Seq(S) : /\ t = Tail(b) /\ Len(t) = Len(b) - 1
                          /\ \A i \in 1..Len(t) : t[i] = b[i + 1]
  BY <1>1, HeadTailProperties
<1>3. 1 \in 1..Len(t) /\ 1 + 1 = 2
  BY <1>2
<1>4. Head(t) = t[1]
  OBVIOUS
<1>5. t[1] = b[2]
  BY <1>2, <1>3
<1> QED
  BY <1>2, <1>4, <1>5

\* What a worker turns to was untouched until then.
LEMMA TakenUp ==
    ASSUME Plumb, NEW w \in Workers, ReadBatch(w) \/ Ack(w), pc'[w] # "idle"
    PROVE  /\ pc'[w] = "begin"
           /\ \E r \in Requests : Current(w)' = r /\ Untouched(r)
           /\ UNCHANGED <<dbVars, paymentVars, api>>
<1>1. /\ stream \in Seq(Requests) /\ Len(stream) \in Nat /\ lastId \in Nat
      /\ batch \in [Workers -> Seq(Requests)]
  BY DEF Plumb, TypeOK
<1>2. CASE ReadBatch(w)
  <2>1. /\ lastId + Len(NextBatch) \in 0..Len(stream) /\ Len(NextBatch) \in Nat \ {0}
        /\ NextBatch \in Seq(Requests) /\ \A i \in 1..Len(NextBatch) : NextBatch[i] = stream[lastId + i]
    BY <1>2, NextBatchFacts DEF ReadBatch, Deliver
  <2>2. batch'[w] = NextBatch /\ pc'[w] = "begin" /\ UNCHANGED <<dbVars, paymentVars, api>>
    BY <1>2 DEF ReadBatch, Plumb, TypeOK
  <2>3. PICK r \in Requests : r = NextBatch[1] /\ Current(w)' = r
    BY <2>1, <2>2 DEF Current
  <2>4. lastId + 1 \in 1..Len(stream) /\ lastId < lastId + 1 /\ stream[lastId + 1] = r
    BY <1>1, <2>1, <2>3
  <2> QED
    BY <2>2, <2>3, <2>4 DEF Untouched
<1>3. CASE Ack(w)
  <2>1. Len(batch[w]) \in Nat \ {0, 1} /\ batch'[w] = Tail(batch[w]) /\ pc'[w] = "begin"
        /\ UNCHANGED <<dbVars, paymentVars, api>>
    <3>1. Len(batch[w]) \in Nat \ {0} /\ pc'[w] = IF Len(batch[w]) = 1 THEN "idle" ELSE "begin"
      BY <1>3, CurrentIsPublished DEF Ack, Plumb, TypeOK
    <3> QED
      BY <1>1, <1>3, <3>1 DEF Ack
  <2>2. Current(w)' = batch[w][2] /\ 2 \in 1..Len(batch[w])
    BY <1>1, <2>1, SecondEntry DEF Current
  <2>3. batch[w][2] \in Requests
    BY <1>1, <2>2
  <2> QED
    BY <2>1, <2>2, <2>3 DEF Untouched
<1> QED
  BY <1>2, <1>3
-----------------------------------------------------------------------------
\* A call that was never made stays so, unless its worker makes it now.
LEMMA NoCallStays ==
    ASSUME Plumb, [Next]_vars, NEW r \in Requests, call[r] = "none",
           \A w \in Workers : SendDeduct(w) => Current(w) # r
    PROVE  call'[r] = "none"
  BY CallSteps

\* A request without a booking has none after the step, unless it is confirmed.
LEMMA NoBookingStays ==
    ASSUME Plumb, [Next]_vars, NEW r \in Requests, ~HasBooking(r),
           \A w \in Workers : Confirm(w) => Current(w) # r
    PROVE  ~HasBooking(r)'
  BY BookingSteps DEF HasBooking, NewBooking

\* FreshInv is inductive: what a worker takes up is untouched, and only its
\* worker makes a request's call and books its seat.
LEMMA FreshStep == Plumb /\ FreshInv /\ [Next]_vars => FreshInv'
<1> SUFFICES ASSUME Plumb, FreshInv, [Next]_vars PROVE FreshInv'
  OBVIOUS
<1>1. \A w \in Workers : SendDeduct(w) \/ Confirm(w) => pc[w] \notin {"idle", "down"}
  BY DEF SendDeduct, Confirm
<1>2. ASSUME NEW r \in Requests, Untouched(r)
      PROVE  call'[r] = "none" /\ ~HasBooking(r)'
  <2>1. \A w \in Workers : SendDeduct(w) \/ Confirm(w) => Current(w) # r
    BY <1>1, <1>2, CurrentIsTaken
  <2> QED
    BY <1>2, <2>1, NoCallStays, NoBookingStays DEF FreshInv
<1>3. \A r \in Requests : Untouched(r)' => call'[r] = "none" /\ ~HasBooking(r)'
  BY <1>2, UntouchedBefore
<1>4. ASSUME NEW w \in Workers, ReadBatch(w) \/ Ack(w), pc'[w] # "idle"
      PROVE  \E r \in Requests : Current(w)' = r /\ call'[r] = "none" /\ ~HasBooking(r)'
  BY <1>2, <1>4, TakenUp
<1>5. ASSUME NEW w \in Workers, batch'[w] = batch[w], pc[w] \notin {"idle", "down"}
      PROVE  /\ Current(w)' = Current(w) /\ Current(w) \in Requests
             /\ \A v \in Workers : SendDeduct(v) \/ Confirm(v) => v = w \/ Current(v) # Current(w)
  BY <1>1, <1>5, CurrentIsPublished, CurrentIsTaken DEF Current
<1>6. ASSUME NEW w \in Workers, pc'[w] \in {"begin", "check", "lookup"}
      PROVE  call'[Current(w)'] = "none"
  <2>1. ASSUME batch'[w] = batch[w], pc[w] \in {"begin", "check", "lookup"}, ~SendDeduct(w)
        PROVE  call'[Current(w)'] = "none"
    <3>1. call[Current(w)] = "none"
      BY <2>1 DEF FreshInv
    <3> QED
      BY <1>5, <2>1, <3>1, NoCallStays
  <2>2. CASE pc'[w] = pc[w] /\ batch'[w] = batch[w]
    <3>1. ~SendDeduct(w)
      BY <1>6, <2>2 DEF SendDeduct, Goto, Plumb, TypeOK
    <3> QED
      BY <1>6, <2>1, <2>2, <3>1
  <2>3. CASE (AcquireSeatLock(w) \/ CheckSeat(w)) /\ batch'[w] = batch[w]
    <3>1. pc[w] \in {"begin", "check"} /\ ~SendDeduct(w)
      BY <2>3 DEF AcquireSeatLock, CheckSeat, SendDeduct
    <3> QED
      BY <2>1, <2>3, <3>1
  <2>4. ASSUME \/ SendDeduct(w) \/ ReceivePaid(w) \/ ReceiveRefusal(w)
               \/ Confirm(w) \/ InsertConflicts(w) \/ Reject(w) \/ MarkFailed(w)
               \/ StatementFails(w) \/ LookupFails(w) \/ DeductTimesOut(w)
        PROVE  FALSE
    BY <1>6, <2>4 DEF SendDeduct, ReceivePaid, ReceiveRefusal, Confirm, InsertConflicts, Reject, MarkFailed,
          StatementFails, LookupFails, DeductTimesOut, Raise, AfterCommit, Goto, Plumb, TypeOK
  <2> QED
    BY <1>4, <1>6, <2>2, <2>3, <2>4, WorkerMoves
<1>7. ASSUME NEW w \in Workers, pc'[w] \in {"begin"} \cup InTx
      PROVE  ~HasBooking(Current(w))'
  <2>1. ASSUME batch'[w] = batch[w], pc[w] \in {"begin"} \cup InTx, ~Confirm(w)
        PROVE  ~HasBooking(Current(w))'
    <3>1. ~HasBooking(Current(w)) /\ pc[w] \notin {"idle", "down"}
      BY <2>1 DEF FreshInv, InTx
    <3>2. PICK r \in Requests : r = Current(w) /\ r = Current(w)'
      BY <1>5, <2>1, <3>1
    <3>3. ~HasBooking(r)'
      BY <1>5, <2>1, <3>1, <3>2, NoBookingStays
    <3> QED
      BY <3>2, <3>3 DEF HasBooking
  <2>2. CASE pc'[w] = pc[w] /\ batch'[w] = batch[w]
    <3>1. ~Confirm(w)
      BY <1>7, <2>2 DEF Confirm, AfterCommit, Goto, Plumb, TypeOK
    <3> QED
      BY <1>7, <2>1, <2>2, <3>1
  <2>3. CASE /\ batch'[w] = batch[w]
             /\ \/ AcquireSeatLock(w) \/ CheckSeat(w) \/ SendDeduct(w)
                \/ ReceivePaid(w) \/ ReceiveRefusal(w) \/ InsertConflicts(w)
    <3>1. pc[w] \in {"begin"} \cup InTx /\ ~Confirm(w)
      BY <2>3 DEF AcquireSeatLock, CheckSeat, SendDeduct, ReceivePaid, ReceiveRefusal, InsertConflicts,
            Confirm, Goto, InTx, Plumb, TypeOK
    <3> QED
      BY <2>1, <2>3, <3>1
  <2>4. ASSUME \/ Confirm(w) \/ Reject(w) \/ MarkFailed(w)
               \/ StatementFails(w) \/ LookupFails(w) \/ DeductTimesOut(w)
        PROVE  FALSE
    BY <1>7, <2>4 DEF Confirm, Reject, MarkFailed, StatementFails, LookupFails, DeductTimesOut,
          Raise, AfterCommit, Goto, InTx, Plumb, TypeOK
  <2>5. CASE ReadBatch(w) \/ Ack(w)
    <3>1. pc'[w] # "idle"
      BY <1>7 DEF InTx
    <3>2. PICK r \in Requests : Current(w)' = r /\ ~HasBooking(r)'
      BY <1>4, <2>5, <3>1
    <3> QED
      BY <3>2 DEF HasBooking
  <2>6. pc'[w] \notin {"idle", "down"}
    BY <1>7 DEF InTx
  <2> QED
    BY <2>2, <2>3, <2>4, <2>5, <2>6, WorkerMoves
<1> QED
  BY <1>3, <1>6, <1>7 DEF FreshInv
\* So it holds in every reachable state, whatever fails.
LEMMA FreshInvariant == Spec => []FreshInv
<1>1. Init => FreshInv
  BY DEF Init, FreshInv, HasBooking, InTx
<1> QED
  BY <1>1, FreshStep, PlumbInvariant, PTL DEF Spec

-----------------------------------------------------------------------------
\* An answered call keeps its answer, and so does one never made of a request
\* no worker is about to pay for.
LEMMA AnswerStays ==
    ASSUME Plumb, FreshInv, [Next]_vars, NEW r \in Requests,
           \/ call[r] \in {"paid", "insufficient", "error"}
           \/ call[r] = "none" /\ \A w \in Workers : SendDeduct(w) => Current(w) # r
    PROVE  call'[r] = call[r]
<1>1. ASSUME NEW w \in Workers, SendDeduct(w)
      PROVE  call[Current(w)] = "none"
  BY <1>1 DEF SendDeduct, FreshInv
<1> QED
  BY <1>1, CallSteps

\* What stands behind a reason stays: the seat is not given back, the call is
\* not repeated.
LEMMA BackedStays ==
    ASSUME Plumb, FreshInv, [Next]_vars, NEW r \in Requests, NEW f, Backed(r, f), api[r] = "done"
    PROVE  Backed(r, f)'
<1>1. Seat(r)' = Seat(r)
  BY BodyStays
<1>2. ASSUME f = "SEAT_ALREADY_BOOKED"
      PROVE  SoldElsewhere(r)'
  <2>1. PICK b \in bookings : b.seat = Seat(r) /\ b.request # r
    BY <1>2 DEF Backed, SoldElsewhere
  <2>2. b \in bookings'
    BY BookingSteps
  <2> QED
    BY <1>1, <2>1, <2>2 DEF SoldElsewhere
<1>3. f = "INSUFFICIENT_POINTS" => call'[r] = "insufficient"
  BY AnswerStays DEF Backed
<1>4. f = "PAYMENT_FAILED" => call'[r] = "error"
  BY AnswerStays DEF Backed
<1> QED
  BY <1>2, <1>3, <1>4 DEF Backed

\* Only Deduct touches balances and payments.
LEMMA PaymentSteps ==
    ASSUME [Next]_vars
    PROVE  (\E r \in Requests : Deduct(r)) \/ UNCHANGED <<balance, payments>>
  BY DEF Next, ApiStep, PaymentStep, WorkerStep, WorkerFault, Raise, vars, paymentVars,
        CreateRequest, Publish, PublishFails, RefuseDeduct, DeductFails,
        ReadBatch, ReadAnswerLost, Ack, AcquireSeatLock, CheckSeat, SendDeduct,
        ReceivePaid, ReceiveRefusal, Confirm, InsertConflicts, Reject, MarkFailed, LookupFails,
        DeductTimesOut, SessionCut, StatementFails, MarkFailedRaises, Crash, Restart

\* Nobody's balance grows.
LEMMA BalanceShrinks ==
    ASSUME Plumb, [Next]_vars, NEW u \in Users
    PROVE  balance[u] \in Nat /\ balance'[u] \in Nat /\ balance'[u] <= balance[u]
<1>1. balance \in [Users -> Nat] /\ balance' \in [Users -> Nat]
  BY PlumbStep DEF Plumb, TypeOK
<1>2. ASSUME NEW r \in Requests, Deduct(r)
      PROVE  balance'[u] <= balance[u]
  <2>1. Cost(r) \in Nat
    <3>1. call[r] = "sent"
      BY <1>2 DEF Deduct
    <3>2. api[r] = "done" /\ body[r] \in Inputs
      BY <3>1 DEF Plumb, RowsInv, TypeOK
    <3> QED
      BY <3>2, CostIsNat
  <2>2. balance' = [balance EXCEPT ![User(r)] = @ - Cost(r)]
    BY <1>2 DEF Deduct
  <2> QED
    BY <1>1, <2>1, <2>2
<1> QED
  BY <1>1, <1>2, PaymentSteps

\* Reasons are written by the three ways a worker decides a request.
LEMMA ReasonSteps ==
    ASSUME Plumb, [Next]_vars, NEW r \in Requests
    PROVE  \/ reason'[r] = reason[r]
           \/ \E w \in Workers :
                 /\ Decides(w) /\ r = Current(w)
                 /\ \/ Reject(w) /\ reason'[r] = why[w]
                    \/ reason'[r] \in {"NULL", "WORKER_ERROR"}
<1>1. ASSUME NEW w \in Workers, Decides(w)
      PROVE  \/ reason'[r] = reason[r]
             \/ /\ r = Current(w)
                /\ \/ Reject(w) /\ reason'[r] = why[w]
                   \/ reason'[r] \in {"NULL", "WORKER_ERROR"}
  BY <1>1 DEF Decides, Confirm, Reject, MarkFailed, SetRequestStatus, Plumb, TypeOK
<1>2. ASSUME NEW q \in Requests, NEW b \in Inputs, CreateRequest(q, b)
      PROVE  reason' = reason
  BY <1>2 DEF CreateRequest
<1> QED
  BY <1>1, <1>2, UndecidedStep
\* RefusalInv is inductive: each answer of payment-service is final, and so is
\* each sale.
LEMMA RefusalStep == Plumb /\ FreshInv /\ RefusalInv /\ [Next]_vars => RefusalInv'
<1> SUFFICES ASSUME Plumb, FreshInv, RefusalInv, [Next]_vars PROVE RefusalInv'
  OBVIOUS
<1>1. ASSUME NEW r \in Requests, Paid(r)'
      PROVE  call'[r] \in DeductAnswers
  <2>1. CASE Paid(r)
    BY <2>1, AnswerStays DEF RefusalInv, DeductAnswers
  <2>2. ASSUME NEW q \in Requests, Deduct(q)
        PROVE  call'[r] \in DeductAnswers
    <3>1. payments' = payments \cup {NewPayment(q)} /\ call'[q] \in DeductAnswers
      BY <2>2, DeductIsAnswered DEF Deduct, Plumb, TypeOK
    <3>2. Paid(r) \/ r = q
      BY <1>1, <3>1 DEF Paid, NewPayment
    <3> QED
      BY <2>1, <3>1, <3>2
  <2>3. payments' = payments => Paid(r)
    BY <1>1 DEF Paid
  <2> QED
    BY <2>1, <2>2, <2>3, PaymentSteps
<1>2. ASSUME NEW r \in Requests, call'[r] = "insufficient"
      PROVE  balance'[User(r)'] < Cost(r)'
  <2>1. CASE call[r] = "insufficient"
    <3>1. api[r] # "idle"
      BY <2>1 DEF Plumb, RowsInv
    <3>2. User(r)' = User(r) /\ Cost(r)' = Cost(r) /\ User(r) \in Users /\ Cost(r) \in Nat
      BY <3>1, BodyStays, CostIsNat
    <3>3. balance[User(r)] < Cost(r)
      BY <2>1 DEF RefusalInv
    <3>4. /\ balance[User(r)] \in Nat /\ balance'[User(r)] \in Nat
          /\ balance'[User(r)] <= balance[User(r)]
      BY <3>2, BalanceShrinks
    <3> QED
      BY <3>2, <3>3, <3>4
  <2>2. CASE PaymentStep(r)
    <3>1. RefuseDeduct(r)
      BY <1>2, <2>2, DeductIsAnswered DEF PaymentStep, DeductFails, Plumb, TypeOK
    <3> QED
      BY <3>1 DEF RefuseDeduct, dbVars, User, Cost, Seat
  <2>3. ASSUME NEW w \in Workers, SendDeduct(w), r = Current(w)
        PROVE  FALSE
    BY <1>2, <2>3 DEF SendDeduct, Plumb, TypeOK
  <2> QED
    BY <1>2, <2>1, <2>2, <2>3, CallSteps
<1>3. ASSUME NEW r \in Requests
      PROVE  Backed(r, reason[r])' /\ (api'[r] # "done" => reason'[r] = "NULL")
  <2>1. ASSUME reason'[r] \in {"NULL", "WORKER_ERROR"}
        PROVE  Backed(r, reason[r])'
    BY <2>1 DEF Backed
  <2>2. CASE reason'[r] = reason[r]
    <3>1. api[r] # "done" => reason[r] = "NULL"
      BY DEF RefusalInv
    <3>2. api[r] = "done" => api'[r] = "done"
      BY BodyStays
    <3>3. ASSUME api[r] = "done"
          PROVE  Backed(r, reason[r])'
      <4>1. PICK f : f = reason[r]
        OBVIOUS
      <4>2. Backed(r, f)
        BY <4>1 DEF RefusalInv
      <4>3. Backed(r, f)'
        BY <3>3, <4>2, BackedStays
      <4> QED
        BY <2>2, <4>1, <4>3 DEF Backed
    <3> QED
      BY <2>1, <2>2, <3>1, <3>2, <3>3
  <2>3. ASSUME NEW w \in Workers, Decides(w), r = Current(w)
        PROVE  api[r] = "done" /\ api'[r] = "done"
    <3>1. pc[w] \notin {"idle", "down"}
      BY <2>3 DEF Decides, Confirm, Reject, MarkFailed
    <3> QED
      BY <2>3, <3>1, CurrentIsPublished, BodyStays
  <2>4. ASSUME NEW w \in Workers, Reject(w), r = Current(w), reason'[r] = why[w]
        PROVE  Backed(r, reason[r])'
    <3>1. PICK f : f = why[w]
      OBVIOUS
    <3>2. Backed(r, f)
      BY <2>4, <3>1 DEF RefusalInv, Reject
    <3>3. Backed(r, f)'
      BY <2>3, <2>4, <3>2, BackedStays DEF Decides
    <3> QED
      BY <2>4, <3>1, <3>3 DEF Backed
  <2> QED
    BY <2>1, <2>2, <2>3, <2>4, ReasonSteps
<1>4. ASSUME NEW w \in Workers, pc'[w] = "reject"
      PROVE  Backed(Current(w), why[w])'
  <2>1. ASSUME NEW r \in Requests, Current(w)' = r, NEW f, f = why'[w], Backed(r, f)'
        PROVE  Backed(Current(w), why[w])'
    BY <2>1 DEF Backed, SoldElsewhere, Seat
  <2>2. ASSUME batch'[w] = batch[w], pc[w] \notin {"idle", "down"}
        PROVE  /\ Current(w)' = Current(w) /\ Current(w) \in Requests
               /\ api[Current(w)] = "done" /\ Seat(Current(w))' = Seat(Current(w))
    BY <2>2, CurrentIsPublished, BodyStays DEF Current
  <2>3. CASE pc'[w] = pc[w] /\ batch'[w] = batch[w] /\ why'[w] = why[w]
    <3>1. PICK r \in Requests, f \in {why[w]} : r = Current(w) /\ r = Current(w)' /\ f = why[w] /\ f = why'[w]
      BY <1>4, <2>2, <2>3
    <3>2. Backed(r, f) /\ api[r] = "done"
      BY <1>4, <2>2, <2>3, <3>1 DEF RefusalInv
    <3>3. Backed(r, f)'
      BY <3>2, BackedStays
    <3> QED
      BY <2>1, <3>1, <3>3
  <2>4. CASE (CheckSeat(w) \/ InsertConflicts(w)) /\ batch'[w] = batch[w]
    <3>1. /\ pc[w] \in InTx /\ why'[w] = "SEAT_ALREADY_BOOKED"
          /\ Booked(Seat(Current(w))) /\ bookings' = bookings
      BY <1>4, <2>4 DEF CheckSeat, InsertConflicts, Goto, InTx, dbVars, Plumb, TypeOK
    <3>2. ~HasBooking(Current(w)) /\ pc[w] \notin {"idle", "down"}
      BY <3>1 DEF FreshInv, InTx
    <3>3. PICK r \in Requests : r = Current(w) /\ r = Current(w)' /\ Seat(r)' = Seat(r)
      BY <2>2, <2>4, <3>2
    <3>4. SoldElsewhere(r)'
      BY <3>1, <3>2, <3>3 DEF SoldElsewhere, Booked, HasBooking
    <3>5. PICK f : f = why'[w] /\ f = "SEAT_ALREADY_BOOKED"
      BY <3>1
    <3>6. Backed(r, f)'
      BY <3>4, <3>5 DEF Backed
    <3> QED
      BY <2>1, <3>3, <3>5, <3>6
  <2>5. CASE ReceiveRefusal(w) /\ batch'[w] = batch[w]
    <3>1. /\ pc[w] = "paying" /\ call' = call /\ call[Current(w)] \in {"insufficient", "error"}
          /\ why'[w] = IF call[Current(w)] = "insufficient" THEN "INSUFFICIENT_POINTS" ELSE "PAYMENT_FAILED"
      BY <2>5 DEF ReceiveRefusal, paymentVars, Plumb, TypeOK
    <3>2. PICK r \in Requests, f \in {why'[w]} : r = Current(w) /\ r = Current(w)' /\ f = why'[w]
      BY <2>2, <2>5, <3>1
    <3>3. Backed(r, f)'
      BY <3>1, <3>2 DEF Backed
    <3> QED
      BY <2>1, <3>2, <3>3
  <2>6. ASSUME \/ AcquireSeatLock(w) \/ SendDeduct(w) \/ ReceivePaid(w)
               \/ Confirm(w) \/ Reject(w) \/ MarkFailed(w)
               \/ StatementFails(w) \/ LookupFails(w) \/ DeductTimesOut(w)
        PROVE  FALSE
    BY <1>4, <2>6 DEF AcquireSeatLock, SendDeduct, ReceivePaid, Confirm, Reject, MarkFailed,
          StatementFails, LookupFails, DeductTimesOut, Raise, AfterCommit, Goto, Plumb, TypeOK
  <2>7. ASSUME ReadBatch(w) \/ Ack(w)
        PROVE  FALSE
    BY <1>4, <2>7, TakenUp
  <2> QED
    BY <1>4, <2>3, <2>4, <2>5, <2>6, <2>7, WorkerMoves
<1> QED
  BY <1>1, <1>2, <1>3, <1>4 DEF RefusalInv

\* So it holds in every reachable state, whatever fails.
LEMMA RefusalInvariant == Spec => []RefusalInv
<1>1. Init => RefusalInv
  BY DEF Init, RefusalInv, Paid, Backed
<1> QED
  BY <1>1, RefusalStep, FreshInvariant, PlumbInvariant, PTL DEF Spec

\* The reason a client is shown is true and stays true, whatever fails: the seat
\* is booked by another request, the user's points do not suffice and none were
\* taken, or payment-service answered with an error, which says no more.
THEOREM RefusalsAreTrue == Spec => []RefusalIsTrue
<1>1. RefusalInv => RefusalIsTrue
  BY DEF RefusalInv, RefusalIsTrue, Backed, SoldElsewhere, DeductAnswers
<1> QED
  BY <1>1, RefusalInvariant, PTL
-----------------------------------------------------------------------------
\* A transaction is open from the advisory lock to the COMMIT or the rollback.
LEMMA TxStep ==
    ASSUME "session" \notin Faults, Plumb, LockInv, [Next]_vars, NEW w \in Workers
    PROVE  /\ tx'[w] = IF pc'[w] \in InTx THEN "open" ELSE "none"
           /\ tx'[w] = "open" => \/ tx[w] = "open" /\ batch'[w] = batch[w]
                                 \/ AcquireSeatLock(w)
<1> DEFINE Sound == /\ tx'[w] = IF pc'[w] \in InTx THEN "open" ELSE "none"
                    /\ tx'[w] = "open" => \/ tx[w] = "open" /\ batch'[w] = batch[w]
                                          \/ AcquireSeatLock(w)
<1> USE DEF Goto, InTx
<1>1. tx[w] = (IF pc[w] \in InTx THEN "open" ELSE "none") /\ tx \in [Workers -> {"none", "open", "broken"}]
      /\ pc \in [Workers -> {"idle", "begin", "failing", "ack", "down"} \cup InTx]
  BY DEF LockInv, Plumb, TypeOK
<1>2. CASE pc'[w] = pc[w] /\ tx'[w] = tx[w] /\ batch'[w] = batch[w]
  BY <1>1, <1>2
<1>3. ASSUME NEW v \in Workers, v # w, WorkerStep(v) \/ WorkerFault(v)
      PROVE  pc'[w] = pc[w] /\ tx'[w] = tx[w] /\ batch'[w] = batch[w]
  BY <1>3 DEF WorkerStep, WorkerFault, ReadBatch, ReadAnswerLost, Ack, AcquireSeatLock, CheckSeat,
        SendDeduct, ReceivePaid, ReceiveRefusal, Confirm, InsertConflicts, Reject, MarkFailed,
        StatementFails, LookupFails, DeductTimesOut, SessionCut, MarkFailedRaises, Crash, Restart,
        Raise, Die, EndTx, workerVars, Plumb, TypeOK
<1>4. CASE AcquireSeatLock(w)
  BY <1>1, <1>4 DEF AcquireSeatLock
<1>5. CASE CheckSeat(w) \/ SendDeduct(w) \/ ReceivePaid(w) \/ ReceiveRefusal(w) \/ InsertConflicts(w)
  BY <1>1, <1>5 DEF CheckSeat, SendDeduct, ReceivePaid, ReceiveRefusal, InsertConflicts
<1>6. CASE Confirm(w) \/ Reject(w) \/ MarkFailed(w)
  BY <1>1, <1>6 DEF Confirm, Reject, MarkFailed, AfterCommit, EndTx
<1>7. CASE StatementFails(w) \/ LookupFails(w) \/ DeductTimesOut(w) \/ MarkFailedRaises(w) \/ Crash(w)
  BY <1>1, <1>7 DEF StatementFails, LookupFails, DeductTimesOut, MarkFailedRaises, Crash, Raise, Die, EndTx
<1>8. CASE ReadBatch(w) \/ ReadAnswerLost(w) \/ Ack(w) \/ Restart(w)
  BY <1>1, <1>8 DEF ReadBatch, ReadAnswerLost, Ack, Restart, workerVars
<1>9. ~SessionCut(w)
  BY DEF SessionCut
<1>10. \/ \E v \in Workers : WorkerStep(v) \/ WorkerFault(v)
       \/ UNCHANGED workerVars
  BY DEF Next, ApiStep, PaymentStep, CreateRequest, Publish, PublishFails, Deduct, RefuseDeduct,
        DeductFails, vars
<1>11. UNCHANGED workerVars => pc'[w] = pc[w] /\ tx'[w] = tx[w] /\ batch'[w] = batch[w]
  BY DEF workerVars
<1> HIDE DEF Sound
<1>12. Sound
  BY <1>2, <1>3, <1>4, <1>5, <1>6, <1>7, <1>8, <1>9, <1>10, <1>11 DEF WorkerStep, WorkerFault, Sound
<1> QED
  BY <1>12 DEF Sound

\* A worker whose transaction is open has a request at hand.
LEMMA OpenHasCurrent ==
    ASSUME Plumb, LockInv, [Next]_vars, NEW w \in Workers, tx[w] = "open"
    PROVE  /\ pc[w] \notin {"idle", "down"} /\ Current(w) \in Requests
           /\ body[Current(w)] \in Inputs
           /\ Seat(Current(w))' = Seat(Current(w)) \/ batch'[w] # batch[w]
<1>1. pc[w] \notin {"idle", "down"}
  BY DEF LockInv, InTx
<1>2. Current(w) \in Requests /\ api[Current(w)] = "done" /\ body[Current(w)] \in Inputs
  BY <1>1, CurrentIsPublished
<1>3. body'[Current(w)] = body[Current(w)]
  BY <1>2, BodyStays
<1> QED
  BY <1>1, <1>2, <1>3 DEF Seat, Current

\* LockInv is inductive while sessions last and dates are spelled in one way:
\* the lock that is taken is of a seat nobody else has locked, and only the
\* holder of a seat's lock books it.
LEMMA LockStep ==
    "session" \notin Faults /\ OneKeyPerSeat /\ Plumb /\ LockInv /\ [Next]_vars => LockInv'
<1> SUFFICES ASSUME "session" \notin Faults, OneKeyPerSeat, Plumb, LockInv, [Next]_vars PROVE LockInv'
  OBVIOUS
<1>1. ASSUME NEW v \in Workers, NEW w \in Workers, v # w, tx'[v] = "open", tx'[w] = "open",
             AcquireSeatLock(w)
      PROVE  Seat(Current(v))' # Seat(Current(w))'
  <2>1. tx[v] = "open" /\ UNCHANGED <<body, batch>> /\ LockFree(body[Current(w)].key)
    BY <1>1 DEF AcquireSeatLock, dbVars, Plumb, TypeOK
  <2>2. body[Current(v)].key # body[Current(w)].key
    BY <2>1 DEF LockFree
  <2>3. body[Current(v)] \in Inputs /\ body[Current(w)] \in Inputs
    BY <1>1, <2>1, OpenHasCurrent, CurrentIsPublished DEF AcquireSeatLock
  <2>4. Seat(Current(v)) # Seat(Current(w))
    BY <2>2, <2>3 DEF OneKeyPerSeat, Seat
  <2> QED
    BY <2>1, <2>4 DEF Seat, Current
<1>2. ASSUME NEW v \in Workers, NEW w \in Workers, v # w, tx'[v] = "open", tx'[w] = "open"
      PROVE  Seat(Current(v))' # Seat(Current(w))'
  <2>1. CASE AcquireSeatLock(v) \/ AcquireSeatLock(w)
    BY <1>1, <1>2, <2>1
  <2>2. CASE /\ tx[v] = "open" /\ batch'[v] = batch[v]
             /\ tx[w] = "open" /\ batch'[w] = batch[w]
    BY <1>2, <2>2, OpenHasCurrent DEF LockInv
  <2> QED
    BY <1>2, <2>1, <2>2, TxStep
<1>3. ASSUME NEW w \in Workers, pc'[w] \in {"lookup", "paying", "insert"}
      PROVE  ~Booked(Seat(Current(w)))'
  <2>1. ASSUME tx[w] = "open", batch'[w] = batch[w], ~Booked(Seat(Current(w))), ~Confirm(w)
        PROVE  ~Booked(Seat(Current(w)))'
    <3>1. \A v \in Workers : Confirm(v) => Seat(Current(v)) # Seat(Current(w))
      BY <2>1 DEF Confirm, LockInv
    <3>2. \A b \in bookings' : b.seat # Seat(Current(w))
      BY <2>1, <3>1, BookingSteps DEF Booked, NewBooking
    <3> QED
      BY <2>1, <3>2, OpenHasCurrent DEF Booked
  <2>2. CASE pc'[w] = pc[w] /\ batch'[w] = batch[w]
    <3>1. tx[w] = "open" /\ ~Booked(Seat(Current(w)))
      BY <1>3, <2>2 DEF LockInv, InTx
    <3>2. ~Confirm(w)
      BY <1>3, <2>2 DEF Confirm, AfterCommit, Goto, Plumb, TypeOK
    <3> QED
      BY <2>1, <2>2, <3>1, <3>2
  <2>3. CASE (CheckSeat(w) \/ SendDeduct(w) \/ ReceivePaid(w)) /\ batch'[w] = batch[w]
    <3>1. tx[w] = "open" /\ ~Booked(Seat(Current(w))) /\ ~Confirm(w)
      BY <1>3, <2>3 DEF LockInv, InTx, CheckSeat, SendDeduct, ReceivePaid, Confirm, Goto, Plumb, TypeOK
    <3> QED
      BY <2>1, <2>3, <3>1
  <2>4. ASSUME \/ AcquireSeatLock(w) \/ ReceiveRefusal(w) \/ InsertConflicts(w)
               \/ Confirm(w) \/ Reject(w) \/ MarkFailed(w)
               \/ StatementFails(w) \/ LookupFails(w) \/ DeductTimesOut(w)
        PROVE  FALSE
    BY <1>3, <2>4 DEF AcquireSeatLock, ReceiveRefusal, InsertConflicts, Confirm, Reject, MarkFailed,
          StatementFails, LookupFails, DeductTimesOut, Raise, AfterCommit, Goto, Plumb, TypeOK
  <2>5. ASSUME ReadBatch(w) \/ Ack(w)
        PROVE  FALSE
    BY <1>3, <2>5, TakenUp
  <2> QED
    BY <1>3, <2>2, <2>3, <2>4, <2>5, WorkerMoves
<1> QED
  BY <1>2, <1>3, TxStep DEF LockInv
\* ChargeInv is inductive where the worker always gets the answer of its calls
\* and of its COMMITs: it fails a request before it has asked for the points, or
\* after they were refused.
LEMMA ChargeStep ==
    /\ Faults \cap {"timeout", "session", "answer", "payanswer"} = {}
    /\ Plumb /\ FreshInv /\ LockInv /\ PendingInv /\ ChargeInv /\ [Next]_vars
    => ChargeInv'
<1> SUFFICES ASSUME Faults \cap {"timeout", "session", "answer", "payanswer"} = {},
                    Plumb, FreshInv, LockInv, PendingInv, ChargeInv, [Next]_vars
             PROVE  ChargeInv'
  OBVIOUS
<1>1. ASSUME NEW r \in Requests, call[r] \in Unpaid, \A w \in Workers : SendDeduct(w) => Current(w) # r
      PROVE  call'[r] \in Unpaid
  BY <1>1, AnswerStays DEF Unpaid
<1>2. ASSUME NEW w \in Workers, Decides(w)
      PROVE  /\ Current(w) \in Requests /\ Current(w)' = Current(w) /\ pc[w] # "lookup"
             /\ \E s \in Terminal : status' = [status EXCEPT ![Current(w)] = s]
  <2>1. pc[w] # "lookup"
    BY <1>2 DEF Decides, Confirm, Reject, MarkFailed
  <2> QED
    BY <1>2, <2>1, DecisionFacts DEF Current
<1>3. ASSUME NEW w \in Workers, SendDeduct(w)
      PROVE  status[Current(w)] = "PENDING" /\ pc[w] = "lookup" /\ pc'[w] = "paying"
  <2>1. pc[w] = "lookup" /\ pc'[w] = "paying"
    BY <1>3 DEF SendDeduct, Goto, Plumb, TypeOK
  <2>2. Current(w) = batch[w][1] /\ 1 \in 1..Len(batch[w])
    BY <2>1, CurrentIsPublished
  <2> QED
    BY <2>1, <2>2 DEF PendingInv
<1>4. ASSUME NEW r \in Requests, status'[r] = "FAILED"
      PROVE  call'[r] \in Unpaid
  <2>1. CASE status[r] = "FAILED"
    BY <1>1, <1>3, <2>1 DEF ChargeInv
  <2>2. ASSUME NEW w \in Workers, Decides(w), status[r] # "FAILED"
        PROVE  call'[r] \in Unpaid
    <3>1. r = Current(w)
      BY <1>2, <1>4, <2>2 DEF Plumb, TypeOK
    <3>2. ~Confirm(w)
      BY <1>4, <2>2, <3>1 DEF Confirm, SetRequestStatus, Plumb, TypeOK
    <3>3. pc[w] \in {"reject", "failing"} /\ UNCHANGED call
      BY <2>2, <3>2 DEF Decides, Reject, MarkFailed, paymentVars
    <3> QED
      BY <3>1, <3>3 DEF ChargeInv
  <2>3. ASSUME NEW q \in Requests, NEW b \in Inputs, CreateRequest(q, b)
        PROVE  status[r] = "FAILED"
    BY <1>4, <2>3 DEF CreateRequest, Plumb, TypeOK
  <2>4. \/ \E w \in Workers : Decides(w)
        \/ \E q \in Requests, b \in Inputs : CreateRequest(q, b)
        \/ status' = status
    BY UndecidedStep
  <2> QED
    BY <1>4, <2>1, <2>2, <2>3, <2>4
<1>5. ASSUME NEW w \in Workers, pc'[w] \in {"reject", "failing"}
      PROVE  call'[Current(w)'] \in Unpaid
  <2>1. ASSUME batch'[w] = batch[w], pc[w] \notin {"idle", "down"}, ~SendDeduct(w), call[Current(w)] \in Unpaid
        PROVE  call'[Current(w)'] \in Unpaid
    <3>1. Current(w)' = Current(w) /\ Current(w) \in Requests
      BY <2>1, CurrentIsPublished DEF Current
    <3>2. \A v \in Workers : SendDeduct(v) => Current(v) # Current(w)
      BY <2>1, CurrentIsTaken DEF SendDeduct
    <3> QED
      BY <1>1, <2>1, <3>1, <3>2
  <2>2. CASE pc'[w] = pc[w] /\ batch'[w] = batch[w]
    BY <1>3, <1>5, <2>1, <2>2 DEF ChargeInv
  <2>3. CASE (CheckSeat(w) \/ LookupFails(w)) /\ batch'[w] = batch[w]
    <3>1. pc[w] \in {"check", "lookup"} /\ ~SendDeduct(w)
      BY <1>3, <1>5, <2>3 DEF CheckSeat, LookupFails
    <3>2. call[Current(w)] = "none"
      BY <3>1 DEF FreshInv
    <3> QED
      BY <2>1, <2>3, <3>1, <3>2 DEF Unpaid
  <2>4. CASE ReceiveRefusal(w) /\ batch'[w] = batch[w]
    <3>1. pc[w] = "paying" /\ call[Current(w)] \in Unpaid /\ ~SendDeduct(w)
      BY <1>3, <2>4 DEF ReceiveRefusal, Unpaid
    <3> QED
      BY <2>1, <2>4, <3>1
  <2>5. ASSUME InsertConflicts(w)
        PROVE  FALSE
    BY <2>5 DEF InsertConflicts, LockInv
  <2>6. ASSUME StatementFails(w) \/ DeductTimesOut(w)
        PROVE  FALSE
    <3>1. tx[w] # "broken"
      BY DEF LockInv
    <3> QED
      BY <2>6, <3>1 DEF StatementFails, DeductTimesOut
  <2>7. ASSUME AcquireSeatLock(w) \/ SendDeduct(w) \/ ReceivePaid(w) \/ Confirm(w) \/ Reject(w) \/ MarkFailed(w)
        PROVE  FALSE
    BY <1>5, <2>7 DEF AcquireSeatLock, SendDeduct, ReceivePaid, Confirm, Reject, MarkFailed,
          AfterCommit, Goto, Plumb, TypeOK
  <2>8. ASSUME ReadBatch(w) \/ Ack(w)
        PROVE  FALSE
    BY <1>5, <2>8, TakenUp
  <2> QED
    BY <1>5, <2>2, <2>3, <2>4, <2>5, <2>6, <2>7, <2>8, WorkerMoves
<1> QED
  BY <1>4, <1>5 DEF ChargeInv

\* A request that failed was not charged, and never will be, while a seat has
\* one lock key, its lock outlives the call to payment-service, and that call
\* and the COMMITs of both databases are answered: a second worker cannot book
\* the seat between the check and the INSERT.
THEOREM FailedMeansNotCharged ==
    ASSUME OneKeyPerSeat, Faults \cap {"timeout", "session", "answer", "payanswer"} = {}
    PROVE  Spec => []FailedIsNotCharged
<1>1. Init => LockInv /\ ChargeInv
  BY DEF Init, LockInv, ChargeInv, InTx
<1>2. Plumb /\ LockInv /\ [Next]_vars => LockInv'
  BY LockStep
<1>3. Plumb /\ FreshInv /\ LockInv /\ PendingInv /\ ChargeInv /\ [Next]_vars => ChargeInv'
  BY ChargeStep
<1>4. ChargeInv /\ RefusalInv => FailedIsNotCharged
  BY DEF ChargeInv, RefusalInv, FailedIsNotCharged, Unpaid, DeductAnswers
<1>5. Spec => []PendingInv
  BY PendingInvariant
<1> QED
  BY <1>1, <1>2, <1>3, <1>4, <1>5, RefusalInvariant, FreshInvariant, PlumbInvariant, PTL DEF Spec

-----------------------------------------------------------------------------
\* Steps in which every worker keeps its batch, or takes up what is delivered.
LEMMA HeldStep ==
    ASSUME Faults \cap {"crash", "read", "markfail"} = {}, Plumb, NothingOrphaned, [Next]_vars
    PROVE  NothingOrphaned'
<1> USE DEF vars, redisVars, workerVars
<1>1. batch \in [Workers -> Seq(Requests)]
  BY DEF Plumb, TypeOK
<1>2. ASSUME NEW r \in pel
      PROVE  \E w \in Workers : \E i \in 1..Len(batch[w]) : batch[w][i] = r
  BY <1>1, <1>2 DEF NothingOrphaned
<1>3. ASSUME NEW w \in Workers, ReadBatch(w)
      PROVE  NothingOrphaned'
  <2>1. batch'[w] = NextBatch /\ batch[w] = <<>> /\ \A v \in Workers : v # w => batch'[v] = batch[v]
    BY <1>1, <1>3 DEF ReadBatch, Plumb, BatchInv
  <2>2. pel' = pel \cup {NextBatch[i] : i \in DOMAIN NextBatch}
    BY <1>3 DEF ReadBatch, Deliver
  <2>3. ASSUME NEW r \in pel
        PROVE  \E v \in Workers : \E i \in DOMAIN batch'[v] : batch'[v][i] = r
    <3>1. PICK v \in Workers : \E i \in DOMAIN batch[v] : batch[v][i] = r
      BY DEF NothingOrphaned
    <3>2. v # w
      BY <2>1, <3>1
    <3> QED
      BY <2>1, <3>1, <3>2
  <2> QED
    BY <2>1, <2>2, <2>3 DEF NothingOrphaned
<1>4. ASSUME NEW w \in Workers, Ack(w)
      PROVE  NothingOrphaned'
  <2>1. /\ batch[w] \in Seq(Requests) /\ batch[w] # <<>> /\ Current(w) = batch[w][1]
        /\ Len(batch[w]) \in Nat \ {0}
        /\ batch'[w] = Tail(batch[w]) /\ \A v \in Workers : v # w => batch'[v] = batch[v]
        /\ pel' = pel \ {Current(w)}
    BY <1>1, <1>4, CurrentIsPublished DEF Ack, Plumb, BatchInv
  <2>2. /\ Tail(batch[w]) \in Seq(Requests) /\ Len(Tail(batch[w])) = Len(batch[w]) - 1
        /\ \A i \in 1..Len(Tail(batch[w])) : Tail(batch[w])[i] = batch[w][i + 1]
    BY <2>1, HeadTailProperties
  <2>3. DOMAIN Tail(batch[w]) = 1..(Len(batch[w]) - 1)
    BY <2>2
  <2>4. ASSUME NEW r \in pel, r # Current(w)
        PROVE  \E v \in Workers : \E i \in DOMAIN batch'[v] : batch'[v][i] = r
    <3>1. PICK v \in Workers : \E i \in 1..Len(batch[v]) : batch[v][i] = r
      BY <1>2
    <3>2. PICK i \in 1..Len(batch[v]) : batch[v][i] = r
      BY <3>1
    <3>3. CASE v = w
      <4>1. i # 1 /\ i \in 1..Len(batch[w])
        BY <2>1, <2>4, <3>2, <3>3
      <4>2. i - 1 \in 1..(Len(batch[w]) - 1) /\ (i - 1) + 1 = i
        BY <2>1, <4>1
      <4>3. Tail(batch[w])[i - 1] = r
        BY <2>2, <3>2, <3>3, <4>2
      <4> QED
        BY <2>1, <2>3, <3>3, <4>2, <4>3
    <3>4. CASE v # w
      <4>1. i \in DOMAIN batch[v]
        BY <1>1
      <4> QED
        BY <2>1, <3>2, <3>4, <4>1
    <3> QED
      BY <3>3, <3>4
  <2> QED
    BY <2>1, <2>4 DEF NothingOrphaned
<1>5. \/ \E w \in Workers : ReadBatch(w) \/ Ack(w)
      \/ UNCHANGED <<pel, batch>>
  BY DEF Next, ApiStep, PaymentStep, WorkerStep, WorkerFault, Raise, CreateRequest, Publish, PublishFails,
        Deduct, RefuseDeduct, DeductFails, ReadAnswerLost, AcquireSeatLock, CheckSeat, SendDeduct,
        ReceivePaid, ReceiveRefusal, Confirm, InsertConflicts, Reject, MarkFailed, LookupFails,
        DeductTimesOut, SessionCut, StatementFails, MarkFailedRaises, Crash, Restart
<1>6. UNCHANGED <<pel, batch>> => NothingOrphaned'
  BY DEF NothingOrphaned
<1> QED
  BY <1>3, <1>4, <1>5, <1>6

\* While no worker dies and no reply of an XREADGROUP is lost, whatever is in
\* the PEL is in the hands of a worker: cut sessions, failed calls and lost
\* COMMIT answers never make the loop drop an entry.
THEOREM PendingIsHeld ==
    ASSUME Faults \cap {"crash", "read", "markfail"} = {}
    PROVE  Spec => []NothingOrphaned
<1>1. Init => NothingOrphaned
  BY DEF Init, NothingOrphaned
<1>2. Plumb /\ NothingOrphaned /\ [Next]_vars => NothingOrphaned'
  BY HeldStep
<1> QED
  BY <1>1, <1>2, PlumbInvariant, PTL DEF Spec
-----------------------------------------------------------------------------
(* The pipeline's calls are calls of the payment ledger: this and what     *)
(* PaymentServiceProofs proves of payment-service meet at PaymentLedger.   *)

\* The four variables of the ledger, as functions of the pipeline's.
CTask   == [r \in Requests |-> IF call[r] = "none" THEN Null ELSE NewPayment(r)]
CAnswer == [r \in Requests |-> IF call[r] = "sent" THEN "none" ELSE call[r]]
CallView == <<CTask, CAnswer, balance, payments>>

\* What a call asks for does not change while it is out, or later.
LEMMA TaskStays ==
    ASSUME Plumb, [Next]_vars, NEW r \in Requests, call[r] # "none"
    PROVE  NewPayment(r)' = NewPayment(r) /\ NewPayment(r) \in Ledger!Payment
<1>1. api[r] = "done" /\ body[r] \in Inputs
  BY DEF Plumb, RowsInv, TypeOK
<1>2. User(r)' = User(r) /\ Cost(r)' = Cost(r)
  BY <1>1, BodyStays
<1>3. User(r) \in Users /\ Cost(r) \in {Price[s] : s \in Seats}
  BY <1>1, CostIsNat DEF Cost
<1> QED
  BY <1>2, <1>3 DEF NewPayment, Ledger!Payment

\* Steps that touch neither a call nor the payments are none of the ledger's.
LEMMA NoCallNoStep ==
    ASSUME Plumb, [Next]_vars, UNCHANGED paymentVars
    PROVE  UNCHANGED CallView
<1>1. call' = call /\ balance' = balance /\ payments' = payments
  BY DEF paymentVars
<1>2. CTask' = CTask
  BY <1>1, TaskStays DEF CTask
<1> QED
  BY <1>1, <1>2 DEF CallView, CAnswer

\* The answer of payment-service, as the ledger sees it.
LEMMA AnswerIsAnswer ==
    ASSUME Plumb, [Next]_vars, NEW r \in Requests, NEW a \in {"paid", "insufficient", "error"},
           call[r] = "sent", call' = [call EXCEPT ![r] = a]
    PROVE  Ledger!Answer(r, a) /\ CTask[r] = NewPayment(r) /\ User(r) \in Users /\ Cost(r) \in Nat
<1>1. CTask[r] = NewPayment(r) /\ CTask[r] # Null /\ User(r) \in Users /\ Cost(r) \in Nat
  <2>1. call[r] # "none"
    OBVIOUS
  <2>2. api[r] = "done" /\ body[r] \in Inputs
    BY <2>1 DEF Plumb, RowsInv, TypeOK
  <2>3. User(r) \in Users /\ Cost(r) \in Nat
    BY <2>2, CostIsNat
  <2>4. NewPayment(r) \in Payment
    BY <2>3 DEF NewPayment, Payment
  <2> QED
    BY <2>1, <2>3, <2>4, PipelineAssumption DEF CTask, Payment
<1>2. \A q \in Requests : call'[q] = IF q = r THEN a ELSE call[q]
  BY DEF Plumb, TypeOK
<1>3. CTask' = CTask
  <2>1. \A q \in Requests : (call'[q] = "none" <=> call[q] = "none")
                            /\ (call[q] # "none" => NewPayment(q)' = NewPayment(q))
    BY <1>2, TaskStays
  <2> QED
    BY <2>1 DEF CTask
<1>4. CAnswer[r] = "none" /\ CAnswer' = [CAnswer EXCEPT ![r] = a]
  BY <1>2 DEF CAnswer
<1> QED
  BY <1>1, <1>3, <1>4 DEF Ledger!Answer, Ledger!Open, CTask, CAnswer

\* Every step of the pipeline is one step of the ledger, or none.
LEMMA CallStep == Plumb /\ FreshInv /\ RefusalInv /\ [Next]_vars => [Ledger!Next]_(CallView)
<1> SUFFICES ASSUME Plumb, FreshInv, RefusalInv, [Next]_vars PROVE [Ledger!Next]_(CallView)
  OBVIOUS
<1>1. ASSUME NEW w \in Workers, SendDeduct(w)
      PROVE  [Ledger!Next]_(CallView)
  <2>1. PICK r \in Requests : r = Current(w)
    BY <1>1, CurrentIsPublished DEF SendDeduct
  <2>2. /\ call[r] = "none" /\ \A q \in Requests : call'[q] = IF q = r THEN "sent" ELSE call[q]
        /\ UNCHANGED <<body, balance, payments>>
    BY <1>1, <2>1 DEF SendDeduct, FreshInv, dbVars, Plumb, TypeOK
  <2>3. /\ \A q \in Requests : NewPayment(q)' = NewPayment(q)
        /\ NewPayment(r) \in Ledger!Payment
    <3>1. User(r) \in Users /\ Cost(r) \in {Price[s] : s \in Seats}
      BY <1>1, <2>1, CurrentIsPublished, CostIsNat DEF Cost, SendDeduct
    <3> QED
      BY <2>2, <3>1 DEF NewPayment, User, Cost, Seat, Ledger!Payment
  <2>4. CTask[r] = Null /\ CTask' = [CTask EXCEPT ![r] = NewPayment(r)]
    BY <2>2, <2>3 DEF CTask
  <2>5. CAnswer' = CAnswer
    BY <2>2 DEF CAnswer
  <2>6. Ledger!Call(r, NewPayment(r))
    BY <2>2, <2>4, <2>5 DEF Ledger!Call, CTask, CAnswer
  <2>7. \E t \in Ledger!Payment : Ledger!Call(r, t)
    <3>1. PICK t \in Ledger!Payment : t = NewPayment(r)
      BY <2>3
    <3>2. Ledger!Call(r, t)
      BY <2>6, <3>1 DEF Ledger!Call
    <3> QED
      BY <3>2
  <2>8. r \in Requests
    OBVIOUS
  <2> QED
    BY <2>7, <2>8 DEF Ledger!Next
<1>2. ASSUME NEW r \in Requests, Deduct(r)
      PROVE  Ledger!Pay(r)
  <2>0. PICK a \in {"paid", "error"} : call' = [call EXCEPT ![r] = a]
    BY <1>2, DeductIsAnswered
  <2>1. /\ call[r] = "sent" /\ Cost(r) <= balance[User(r)]
        /\ balance' = [balance EXCEPT ![User(r)] = @ - Cost(r)] /\ payments' = payments \cup {NewPayment(r)}
    BY <1>2 DEF Deduct
  <2>2. Ledger!Answer(r, a) /\ CTask[r] = NewPayment(r)
    BY <2>0, <2>1, AnswerIsAnswer
  <2>3. NewPayment(r).request = r /\ NewPayment(r).user = User(r) /\ NewPayment(r).amount = Cost(r)
    BY DEF NewPayment
  <2>4. ~Ledger!Settled(r)
    BY <2>1 DEF RefusalInv, DeductAnswers, Paid, Ledger!Settled
  <2> QED
    BY <2>1, <2>2, <2>3, <2>4 DEF Ledger!Pay, CTask
<1>3. ASSUME NEW r \in Requests, RefuseDeduct(r)
      PROVE  Ledger!Refuse(r)
  <2>1. call[r] = "sent" /\ call' = [call EXCEPT ![r] = "insufficient"] /\ balance[User(r)] < Cost(r)
        /\ UNCHANGED <<balance, payments>>
    BY <1>3 DEF RefuseDeduct
  <2>2. Ledger!Answer(r, "insufficient") /\ CTask[r] = NewPayment(r)
    BY <2>1, AnswerIsAnswer
  <2>3. NewPayment(r).user = User(r) /\ NewPayment(r).amount = Cost(r)
    BY DEF NewPayment
  <2> QED
    BY <2>1, <2>2, <2>3 DEF Ledger!Refuse, CTask
<1>4. ASSUME NEW r \in Requests, DeductFails(r)
      PROVE  Ledger!Fail(r)
  <2>1. call[r] = "sent" /\ call' = [call EXCEPT ![r] = "error"] /\ UNCHANGED <<balance, payments>>
    BY <1>4 DEF DeductFails
  <2> QED
    BY <2>1, AnswerIsAnswer DEF Ledger!Fail
<1>5. \/ \E w \in Workers : SendDeduct(w)
      \/ \E r \in Requests : PaymentStep(r)
      \/ UNCHANGED paymentVars
  BY DEF Next, ApiStep, WorkerStep, WorkerFault, Raise, vars, paymentVars,
        CreateRequest, Publish, PublishFails, ReadBatch, ReadAnswerLost, Ack, AcquireSeatLock, CheckSeat,
        ReceivePaid, ReceiveRefusal, Confirm, InsertConflicts, Reject, MarkFailed, LookupFails,
        DeductTimesOut, SessionCut, StatementFails, MarkFailedRaises, Crash, Restart
<1> QED
  BY <1>1, <1>2, <1>3, <1>4, <1>5, NoCallNoStep DEF PaymentStep, Ledger!Next

\* What the pipeline takes payment-service to do is what the ledger does, calls
\* nobody waits for any more included, so what PaymentsImplementLedger proves of
\* payment-service is what the pipeline relies on.
THEOREM PipelineUsesLedger == Spec => PaymentAssumed
<1>1. CallView = Ledger!ledgerVars /\ CallView' = Ledger!ledgerVars'
  BY DEF CallView, Ledger!ledgerVars, CTask, CAnswer
<1>2. Init => Ledger!Init
  BY DEF Init, Ledger!Init
<1>3. Plumb /\ FreshInv /\ RefusalInv /\ [Next]_vars => [Ledger!Next]_(Ledger!ledgerVars)
  BY <1>1, CallStep
<1> QED
  BY <1>2, <1>3, PlumbInvariant, FreshInvariant, RefusalInvariant, PTL DEF Spec, PaymentAssumed, Ledger!Spec
=============================================================================
