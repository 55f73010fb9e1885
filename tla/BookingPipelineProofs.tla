----------------------- MODULE BookingPipelineProofs -----------------------
(***************************************************************************)
(* Proofs about BookingPipeline, for every set of requests, workers, users *)
(* and seats, every batch size and every choice of what may fail.          *)
(*                                                                         *)
(* Plumb says how rows, stream, pending entries and batches hang together: *)
(* it makes the type invariant inductive, and every other invariant rests  *)
(* on it.                                                                  *)
(***************************************************************************)
EXTENDS BookingPipeline, SequenceTheorems, TLAPS

\* A row, a stream entry and a call exist in the order the code makes them.
RowsInv ==
    \A r \in Requests :
        /\ body[r] = Null <=> api[r] = "idle"
        /\ status[r] = "NONE" <=> api[r] = "idle"
        /\ call[r] # "none" => api[r] = "done"

\* The stream holds each published request once, the PEL delivered ones only.
StreamInv ==
    /\ \A i \in 1..Len(stream) : api[stream[i]] = "done"
    /\ \A i, j \in 1..Len(stream) : stream[i] = stream[j] => i = j
    /\ \A r \in pel : \E i \in 1..lastId : stream[i] = r

\* A worker has a current request exactly when it is at work.
BatchInv == \A w \in Workers : pc[w] \in {"idle", "down"} <=> batch[w] = <<>>

Plumb == TypeOK /\ RowsInv /\ StreamInv /\ BatchInv /\ DeliveredToOne

-----------------------------------------------------------------------------
\* What a worker holds is a published request, so its row exists.
LEMMA CurrentIsPublished ==
    ASSUME Plumb, NEW w \in Workers, pc[w] \notin {"idle", "down"}
    PROVE  /\ Len(batch[w]) \in Nat \ {0}
           /\ Current(w) = batch[w][1]
           /\ Current(w) \in Requests
           /\ Current(w) \in pel
           /\ api[Current(w)] = "done"
           /\ body[Current(w)] \in Inputs
<1>1. batch[w] # <<>> /\ batch[w] \in Seq(Requests)
  BY DEF Plumb, BatchInv, TypeOK
<1>2. Len(batch[w]) \in Nat \ {0} /\ Current(w) = batch[w][1]
  BY <1>1 DEF Current
<1>3. Current(w) \in Requests
  BY <1>1, <1>2
<1>4. Current(w) \in pel
  BY <1>2 DEF Plumb, DeliveredToOne
<1>5. api[Current(w)] = "done"
  BY <1>4 DEF Plumb, StreamInv, TypeOK
<1>6. body[Current(w)] \in Inputs
  BY <1>3, <1>5 DEF Plumb, RowsInv, TypeOK
<1> QED
  BY <1>2, <1>3, <1>4, <1>5, <1>6

\* What a recorded request names exists, and so do its booking and its payment.
LEMMA CostIsNat ==
    ASSUME NEW r \in Requests, body[r] \in Inputs
    PROVE  /\ User(r) \in Users /\ Seat(r) \in Seats /\ Cost(r) \in Nat
           /\ NewBooking(r) \in Booking /\ NewPayment(r) \in Payment
  BY PipelineAssumption DEF User, Seat, Cost, Input, NewBooking, NewPayment, Booking, Payment

\* A sequence is empty exactly when its length is 0.
LEMMA EmptyIffNoLen ==
    ASSUME NEW S, NEW t \in Seq(S)
    PROVE  t = <<>> <=> Len(t) = 0
  BY EmptySeq

\* What XREADGROUP delivers: the entries that follow the last one delivered.
LEMMA NextBatchFacts ==
    ASSUME Plumb, lastId < Len(stream)
    PROVE  /\ NextBatch \in Seq(Requests)
           /\ Len(NextBatch) \in Nat \ {0}
           /\ lastId + Len(NextBatch) \in 0..Len(stream)
           /\ \A i \in 1..Len(NextBatch) : NextBatch[i] = stream[lastId + i]
<1> DEFINE n == IF Len(stream) - lastId < BatchSize THEN Len(stream) - lastId ELSE BatchSize
<1>1. stream \in Seq(Requests) /\ Len(stream) \in Nat /\ lastId \in Nat
  BY DEF Plumb, TypeOK
<1>2. n \in Nat \ {0} /\ lastId + n <= Len(stream)
  BY <1>1, PipelineAssumption
<1>3. NextBatch = SubSeq(stream, lastId + 1, lastId + n)
  BY DEF NextBatch
<1> HIDE DEF n
<1>4. NextBatch \in Seq(Requests) /\ Len(NextBatch) = n
  BY <1>1, <1>2, <1>3
<1>5. \A i \in 1..n : NextBatch[i] = stream[lastId + i]
  BY <1>1, <1>2, <1>3
<1> QED
  BY <1>1, <1>2, <1>4, <1>5

\* The call of a deduction that was committed is answered one way or the other.
LEMMA DeductIsAnswered ==
    ASSUME NEW r \in Requests, Deduct(r)
    PROVE  /\ DeductAnswers \subseteq {"paid", "error"}
           /\ \E a \in DeductAnswers : call' = [call EXCEPT ![r] = a]
  BY DEF Deduct, DeductAnswers

-----------------------------------------------------------------------------
(* Plumb is inductive, one step per action.  Most actions move a label and *)
(* leave stream, PEL and batches alone; the ones that need an argument are *)
(* Publish (the new entry is new), ReadBatch and ReadAnswerLost (what is   *)
(* delivered was never delivered, hence in no batch) and Ack (what leaves  *)
(* the PEL is in no other batch, nor twice in this one).                   *)

\* Every step of the system, failures included, preserves Plumb.
LEMMA PlumbStep == Plumb /\ [Next]_vars => Plumb'
<1> SUFFICES ASSUME Plumb, [Next]_vars PROVE Plumb'
  OBVIOUS
<1> USE DEF vars, dbVars, redisVars, paymentVars, workerVars
<1>1. ASSUME NEW r \in Requests, NEW b \in Inputs, CreateRequest(r, b) PROVE Plumb'
  <2>1. TypeOK'
    BY <1>1 DEF Plumb, TypeOK, InTx, Refusals, Reasons, Terminal, CreateRequest
  <2>2. RowsInv'
    BY <1>1, PipelineAssumption DEF Plumb, RowsInv, TypeOK, CreateRequest
  <2>3. StreamInv'
    BY <1>1 DEF Plumb, StreamInv, RowsInv, TypeOK, CreateRequest
  <2>4. BatchInv'
    BY <1>1 DEF Plumb, BatchInv, TypeOK, InTx, CreateRequest
  <2>5. DeliveredToOne'
    BY <1>1 DEF Plumb, DeliveredToOne, TypeOK, CreateRequest
  <2> QED
    BY <2>1, <2>2, <2>3, <2>4, <2>5 DEF Plumb
<1>2. ASSUME NEW r \in Requests, Publish(r) PROVE Plumb'
  <2>1. TypeOK'
    BY <1>2 DEF Plumb, TypeOK, InTx, Refusals, Reasons, Terminal, Publish
  <2>2. RowsInv'
    BY <1>2 DEF Plumb, RowsInv, TypeOK, Publish
  <2>3. StreamInv'
    BY <1>2 DEF Plumb, StreamInv, RowsInv, TypeOK, Publish
  <2>4. BatchInv'
    BY <1>2 DEF Plumb, BatchInv, TypeOK, InTx, Publish
  <2>5. DeliveredToOne'
    BY <1>2 DEF Plumb, DeliveredToOne, TypeOK, Publish
  <2> QED
    BY <2>1, <2>2, <2>3, <2>4, <2>5 DEF Plumb
<1>3. ASSUME NEW r \in Requests, PublishFails(r) PROVE Plumb'
  <2>1. TypeOK'
    BY <1>3 DEF Plumb, TypeOK, InTx, Refusals, Reasons, Terminal, PublishFails
  <2>2. RowsInv'
    BY <1>3 DEF Plumb, RowsInv, TypeOK, PublishFails
  <2>3. StreamInv'
    BY <1>3 DEF Plumb, StreamInv, RowsInv, TypeOK, PublishFails
  <2>4. BatchInv'
    BY <1>3 DEF Plumb, BatchInv, TypeOK, InTx, PublishFails
  <2>5. DeliveredToOne'
    BY <1>3 DEF Plumb, DeliveredToOne, TypeOK, PublishFails
  <2> QED
    BY <2>1, <2>2, <2>3, <2>4, <2>5 DEF Plumb
<1>4. ASSUME NEW r \in Requests, Deduct(r) PROVE Plumb'
  <2>0. body[r] \in Inputs /\ Cost(r) \in Nat /\ User(r) \in Users /\ NewPayment(r) \in Payment
    <3>1. api[r] = "done"
      BY <1>4 DEF Plumb, RowsInv, Deduct
    <3>2. body[r] \in Inputs
      BY <3>1 DEF Plumb, RowsInv, TypeOK
    <3> QED
      BY <3>2, CostIsNat
  <2>1. TypeOK'
    <3>1. PICK a \in {"paid", "error"} : call' = [call EXCEPT ![r] = a]
      BY <1>4, DeductIsAnswered
    <3> QED
      BY <1>4, <2>0, <3>1 DEF Plumb, TypeOK, InTx, Refusals, Reasons, Terminal, Deduct
  <2>2. RowsInv'
    BY <1>4, <2>0 DEF Plumb, RowsInv, TypeOK, Deduct
  <2>3. StreamInv'
    BY <1>4, <2>0 DEF Plumb, StreamInv, RowsInv, TypeOK, Deduct
  <2>4. BatchInv'
    BY <1>4, <2>0 DEF Plumb, BatchInv, TypeOK, InTx, Deduct
  <2>5. DeliveredToOne'
    BY <1>4, <2>0 DEF Plumb, DeliveredToOne, TypeOK, Deduct
  <2> QED
    BY <2>1, <2>2, <2>3, <2>4, <2>5 DEF Plumb
<1>5. ASSUME NEW r \in Requests, RefuseDeduct(r) PROVE Plumb'
  <2>1. TypeOK'
    BY <1>5 DEF Plumb, TypeOK, InTx, Refusals, Reasons, Terminal, RefuseDeduct
  <2>2. RowsInv'
    BY <1>5 DEF Plumb, RowsInv, TypeOK, RefuseDeduct
  <2>3. StreamInv'
    BY <1>5 DEF Plumb, StreamInv, RowsInv, TypeOK, RefuseDeduct
  <2>4. BatchInv'
    BY <1>5 DEF Plumb, BatchInv, TypeOK, InTx, RefuseDeduct
  <2>5. DeliveredToOne'
    BY <1>5 DEF Plumb, DeliveredToOne, TypeOK, RefuseDeduct
  <2> QED
    BY <2>1, <2>2, <2>3, <2>4, <2>5 DEF Plumb
<1>6. ASSUME NEW r \in Requests, DeductFails(r) PROVE Plumb'
  <2>1. TypeOK'
    BY <1>6 DEF Plumb, TypeOK, InTx, Refusals, Reasons, Terminal, DeductFails
  <2>2. RowsInv'
    BY <1>6 DEF Plumb, RowsInv, TypeOK, DeductFails
  <2>3. StreamInv'
    BY <1>6 DEF Plumb, StreamInv, RowsInv, TypeOK, DeductFails
  <2>4. BatchInv'
    BY <1>6 DEF Plumb, BatchInv, TypeOK, InTx, DeductFails
  <2>5. DeliveredToOne'
    BY <1>6 DEF Plumb, DeliveredToOne, TypeOK, DeductFails
  <2> QED
    BY <2>1, <2>2, <2>3, <2>4, <2>5 DEF Plumb
<1>7. ASSUME NEW w \in Workers, ReadBatch(w) PROVE Plumb'
  <2>0. /\ NextBatch \in Seq(Requests)
        /\ Len(NextBatch) \in Nat \ {0}
        /\ lastId + Len(NextBatch) \in 0..Len(stream)
        /\ \A i \in 1..Len(NextBatch) : NextBatch[i] = stream[lastId + i]
        /\ \A x : x \in pel' <=> x \in pel \/ \E i \in 1..Len(NextBatch) : x = NextBatch[i]
    BY <1>7, NextBatchFacts DEF ReadBatch, Deliver
  <2>1. TypeOK'
    BY <1>7, <2>0 DEF Plumb, TypeOK, InTx, Refusals, Reasons, Terminal, ReadBatch, Deliver, Goto
  <2>2. RowsInv'
    BY <1>7, <2>0 DEF Plumb, RowsInv, TypeOK, ReadBatch, Deliver, Goto
  <2>3. StreamInv'
    <3>1. \A x \in pel' : \E i \in 1..lastId' : stream[i] = x
      <4> SUFFICES ASSUME NEW x \in pel' PROVE \E i \in 1..lastId' : stream[i] = x
        OBVIOUS
      <4>1. lastId' = lastId + Len(NextBatch) /\ lastId \in Nat
        BY <1>7 DEF ReadBatch, Deliver, Plumb, TypeOK
      <4>2. CASE x \in pel
        BY <2>0, <4>1, <4>2 DEF Plumb, StreamInv
      <4>3. CASE \E i \in 1..Len(NextBatch) : x = NextBatch[i]
        <5>1. PICK i \in 1..Len(NextBatch) : x = NextBatch[i]
          BY <4>3
        <5>2. lastId + i \in 1..lastId' /\ stream[lastId + i] = x
          BY <2>0, <4>1, <5>1
        <5> QED
          BY <5>2
      <4> QED
        BY <2>0, <4>2, <4>3
    <3> QED
      BY <1>7, <3>1 DEF Plumb, StreamInv, ReadBatch, Deliver
  <2>4. BatchInv'
    BY <1>7, <2>0 DEF Plumb, BatchInv, TypeOK, InTx, ReadBatch, Deliver, Goto
  <2>5. DeliveredToOne'
    <3>1. \A i \in 1..Len(NextBatch) : NextBatch[i] \notin pel
      <4> SUFFICES ASSUME NEW i \in 1..Len(NextBatch), NextBatch[i] \in pel PROVE FALSE
        OBVIOUS
      <4>1. PICK j \in 1..lastId : stream[j] = NextBatch[i]
        BY DEF Plumb, StreamInv
      <4>2. lastId + i \in 1..Len(stream) /\ j \in 1..Len(stream) /\ j # lastId + i
        BY <2>0, <4>1 DEF Plumb, TypeOK
      <4> QED
        BY <2>0, <4>1, <4>2 DEF Plumb, StreamInv
    <3>2. \A i, j \in 1..Len(NextBatch) : NextBatch[i] = NextBatch[j] => i = j
      <4> SUFFICES ASSUME NEW i \in 1..Len(NextBatch), NEW j \in 1..Len(NextBatch), NextBatch[i] = NextBatch[j]
                   PROVE  i = j
        OBVIOUS
      <4>1. lastId + i \in 1..Len(stream) /\ lastId + j \in 1..Len(stream)
        BY <2>0 DEF Plumb, TypeOK
      <4>2. lastId + i = lastId + j
        BY <2>0, <4>1 DEF Plumb, StreamInv
      <4> QED
        BY <4>2 DEF Plumb, TypeOK
    <3>3. batch[w] = <<>>
      BY <1>7 DEF Plumb, BatchInv, ReadBatch
    <3>4. ASSUME NEW v \in Workers PROVE batch'[v] = IF v = w THEN NextBatch ELSE batch[v]
      BY <1>7 DEF ReadBatch, Plumb, TypeOK
    <3>5. \A v \in Workers : \A i \in DOMAIN batch'[v] : batch'[v][i] \in pel'
      BY <2>0, <3>4 DEF Plumb, DeliveredToOne
    <3>6. ASSUME NEW v \in Workers, NEW u \in Workers, NEW i \in DOMAIN batch'[v], NEW j \in DOMAIN batch'[u],
                 batch'[v][i] = batch'[u][j]
          PROVE  v = u /\ i = j
      <4>1. CASE v = w /\ u = w
        BY <2>0, <3>2, <3>4, <3>6, <4>1
      <4>2. CASE v = w /\ u # w
        BY <2>0, <3>1, <3>4, <3>6, <4>2 DEF Plumb, DeliveredToOne
      <4>3. CASE v # w /\ u = w
        BY <2>0, <3>1, <3>4, <3>6, <4>3 DEF Plumb, DeliveredToOne
      <4>4. CASE v # w /\ u # w
        BY <3>4, <3>6, <4>4 DEF Plumb, DeliveredToOne
      <4> QED
        BY <4>1, <4>2, <4>3, <4>4
    <3> QED
      BY <3>5, <3>6 DEF DeliveredToOne
  <2> QED
    BY <2>1, <2>2, <2>3, <2>4, <2>5 DEF Plumb
<1>8. ASSUME NEW w \in Workers, ReadAnswerLost(w) PROVE Plumb'
  <2>0. /\ NextBatch \in Seq(Requests)
        /\ Len(NextBatch) \in Nat \ {0}
        /\ lastId + Len(NextBatch) \in 0..Len(stream)
        /\ \A i \in 1..Len(NextBatch) : NextBatch[i] = stream[lastId + i]
        /\ \A x : x \in pel' <=> x \in pel \/ \E i \in 1..Len(NextBatch) : x = NextBatch[i]
    BY <1>8, NextBatchFacts DEF ReadAnswerLost, Deliver
  <2>1. TypeOK'
    BY <1>8, <2>0 DEF Plumb, TypeOK, InTx, Refusals, Reasons, Terminal, ReadAnswerLost, Deliver, Goto
  <2>2. RowsInv'
    BY <1>8, <2>0 DEF Plumb, RowsInv, TypeOK, ReadAnswerLost, Deliver, Goto
  <2>3. StreamInv'
    <3>1. \A x \in pel' : \E i \in 1..lastId' : stream[i] = x
      <4> SUFFICES ASSUME NEW x \in pel' PROVE \E i \in 1..lastId' : stream[i] = x
        OBVIOUS
      <4>1. lastId' = lastId + Len(NextBatch) /\ lastId \in Nat
        BY <1>8 DEF ReadAnswerLost, Deliver, Plumb, TypeOK
      <4>2. CASE x \in pel
        BY <2>0, <4>1, <4>2 DEF Plumb, StreamInv
      <4>3. CASE \E i \in 1..Len(NextBatch) : x = NextBatch[i]
        <5>1. PICK i \in 1..Len(NextBatch) : x = NextBatch[i]
          BY <4>3
        <5>2. lastId + i \in 1..lastId' /\ stream[lastId + i] = x
          BY <2>0, <4>1, <5>1
        <5> QED
          BY <5>2
      <4> QED
        BY <2>0, <4>2, <4>3
    <3> QED
      BY <1>8, <3>1 DEF Plumb, StreamInv, ReadAnswerLost, Deliver
  <2>4. BatchInv'
    BY <1>8, <2>0 DEF Plumb, BatchInv, TypeOK, InTx, ReadAnswerLost, Deliver, Goto
  <2>5. DeliveredToOne'
    BY <1>8, <2>0 DEF Plumb, DeliveredToOne, TypeOK, ReadAnswerLost, Deliver, Goto
  <2> QED
    BY <2>1, <2>2, <2>3, <2>4, <2>5 DEF Plumb
<1>9. ASSUME NEW w \in Workers, Ack(w) PROVE Plumb'
  <2>0. /\ batch[w] \in Seq(Requests) /\ batch[w] # <<>> /\ Len(batch[w]) \in Nat \ {0}
        /\ Current(w) = batch[w][1]
    BY <1>9, CurrentIsPublished DEF Ack, Plumb, BatchInv, TypeOK
  <2>a. \A v \in Workers : batch'[v] = IF v = w THEN Tail(batch[w]) ELSE batch[v]
    BY <1>9 DEF Ack, Plumb, TypeOK
  <2>b. /\ Tail(batch[w]) \in Seq(Requests) /\ Len(Tail(batch[w])) = Len(batch[w]) - 1
        /\ \A i \in 1..Len(Tail(batch[w])) : Tail(batch[w])[i] = batch[w][i + 1]
    BY <2>0, HeadTailProperties
  <2>c. Tail(batch[w]) = <<>> <=> Len(batch[w]) = 1
    <3> DEFINE t == Tail(batch[w])
    <3>1. t \in Seq(Requests) /\ Len(t) = Len(batch[w]) - 1
      BY <2>b
    <3> HIDE DEF t
    <3>2. t = <<>> <=> Len(t) = 0
      BY <3>1, EmptyIffNoLen, Zenon
    <3>3. t = <<>> <=> Len(batch[w]) = 1
      BY <2>0, <3>1, <3>2
    <3> QED
      BY <3>3 DEF t
  <2>1. TypeOK'
    BY <1>9, <2>0, <2>a, <2>b, <2>c DEF Plumb, TypeOK, InTx, Refusals, Reasons, Terminal, Ack
  <2>2. RowsInv'
    BY <1>9, <2>0, <2>a, <2>b, <2>c DEF Plumb, RowsInv, TypeOK, Ack
  <2>3. StreamInv'
    BY <1>9, <2>0, <2>a, <2>b, <2>c DEF Plumb, StreamInv, RowsInv, TypeOK, Ack
  <2>4. BatchInv'
    <3>1. pc'[w] \in {"idle", "down"} <=> batch'[w] = <<>>
      BY <1>9, <2>0, <2>a, <2>b, <2>c DEF Ack, Plumb, TypeOK
    <3> QED
      BY <1>9, <2>a, <3>1 DEF Ack, Plumb, BatchInv, TypeOK
  <2>5. DeliveredToOne'
    <3>1. ASSUME NEW v \in Workers, NEW i \in 1..Len(batch'[v])
          PROVE  \E k \in 1..Len(batch[v]) :
                    /\ batch'[v][i] = batch[v][k]
                    /\ k = IF v = w THEN i + 1 ELSE i
      <4>1. CASE v = w
        <5>1. i \in 1..Len(Tail(batch[w])) /\ batch'[v][i] = Tail(batch[w])[i]
          BY <2>a, <3>1, <4>1
        <5>2. i + 1 \in 1..Len(batch[w]) /\ batch'[v][i] = batch[w][i + 1]
          BY <2>0, <2>b, <5>1
        <5> QED
          BY <4>1, <5>2
      <4>2. CASE v # w
        BY <2>a, <3>1, <4>2
      <4> QED
        BY <4>1, <4>2
    <3>2. \A v \in Workers : DOMAIN batch[v] = 1..Len(batch[v]) /\ DOMAIN batch'[v] = 1..Len(batch'[v])
      BY <2>a, <2>b DEF Plumb, TypeOK
    <3>3. ASSUME NEW v \in Workers, NEW i \in 1..Len(batch'[v]) PROVE batch'[v][i] \in pel'
      <4>1. PICK k \in 1..Len(batch[v]) : batch'[v][i] = batch[v][k] /\ k = IF v = w THEN i + 1 ELSE i
        BY <3>1, <3>3
      <4>2. 1 \in 1..Len(batch[w]) /\ ~(v = w /\ k = 1)
        BY <2>0, <3>3, <4>1
      <4>3. batch[v][k] # batch[w][1] /\ batch[v][k] \in pel
        BY <3>2, <4>1, <4>2 DEF Plumb, DeliveredToOne
      <4> QED
        BY <1>9, <2>0, <4>1, <4>3 DEF Ack
    <3>4. ASSUME NEW v \in Workers, NEW u \in Workers,
                 NEW i \in 1..Len(batch'[v]), NEW j \in 1..Len(batch'[u]), batch'[v][i] = batch'[u][j]
          PROVE  v = u /\ i = j
      <4>1. PICK k \in 1..Len(batch[v]) : batch'[v][i] = batch[v][k] /\ k = IF v = w THEN i + 1 ELSE i
        BY <3>1, <3>4
      <4>2. PICK l \in 1..Len(batch[u]) : batch'[u][j] = batch[u][l] /\ l = IF u = w THEN j + 1 ELSE j
        BY <3>1, <3>4
      <4>3. v = u /\ k = l
        <5>1. k \in DOMAIN batch[v] /\ l \in DOMAIN batch[u] /\ batch[v][k] = batch[u][l]
          BY <3>2, <3>4, <4>1, <4>2
        <5> QED
          BY <5>1 DEF Plumb, DeliveredToOne
      <4> QED
        BY <3>4, <4>1, <4>2, <4>3
    <3> QED
      BY <3>2, <3>3, <3>4 DEF DeliveredToOne
  <2> QED
    BY <2>1, <2>2, <2>3, <2>4, <2>5 DEF Plumb
<1>10. ASSUME NEW w \in Workers, AcquireSeatLock(w) PROVE Plumb'
  <2> DEFINE r == Current(w)
  <2>0. r \in Requests /\ r \in pel /\ api[r] = "done" /\ body[r] \in Inputs
    BY <1>10, CurrentIsPublished DEF AcquireSeatLock
  <2> HIDE DEF r
  <2>1. TypeOK'
    BY <1>10, <2>0 DEF Plumb, TypeOK, InTx, Refusals, Reasons, Terminal, AcquireSeatLock, Goto
  <2>2. RowsInv'
    BY <1>10, <2>0 DEF Plumb, RowsInv, TypeOK, AcquireSeatLock, Goto
  <2>3. StreamInv'
    BY <1>10, <2>0 DEF Plumb, StreamInv, RowsInv, TypeOK, AcquireSeatLock, Goto
  <2>4. BatchInv'
    BY <1>10, <2>0 DEF Plumb, BatchInv, TypeOK, InTx, AcquireSeatLock, Goto
  <2>5. DeliveredToOne'
    BY <1>10, <2>0 DEF Plumb, DeliveredToOne, TypeOK, AcquireSeatLock, Goto
  <2> QED
    BY <2>1, <2>2, <2>3, <2>4, <2>5 DEF Plumb
<1>11. ASSUME NEW w \in Workers, CheckSeat(w) PROVE Plumb'
  <2>1. TypeOK'
    <3>1. why' \in [Workers -> Refusals]
      BY <1>11 DEF CheckSeat, Plumb, TypeOK, Refusals
    <3>2. \E l \in {"reject", "lookup"} : pc' = [pc EXCEPT ![w] = l]
      BY <1>11 DEF CheckSeat, Goto
    <3>3. pc' \in [Workers -> {"idle", "begin", "failing", "ack", "down"} \cup InTx]
      BY <3>2 DEF Plumb, TypeOK, InTx
    <3> QED
      BY <1>11, <3>1, <3>3 DEF CheckSeat, Plumb, TypeOK
  <2>2. RowsInv'
    BY <1>11 DEF Plumb, RowsInv, TypeOK, CheckSeat, Goto
  <2>3. StreamInv'
    BY <1>11 DEF Plumb, StreamInv, RowsInv, TypeOK, CheckSeat, Goto
  <2>4. BatchInv'
    <3>1. \A v \in Workers : pc'[v] \in {"idle", "down"} <=> pc[v] \in {"idle", "down"}
      BY <1>11 DEF CheckSeat, Goto, Plumb, TypeOK
    <3> QED
      BY <1>11, <3>1 DEF CheckSeat, Plumb, BatchInv
  <2>5. DeliveredToOne'
    BY <1>11 DEF Plumb, DeliveredToOne, TypeOK, CheckSeat, Goto
  <2> QED
    BY <2>1, <2>2, <2>3, <2>4, <2>5 DEF Plumb
<1>12. ASSUME NEW w \in Workers, SendDeduct(w) PROVE Plumb'
  <2> DEFINE r == Current(w)
  <2>0. r \in Requests /\ r \in pel /\ api[r] = "done" /\ body[r] \in Inputs
    BY <1>12, CurrentIsPublished DEF SendDeduct
  <2> HIDE DEF r
  <2>1. TypeOK'
    BY <1>12, <2>0 DEF Plumb, TypeOK, InTx, Refusals, Reasons, Terminal, SendDeduct, Goto, r
  <2>2. RowsInv'
    BY <1>12, <2>0 DEF Plumb, RowsInv, TypeOK, SendDeduct, Goto, r
  <2>3. StreamInv'
    BY <1>12, <2>0 DEF Plumb, StreamInv, RowsInv, TypeOK, SendDeduct, Goto, r
  <2>4. BatchInv'
    BY <1>12, <2>0 DEF Plumb, BatchInv, TypeOK, InTx, SendDeduct, Goto, r
  <2>5. DeliveredToOne'
    BY <1>12, <2>0 DEF Plumb, DeliveredToOne, TypeOK, SendDeduct, Goto, r
  <2> QED
    BY <2>1, <2>2, <2>3, <2>4, <2>5 DEF Plumb
<1>13. ASSUME NEW w \in Workers, ReceivePaid(w) PROVE Plumb'
  <2>1. TypeOK'
    BY <1>13 DEF Plumb, TypeOK, InTx, Refusals, Reasons, Terminal, ReceivePaid, Goto
  <2>2. RowsInv'
    BY <1>13 DEF Plumb, RowsInv, TypeOK, ReceivePaid, Goto
  <2>3. StreamInv'
    BY <1>13 DEF Plumb, StreamInv, RowsInv, TypeOK, ReceivePaid, Goto
  <2>4. BatchInv'
    BY <1>13 DEF Plumb, BatchInv, TypeOK, InTx, ReceivePaid, Goto
  <2>5. DeliveredToOne'
    BY <1>13 DEF Plumb, DeliveredToOne, TypeOK, ReceivePaid, Goto
  <2> QED
    BY <2>1, <2>2, <2>3, <2>4, <2>5 DEF Plumb
<1>14. ASSUME NEW w \in Workers, ReceiveRefusal(w) PROVE Plumb'
  <2>1. TypeOK'
    BY <1>14 DEF Plumb, TypeOK, InTx, Refusals, Reasons, Terminal, ReceiveRefusal, Goto
  <2>2. RowsInv'
    BY <1>14 DEF Plumb, RowsInv, TypeOK, ReceiveRefusal, Goto
  <2>3. StreamInv'
    BY <1>14 DEF Plumb, StreamInv, RowsInv, TypeOK, ReceiveRefusal, Goto
  <2>4. BatchInv'
    BY <1>14 DEF Plumb, BatchInv, TypeOK, InTx, ReceiveRefusal, Goto
  <2>5. DeliveredToOne'
    BY <1>14 DEF Plumb, DeliveredToOne, TypeOK, ReceiveRefusal, Goto
  <2> QED
    BY <2>1, <2>2, <2>3, <2>4, <2>5 DEF Plumb
<1>15. ASSUME NEW w \in Workers, Confirm(w) PROVE Plumb'
  <2> DEFINE r == Current(w)
  <2>0. /\ r \in Requests /\ api[r] = "done" /\ body[r] \in Inputs /\ NewBooking(r) \in Booking
        /\ \E next \in {"ack", "failing"} : pc' = [pc EXCEPT ![w] = next]
    BY <1>15, CurrentIsPublished, CostIsNat DEF Confirm, AfterCommit, Goto
  <2> HIDE DEF r
  <2>1. TypeOK'
    <3>1. status' \in [Requests -> {"NONE", "PENDING"} \cup Terminal] /\ reason' \in [Requests -> Reasons \cup {"NULL"}]
      BY <1>15, <2>0 DEF Confirm, SetRequestStatus, Plumb, TypeOK, Terminal, Reasons, Refusals, r
    <3>2. pc' \in [Workers -> {"idle", "begin", "failing", "ack", "down"} \cup InTx]
      BY <2>0 DEF Plumb, TypeOK, InTx
    <3>3. bookings' \subseteq Booking /\ linked' \subseteq Requests
      BY <1>15, <2>0 DEF Confirm, Plumb, TypeOK, r
    <3> QED
      BY <1>15, <3>1, <3>2, <3>3 DEF Confirm, EndTx, Plumb, TypeOK
  <2>2. RowsInv'
    <3>1. status' = [status EXCEPT ![r] = "CONFIRMED"]
      BY <1>15 DEF Confirm, SetRequestStatus, r
    <3> QED
      BY <1>15, <2>0, <3>1 DEF Confirm, Plumb, RowsInv, TypeOK
  <2>3. StreamInv'
    BY <1>15, <2>0 DEF Plumb, StreamInv, RowsInv, TypeOK, Confirm
  <2>4. BatchInv'
    BY <1>15, <2>0 DEF Plumb, BatchInv, TypeOK, InTx, Confirm
  <2>5. DeliveredToOne'
    BY <1>15, <2>0 DEF Plumb, DeliveredToOne, TypeOK, Confirm
  <2> QED
    BY <2>1, <2>2, <2>3, <2>4, <2>5 DEF Plumb
<1>16. ASSUME NEW w \in Workers, InsertConflicts(w) PROVE Plumb'
  <2>1. TypeOK'
    BY <1>16 DEF Plumb, TypeOK, InTx, Refusals, Reasons, Terminal, InsertConflicts, Goto
  <2>2. RowsInv'
    BY <1>16 DEF Plumb, RowsInv, TypeOK, InsertConflicts, Goto
  <2>3. StreamInv'
    BY <1>16 DEF Plumb, StreamInv, RowsInv, TypeOK, InsertConflicts, Goto
  <2>4. BatchInv'
    BY <1>16 DEF Plumb, BatchInv, TypeOK, InTx, InsertConflicts, Goto
  <2>5. DeliveredToOne'
    BY <1>16 DEF Plumb, DeliveredToOne, TypeOK, InsertConflicts, Goto
  <2> QED
    BY <2>1, <2>2, <2>3, <2>4, <2>5 DEF Plumb
<1>17. ASSUME NEW w \in Workers, Reject(w) PROVE Plumb'
  <2> DEFINE r == Current(w)
  <2>0. /\ r \in Requests /\ api[r] = "done" /\ body[r] \in Inputs /\ NewBooking(r) \in Booking
        /\ \E next \in {"ack", "failing"} : pc' = [pc EXCEPT ![w] = next]
    BY <1>17, CurrentIsPublished, CostIsNat DEF Reject, AfterCommit, Goto
  <2> HIDE DEF r
  <2>1. TypeOK'
    <3>1. status' \in [Requests -> {"NONE", "PENDING"} \cup Terminal] /\ reason' \in [Requests -> Reasons \cup {"NULL"}]
      BY <1>17, <2>0 DEF Reject, SetRequestStatus, Plumb, TypeOK, Terminal, Reasons, Refusals, r
    <3>2. pc' \in [Workers -> {"idle", "begin", "failing", "ack", "down"} \cup InTx]
      BY <2>0 DEF Plumb, TypeOK, InTx
    <3>3. bookings' \subseteq Booking /\ linked' \subseteq Requests
      BY <1>17, <2>0 DEF Reject, Plumb, TypeOK, r
    <3> QED
      BY <1>17, <3>1, <3>2, <3>3 DEF Reject, EndTx, Plumb, TypeOK
  <2>2. RowsInv'
    <3>1. status' = [status EXCEPT ![r] = "FAILED"]
      BY <1>17 DEF Reject, SetRequestStatus, r
    <3> QED
      BY <1>17, <2>0, <3>1 DEF Reject, Plumb, RowsInv, TypeOK
  <2>3. StreamInv'
    BY <1>17, <2>0 DEF Plumb, StreamInv, RowsInv, TypeOK, Reject
  <2>4. BatchInv'
    BY <1>17, <2>0 DEF Plumb, BatchInv, TypeOK, InTx, Reject
  <2>5. DeliveredToOne'
    BY <1>17, <2>0 DEF Plumb, DeliveredToOne, TypeOK, Reject
  <2> QED
    BY <2>1, <2>2, <2>3, <2>4, <2>5 DEF Plumb
<1>18. ASSUME NEW w \in Workers, LookupFails(w) PROVE Plumb'
  <2>1. TypeOK'
    BY <1>18 DEF Plumb, TypeOK, InTx, Refusals, Reasons, Terminal, LookupFails, Raise, Goto, EndTx
  <2>2. RowsInv'
    BY <1>18 DEF Plumb, RowsInv, TypeOK, LookupFails, Raise, Goto, EndTx
  <2>3. StreamInv'
    BY <1>18 DEF Plumb, StreamInv, RowsInv, TypeOK, LookupFails, Raise, Goto, EndTx
  <2>4. BatchInv'
    BY <1>18 DEF Plumb, BatchInv, TypeOK, InTx, LookupFails, Raise, Goto, EndTx
  <2>5. DeliveredToOne'
    BY <1>18 DEF Plumb, DeliveredToOne, TypeOK, LookupFails, Raise, Goto, EndTx
  <2> QED
    BY <2>1, <2>2, <2>3, <2>4, <2>5 DEF Plumb
<1>19. ASSUME NEW w \in Workers, DeductTimesOut(w) PROVE Plumb'
  <2>1. TypeOK'
    BY <1>19 DEF Plumb, TypeOK, InTx, Refusals, Reasons, Terminal, DeductTimesOut, Raise, Goto, EndTx
  <2>2. RowsInv'
    BY <1>19 DEF Plumb, RowsInv, TypeOK, DeductTimesOut, Raise, Goto, EndTx
  <2>3. StreamInv'
    BY <1>19 DEF Plumb, StreamInv, RowsInv, TypeOK, DeductTimesOut, Raise, Goto, EndTx
  <2>4. BatchInv'
    BY <1>19 DEF Plumb, BatchInv, TypeOK, InTx, DeductTimesOut, Raise, Goto, EndTx
  <2>5. DeliveredToOne'
    BY <1>19 DEF Plumb, DeliveredToOne, TypeOK, DeductTimesOut, Raise, Goto, EndTx
  <2> QED
    BY <2>1, <2>2, <2>3, <2>4, <2>5 DEF Plumb
<1>20. ASSUME NEW w \in Workers, SessionCut(w) PROVE Plumb'
  <2>1. TypeOK'
    BY <1>20 DEF Plumb, TypeOK, InTx, Refusals, Reasons, Terminal, SessionCut, InTx
  <2>2. RowsInv'
    BY <1>20 DEF Plumb, RowsInv, TypeOK, SessionCut, InTx
  <2>3. StreamInv'
    BY <1>20 DEF Plumb, StreamInv, RowsInv, TypeOK, SessionCut, InTx
  <2>4. BatchInv'
    BY <1>20 DEF Plumb, BatchInv, TypeOK, InTx, SessionCut, InTx
  <2>5. DeliveredToOne'
    BY <1>20 DEF Plumb, DeliveredToOne, TypeOK, SessionCut, InTx
  <2> QED
    BY <2>1, <2>2, <2>3, <2>4, <2>5 DEF Plumb
<1>21. ASSUME NEW w \in Workers, StatementFails(w) PROVE Plumb'
  <2>1. TypeOK'
    BY <1>21 DEF Plumb, TypeOK, InTx, Refusals, Reasons, Terminal, StatementFails, Raise, Goto, EndTx
  <2>2. RowsInv'
    BY <1>21 DEF Plumb, RowsInv, TypeOK, StatementFails, Raise, Goto, EndTx
  <2>3. StreamInv'
    BY <1>21 DEF Plumb, StreamInv, RowsInv, TypeOK, StatementFails, Raise, Goto, EndTx
  <2>4. BatchInv'
    BY <1>21 DEF Plumb, BatchInv, TypeOK, InTx, StatementFails, Raise, Goto, EndTx
  <2>5. DeliveredToOne'
    BY <1>21 DEF Plumb, DeliveredToOne, TypeOK, StatementFails, Raise, Goto, EndTx
  <2> QED
    BY <2>1, <2>2, <2>3, <2>4, <2>5 DEF Plumb
<1>22. ASSUME NEW w \in Workers, MarkFailed(w) PROVE Plumb'
  <2> DEFINE r == Current(w)
  <2>0. r \in Requests /\ r \in pel /\ api[r] = "done" /\ body[r] \in Inputs
    BY <1>22, CurrentIsPublished DEF MarkFailed
  <2> HIDE DEF r
  <2>1. TypeOK'
    BY <1>22, <2>0 DEF Plumb, TypeOK, InTx, Refusals, Reasons, Terminal, MarkFailed, Goto, SetRequestStatus, r
  <2>2. RowsInv'
    <3>1. status' = [status EXCEPT ![r] = "FAILED"]
      BY <1>22 DEF MarkFailed, SetRequestStatus, r
    <3> QED
      BY <1>22, <2>0, <3>1 DEF MarkFailed, Plumb, RowsInv, TypeOK
  <2>3. StreamInv'
    BY <1>22, <2>0 DEF Plumb, StreamInv, RowsInv, TypeOK, MarkFailed, Goto, SetRequestStatus, r
  <2>4. BatchInv'
    BY <1>22, <2>0 DEF Plumb, BatchInv, TypeOK, InTx, MarkFailed, Goto, SetRequestStatus, r
  <2>5. DeliveredToOne'
    BY <1>22, <2>0 DEF Plumb, DeliveredToOne, TypeOK, MarkFailed, Goto, SetRequestStatus, r
  <2> QED
    BY <2>1, <2>2, <2>3, <2>4, <2>5 DEF Plumb
<1>23. ASSUME NEW w \in Workers, MarkFailedRaises(w) PROVE Plumb'
  <2>1. TypeOK'
    BY <1>23 DEF Plumb, TypeOK, InTx, Refusals, Reasons, Terminal, MarkFailedRaises, Die, Goto, EndTx
  <2>2. RowsInv'
    BY <1>23 DEF Plumb, RowsInv, TypeOK, MarkFailedRaises, Die, Goto, EndTx
  <2>3. StreamInv'
    BY <1>23 DEF Plumb, StreamInv, RowsInv, TypeOK, MarkFailedRaises, Die, Goto, EndTx
  <2>4. BatchInv'
    BY <1>23 DEF Plumb, BatchInv, TypeOK, InTx, MarkFailedRaises, Die, Goto, EndTx
  <2>5. DeliveredToOne'
    <3>1. \A v \in Workers : batch'[v] = IF v = w THEN <<>> ELSE batch[v]
      BY <1>23 DEF Die, MarkFailedRaises, Plumb, TypeOK
    <3>2. ASSUME NEW v \in Workers, NEW i \in DOMAIN batch'[v]
          PROVE  v # w /\ i \in DOMAIN batch[v] /\ batch'[v][i] = batch[v][i]
      BY <3>1, <3>2
    <3>3. Len(batch[w]) \in Nat \ {0} /\ batch[w] \in Seq(Requests) /\ Current(w) = batch[w][1] /\ 1 \in DOMAIN batch[w]
      BY <1>23, CurrentIsPublished DEF MarkFailedRaises, Plumb, TypeOK
    <3>4. ASSUME NEW v \in Workers, NEW i \in DOMAIN batch'[v] PROVE batch'[v][i] \in pel'
      BY <1>23, <3>2, <3>3, <3>4 DEF MarkFailedRaises, Plumb, DeliveredToOne
    <3> QED
      BY <3>2, <3>4 DEF Plumb, DeliveredToOne
  <2> QED
    BY <2>1, <2>2, <2>3, <2>4, <2>5 DEF Plumb
<1>24. ASSUME NEW w \in Workers, Crash(w) PROVE Plumb'
  <2>1. TypeOK'
    BY <1>24 DEF Plumb, TypeOK, InTx, Refusals, Reasons, Terminal, Crash, Die, Goto, EndTx
  <2>2. RowsInv'
    BY <1>24 DEF Plumb, RowsInv, TypeOK, Crash, Die, Goto, EndTx
  <2>3. StreamInv'
    BY <1>24 DEF Plumb, StreamInv, RowsInv, TypeOK, Crash, Die, Goto, EndTx
  <2>4. BatchInv'
    BY <1>24 DEF Plumb, BatchInv, TypeOK, InTx, Crash, Die, Goto, EndTx
  <2>5. DeliveredToOne'
    <3>1. \A v \in Workers : batch'[v] = IF v = w THEN <<>> ELSE batch[v]
      BY <1>24 DEF Die, Crash, Plumb, TypeOK
    <3>2. ASSUME NEW v \in Workers, NEW i \in DOMAIN batch'[v]
          PROVE  v # w /\ i \in DOMAIN batch[v] /\ batch'[v][i] = batch[v][i]
      BY <3>1, <3>2
    <3> QED
      BY <1>24, <3>2 DEF Crash, Plumb, DeliveredToOne
  <2> QED
    BY <2>1, <2>2, <2>3, <2>4, <2>5 DEF Plumb
<1>25. ASSUME NEW w \in Workers, Restart(w) PROVE Plumb'
  <2>1. TypeOK'
    BY <1>25 DEF Plumb, TypeOK, InTx, Refusals, Reasons, Terminal, Restart, Goto
  <2>2. RowsInv'
    BY <1>25 DEF Plumb, RowsInv, TypeOK, Restart, Goto
  <2>3. StreamInv'
    BY <1>25 DEF Plumb, StreamInv, RowsInv, TypeOK, Restart, Goto
  <2>4. BatchInv'
    BY <1>25 DEF Plumb, BatchInv, TypeOK, InTx, Restart, Goto
  <2>5. DeliveredToOne'
    BY <1>25 DEF Plumb, DeliveredToOne, TypeOK, Restart, Goto
  <2> QED
    BY <2>1, <2>2, <2>3, <2>4, <2>5 DEF Plumb
<1>26. CASE UNCHANGED vars
  BY <1>26 DEF Plumb, TypeOK, RowsInv, StreamInv, BatchInv, DeliveredToOne
<1> QED
  BY <1>1, <1>2, <1>3, <1>4, <1>5, <1>6, <1>7, <1>8, <1>9, <1>10, <1>11, <1>12, <1>13, <1>14, <1>15, <1>16, <1>17, <1>18, <1>19, <1>20, <1>21, <1>22, <1>23, <1>24, <1>25, <1>26
  DEF Next, ApiStep, PaymentStep, WorkerStep, WorkerFault

\* An empty stream, no rows and idle workers satisfy Plumb.
LEMMA PlumbInit == Init => Plumb
<1> SUFFICES ASSUME Init PROVE Plumb
  OBVIOUS
<1>1. TypeOK
  BY PipelineAssumption DEF Init, TypeOK, InTx, Refusals, Reasons, Terminal
<1>2. RowsInv /\ BatchInv
  BY DEF Init, RowsInv, BatchInv
<1>3. StreamInv /\ DeliveredToOne
  BY DEF Init, StreamInv, DeliveredToOne
<1> QED
  BY <1>1, <1>2, <1>3 DEF Plumb

\* Plumb holds in every reachable state, whatever may fail.
LEMMA PlumbInvariant == Spec => []Plumb
  BY PlumbInit, PlumbStep, PTL DEF Spec

\* The types of all variables, whatever fails.
THEOREM TypeCorrect == Spec => []TypeOK
<1>1. Plumb => TypeOK
  BY DEF Plumb
<1> QED
  BY <1>1, PlumbInvariant, PTL

\* No request is ever in two hands, although workers die with batches unread
\* and XREADGROUP may deliver to nobody.
THEOREM DeliveryIsExclusive == Spec => []DeliveredToOne
<1>1. Plumb => DeliveredToOne
  BY DEF Plumb
<1> QED
  BY <1>1, PlumbInvariant, PTL

-----------------------------------------------------------------------------
\* The guard of the INSERT keeps seats unique with no help from the lock.
LEMMA UniqueStep == TypeOK /\ OneBookingPerSeat /\ [Next]_vars => OneBookingPerSeat'
<1> SUFFICES ASSUME TypeOK, OneBookingPerSeat, [Next]_vars PROVE OneBookingPerSeat'
  OBVIOUS
<1>1. CASE \E w \in Workers : Confirm(w)
  <2>1. PICK w \in Workers : Confirm(w)
    BY <1>1
  <2>2. /\ bookings' = bookings \cup {NewBooking(Current(w))}
        /\ \A b \in bookings : b.seat # Seat(Current(w))
    BY <2>1 DEF Confirm, Booked
  <2>3. NewBooking(Current(w)).seat = Seat(Current(w))
    BY DEF NewBooking
  <2> QED
    BY <2>2, <2>3 DEF OneBookingPerSeat
<1>2. CASE ~\E w \in Workers : Confirm(w)
  <2>1. bookings' = bookings
    BY <1>2 DEF Next, ApiStep, PaymentStep, WorkerStep, WorkerFault, vars, dbVars,
                CreateRequest, Publish, PublishFails, Deduct, RefuseDeduct, DeductFails,
                ReadBatch, ReadAnswerLost, Ack, AcquireSeatLock, CheckSeat, SendDeduct,
                ReceivePaid, ReceiveRefusal, InsertConflicts, Reject, LookupFails,
                DeductTimesOut, SessionCut, StatementFails, MarkFailed, MarkFailedRaises,
                Crash, Restart, Raise
  <2> QED
    BY <2>1 DEF OneBookingPerSeat
<1> QED
  BY <1>1, <1>2

\* Whatever fails, and however many lock keys a seat has, a seat is sold once.
THEOREM SeatSoldOnce == Spec => []OneBookingPerSeat
<1>1. Init => OneBookingPerSeat
  BY DEF Init, OneBookingPerSeat
<1> QED
  BY <1>1, UniqueStep, TypeCorrect, PTL DEF Spec

-----------------------------------------------------------------------------
(* Confirmed means booked and paid, across two databases: the payment is   *)
(* committed before the worker may insert, and a row's columns never       *)
(* change once it exists.                                                  *)

PaymentInv ==
    /\ \A r \in Requests : call[r] = "paid" => NewPayment(r) \in payments
    /\ \A w \in Workers : pc[w] = "insert" => NewPayment(Current(w)) \in payments

SaleInv == ConfirmedIsBookedAndPaid /\ PaymentInv

\* What most steps leave alone.
LEMMA SaleNeutral ==
    ASSUME SaleInv, UNCHANGED <<body, status, linked, bookings, payments>>,
           \A r \in Requests : call'[r] = "paid" => call[r] = "paid",
           \A w \in Workers : pc'[w] = "insert" => pc[w] = "insert" /\ batch'[w] = batch[w]
    PROVE  SaleInv'
<1>1. /\ \A r \in Requests : NewBooking(r)' = NewBooking(r) /\ NewPayment(r)' = NewPayment(r)
      /\ \A w \in Workers : batch'[w] = batch[w] => NewPayment(Current(w))' = NewPayment(Current(w))
  BY DEF NewBooking, NewPayment, User, Seat, Cost, Current
<1>2. ConfirmedIsBookedAndPaid'
  BY <1>1 DEF SaleInv, ConfirmedIsBookedAndPaid
<1>3. PaymentInv'
  BY <1>1 DEF SaleInv, PaymentInv
<1> QED
  BY <1>2, <1>3 DEF SaleInv

\* Every step preserves SaleInv: Deduct records the payment that ReceivePaid
\* sees, and Confirm books what was paid.
LEMMA SaleStep == Plumb /\ SaleInv /\ [Next]_vars => SaleInv'
<1> SUFFICES ASSUME Plumb, SaleInv, [Next]_vars PROVE SaleInv'
  OBVIOUS
<1> USE DEF vars, dbVars, redisVars, paymentVars, workerVars
<1>1. ASSUME NEW r \in Requests, NEW b \in Inputs, CreateRequest(r, b) PROVE SaleInv'
  <2>1. /\ api[r] = "idle" /\ status[r] = "NONE" /\ call[r] = "none"
        /\ body' = [body EXCEPT ![r] = b] /\ status' = [status EXCEPT ![r] = "PENDING"]
        /\ UNCHANGED <<linked, bookings, payments, call, pc, batch>>
    BY <1>1 DEF CreateRequest, Plumb, RowsInv
  <2>2. ASSUME NEW q \in Requests, q # r
        PROVE  NewBooking(q)' = NewBooking(q) /\ NewPayment(q)' = NewPayment(q) /\ status'[q] = status[q]
    BY <2>1, <2>2 DEF NewBooking, NewPayment, User, Seat, Cost, Plumb, TypeOK
  <2>3. status'[r] = "PENDING"
    BY <2>1 DEF Plumb, TypeOK
  <2>4. ConfirmedIsBookedAndPaid'
    BY <2>1, <2>2, <2>3 DEF SaleInv, ConfirmedIsBookedAndPaid
  <2>5. ASSUME NEW w \in Workers, pc'[w] = "insert" PROVE NewPayment(Current(w))' \in payments'
    <3>1. pc[w] = "insert" /\ Current(w)' = Current(w) /\ Current(w) \in Requests /\ Current(w) # r
      BY <2>1, <2>5, CurrentIsPublished DEF Current
    <3>2. NewPayment(Current(w))' = NewPayment(Current(w))
      BY <2>1, <3>1 DEF NewPayment, User, Seat, Cost, Plumb, TypeOK
    <3> QED
      BY <2>1, <3>1, <3>2 DEF SaleInv, PaymentInv
  <2>6. PaymentInv'
    BY <2>1, <2>2, <2>5 DEF SaleInv, PaymentInv
  <2> QED
    BY <2>4, <2>6 DEF SaleInv
<1>2. ASSUME NEW r \in Requests, Deduct(r) PROVE SaleInv'
  <2>0. PICK a \in {"paid", "error"} : call' = [call EXCEPT ![r] = a]
    BY <1>2, DeductIsAnswered
  <2>1. /\ payments' = payments \cup {NewPayment(r)}
        /\ UNCHANGED <<body, status, linked, bookings, pc, batch>>
    BY <1>2 DEF Deduct
  <2>2. /\ \A q \in Requests : NewBooking(q)' = NewBooking(q) /\ NewPayment(q)' = NewPayment(q)
        /\ \A w \in Workers : NewPayment(Current(w))' = NewPayment(Current(w))
    BY <2>1 DEF NewBooking, NewPayment, User, Seat, Cost, Current
  <2>3. ConfirmedIsBookedAndPaid'
    BY <2>1, <2>2 DEF SaleInv, ConfirmedIsBookedAndPaid
  <2>4. PaymentInv'
    BY <2>0, <2>1, <2>2 DEF SaleInv, PaymentInv, Plumb, TypeOK
  <2> QED
    BY <2>3, <2>4 DEF SaleInv
<1>3. ASSUME NEW w \in Workers, ReceivePaid(w) PROVE SaleInv'
  <2>1. /\ pc' = [pc EXCEPT ![w] = "insert"] /\ call[Current(w)] = "paid" /\ Current(w) \in Requests
        /\ UNCHANGED <<body, status, linked, bookings, payments, call, batch>>
    BY <1>3, CurrentIsPublished DEF ReceivePaid, Goto
  <2>2. /\ \A q \in Requests : NewBooking(q)' = NewBooking(q) /\ NewPayment(q)' = NewPayment(q)
        /\ \A v \in Workers : NewPayment(Current(v))' = NewPayment(Current(v))
    BY <2>1 DEF NewBooking, NewPayment, User, Seat, Cost, Current
  <2>3. ConfirmedIsBookedAndPaid'
    BY <2>1, <2>2 DEF SaleInv, ConfirmedIsBookedAndPaid
  <2>4. PaymentInv'
    BY <2>1, <2>2 DEF SaleInv, PaymentInv, Plumb, TypeOK
  <2> QED
    BY <2>3, <2>4 DEF SaleInv
<1>4. ASSUME NEW w \in Workers, Confirm(w) PROVE SaleInv'
  <2> DEFINE r == Current(w)
  <2>1. /\ pc[w] = "insert" /\ r \in Requests
        /\ bookings' = bookings \cup {NewBooking(r)} /\ linked' = linked \cup {r}
        /\ status' = [status EXCEPT ![r] = "CONFIRMED"]
        /\ UNCHANGED <<body, payments, call, batch>>
    BY <1>4, CurrentIsPublished DEF Confirm, SetRequestStatus
  <2>2. \E next \in {"ack", "failing"} : pc' = [pc EXCEPT ![w] = next]
    BY <1>4 DEF Confirm, AfterCommit, Goto
  <2>3. /\ \A q \in Requests : NewBooking(q)' = NewBooking(q) /\ NewPayment(q)' = NewPayment(q)
        /\ \A v \in Workers : NewPayment(Current(v))' = NewPayment(Current(v))
    BY <2>1 DEF NewBooking, NewPayment, User, Seat, Cost, Current
  <2>4. NewPayment(r) \in payments
    BY <2>1 DEF SaleInv, PaymentInv
  <2>5. [request |-> NewBooking(r).request, user |-> NewBooking(r).user, amount |-> NewBooking(r).paid]
           = NewPayment(r)
    BY DEF NewBooking, NewPayment
  <2> HIDE DEF r
  <2>6. ConfirmedIsBookedAndPaid'
    <3>1. \A q \in Requests : status'[q] = "CONFIRMED" => q \in linked' /\ NewBooking(q)' \in bookings'
      BY <2>1, <2>3 DEF SaleInv, ConfirmedIsBookedAndPaid, Plumb, TypeOK
    <3>2. \A b \in bookings' : [request |-> b.request, user |-> b.user, amount |-> b.paid] \in payments'
      BY <2>1, <2>4, <2>5 DEF SaleInv, ConfirmedIsBookedAndPaid
    <3> QED
      BY <3>1, <3>2 DEF ConfirmedIsBookedAndPaid
  <2>7. PaymentInv'
    BY <2>1, <2>2, <2>3 DEF SaleInv, PaymentInv, Plumb, TypeOK
  <2> QED
    BY <2>6, <2>7 DEF SaleInv
<1>5. ASSUME NEW w \in Workers, Reject(w) \/ MarkFailed(w) PROVE SaleInv'
  <2> DEFINE r == Current(w)
  <2>1. /\ r \in Requests /\ status' = [status EXCEPT ![r] = "FAILED"]
        /\ UNCHANGED <<body, linked, bookings, payments, call, batch>>
    BY <1>5, CurrentIsPublished DEF Reject, MarkFailed, SetRequestStatus
  <2>2. \E next \in {"ack", "failing"} : pc' = [pc EXCEPT ![w] = next]
    BY <1>5 DEF Reject, MarkFailed, AfterCommit, Goto
  <2>3. /\ \A q \in Requests : NewBooking(q)' = NewBooking(q) /\ NewPayment(q)' = NewPayment(q)
        /\ \A v \in Workers : NewPayment(Current(v))' = NewPayment(Current(v))
    BY <2>1 DEF NewBooking, NewPayment, User, Seat, Cost, Current
  <2> HIDE DEF r
  <2>4. ConfirmedIsBookedAndPaid'
    BY <2>1, <2>3 DEF SaleInv, ConfirmedIsBookedAndPaid, Plumb, TypeOK
  <2>5. PaymentInv'
    BY <2>1, <2>2, <2>3 DEF SaleInv, PaymentInv, Plumb, TypeOK
  <2> QED
    BY <2>4, <2>5 DEF SaleInv
<1>6. ASSUME NEW r \in Requests, Publish(r) \/ PublishFails(r) \/ RefuseDeduct(r) \/ DeductFails(r) PROVE SaleInv'
  BY <1>6, SaleNeutral DEF Publish, PublishFails, RefuseDeduct, DeductFails, Plumb, TypeOK
<1>7. ASSUME NEW w \in Workers,
             \/ ReadBatch(w) \/ ReadAnswerLost(w) \/ Ack(w) \/ AcquireSeatLock(w)
             \/ ReceiveRefusal(w) \/ InsertConflicts(w) \/ SessionCut(w) \/ Restart(w)
      PROVE  SaleInv'
  BY <1>7, SaleNeutral DEF ReadBatch, ReadAnswerLost, Ack, AcquireSeatLock, ReceiveRefusal,
        InsertConflicts, SessionCut, Restart, Goto, Plumb, TypeOK
<1>8. ASSUME NEW w \in Workers, LookupFails(w) \/ DeductTimesOut(w) \/ StatementFails(w) \/ MarkFailedRaises(w) \/ Crash(w)
      PROVE  SaleInv'
  BY <1>8, SaleNeutral DEF LookupFails, DeductTimesOut, StatementFails, MarkFailedRaises, Crash,
        Raise, Die, EndTx, Goto, Plumb, TypeOK
<1>9. ASSUME NEW w \in Workers, CheckSeat(w) PROVE SaleInv'
  <2>1. \E l \in {"reject", "lookup"} : pc' = [pc EXCEPT ![w] = l]
    BY <1>9 DEF CheckSeat, Goto
  <2> QED
    BY <1>9, <2>1, SaleNeutral DEF CheckSeat, Plumb, TypeOK
<1>10. ASSUME NEW w \in Workers, SendDeduct(w) PROVE SaleInv'
  BY <1>10, SaleNeutral, CurrentIsPublished DEF SendDeduct, Goto, Plumb, TypeOK
<1>11. CASE UNCHANGED vars
  BY <1>11, SaleNeutral
<1> QED
  BY <1>1, <1>2, <1>3, <1>4, <1>5, <1>6, <1>7, <1>8, <1>9, <1>10, <1>11
  DEF Next, ApiStep, PaymentStep, WorkerStep, WorkerFault

\* CONFIRMED is never shown for a seat that is not the user's or not paid for,
\* and no booking is without its payment, whatever fails.
THEOREM ConfirmedMeansBookedAndPaid == Spec => []ConfirmedIsBookedAndPaid
<1>1. Init => SaleInv
  BY DEF Init, SaleInv, ConfirmedIsBookedAndPaid, PaymentInv
<1>2. SaleInv => ConfirmedIsBookedAndPaid
  BY DEF SaleInv
<1> QED
  BY <1>1, <1>2, SaleStep, PlumbInvariant, PTL DEF Spec

-----------------------------------------------------------------------------
(* An entry is acknowledged only after its outcome is committed.           *)

DecidedInv ==
    /\ AckedIsDecided
    /\ \A w \in Workers : pc[w] = "ack" => status[Current(w)] \in Terminal

\* No step takes an outcome back to undecided.
LEMMA DecidedStays ==
    ASSUME Plumb, [Next]_vars, NEW r \in Requests, status[r] \in Terminal
    PROVE  status'[r] \in Terminal
<1> USE DEF vars, dbVars
<1>1. ASSUME NEW q \in Requests, NEW b \in Inputs, CreateRequest(q, b) PROVE status'[r] \in Terminal
  <2>1. status[q] = "NONE" /\ status' = [status EXCEPT ![q] = "PENDING"]
    BY <1>1 DEF CreateRequest, Plumb, RowsInv
  <2> QED
    BY <2>1 DEF Terminal, Plumb, TypeOK
<1>2. ASSUME NEW w \in Workers, Confirm(w) \/ Reject(w) \/ MarkFailed(w) PROVE status'[r] \in Terminal
  <2>1. \E s \in Terminal : status' = [status EXCEPT ![Current(w)] = s]
    BY <1>2 DEF Confirm, Reject, MarkFailed, SetRequestStatus, Terminal
  <2> QED
    BY <2>1 DEF Plumb, TypeOK
<1>3. CASE ~ \/ \E q \in Requests, b \in Inputs : CreateRequest(q, b)
             \/ \E w \in Workers : Confirm(w) \/ Reject(w) \/ MarkFailed(w)
  <2>1. status' = status
    BY <1>3 DEF Next, ApiStep, PaymentStep, WorkerStep, WorkerFault, Raise,
          Publish, PublishFails, Deduct, RefuseDeduct, DeductFails,
          ReadBatch, ReadAnswerLost, Ack, AcquireSeatLock, CheckSeat, SendDeduct,
          ReceivePaid, ReceiveRefusal, InsertConflicts, LookupFails, DeductTimesOut,
          SessionCut, StatementFails, MarkFailedRaises, Crash, Restart
  <2> QED
    BY <2>1
<1> QED
  BY <1>1, <1>2, <1>3

\* Steps that neither deliver nor acknowledge, and keep each "ack" decided.
LEMMA DecidedNeutral ==
    ASSUME Plumb, DecidedInv, [Next]_vars, UNCHANGED <<stream, lastId, pel>>,
           \A w \in Workers : pc'[w] = "ack" =>
              \/ status'[Current(w)'] \in Terminal
              \/ pc[w] = "ack" /\ batch'[w] = batch[w]
    PROVE  DecidedInv'
<1>1. AckedIsDecided'
  <2>1. \A i \in 1..lastId : stream[i] \in Requests
    BY DEF Plumb, TypeOK
  <2> QED
    BY <2>1, DecidedStays DEF DecidedInv, AckedIsDecided
<1>2. ASSUME NEW w \in Workers, pc'[w] = "ack" PROVE status'[Current(w)'] \in Terminal
  <2>1. CASE pc[w] = "ack" /\ batch'[w] = batch[w]
    <3>1. Current(w)' = Current(w) /\ Current(w) \in Requests /\ status[Current(w)] \in Terminal
      BY <2>1, CurrentIsPublished DEF Current, DecidedInv
    <3> QED
      BY <3>1, DecidedStays
  <2> QED
    BY <1>2, <2>1
<1> QED
  BY <1>1, <1>2 DEF DecidedInv

\* Every step preserves DecidedInv, unless mark_failed itself may raise.
LEMMA DecidedStep == "markfail" \notin Faults /\ Plumb /\ DecidedInv /\ [Next]_vars => DecidedInv'
<1> SUFFICES ASSUME "markfail" \notin Faults, Plumb, DecidedInv, [Next]_vars PROVE DecidedInv'
  OBVIOUS
<1> USE DEF vars, dbVars, redisVars, paymentVars, workerVars
<1>1. ASSUME NEW w \in Workers, ReadBatch(w) \/ ReadAnswerLost(w) PROVE DecidedInv'
  <2>1. /\ \A i \in 1..Len(NextBatch) : NextBatch[i] = stream[lastId + i]
        /\ Len(NextBatch) \in Nat \ {0} /\ NextBatch \in Seq(Requests)
        /\ lastId \in Nat /\ lastId' = lastId + Len(NextBatch)
        /\ pel' = pel \cup {NextBatch[i] : i \in DOMAIN NextBatch}
        /\ UNCHANGED <<stream, status>>
    BY <1>1, NextBatchFacts DEF ReadBatch, ReadAnswerLost, Deliver, Plumb, TypeOK
  <2>2. ASSUME NEW i \in 1..lastId', stream[i] \notin pel' PROVE status[stream[i]] \in Terminal
    <3>1. CASE i <= lastId
      BY <2>1, <2>2, <3>1 DEF DecidedInv, AckedIsDecided
    <3>2. CASE i > lastId
      <4>1. i - lastId \in 1..Len(NextBatch) /\ NextBatch[i - lastId] = stream[i]
        BY <2>1, <3>2
      <4>2. stream[i] \in pel'
        BY <2>1, <4>1
      <4> QED
        BY <2>2, <4>2
    <3> QED
      BY <2>1, <3>1, <3>2
  <2>3. ASSUME NEW v \in Workers, pc'[v] = "ack" PROVE pc[v] = "ack" /\ batch'[v] = batch[v]
    BY <1>1, <2>3 DEF ReadBatch, ReadAnswerLost, Plumb, TypeOK
  <2> QED
    BY <2>1, <2>2, <2>3 DEF DecidedInv, AckedIsDecided, Current
<1>2. ASSUME NEW w \in Workers, Ack(w) PROVE DecidedInv'
  <2>1. /\ pel' = pel \ {Current(w)} /\ UNCHANGED <<stream, lastId, status>>
        /\ status[Current(w)] \in Terminal
    BY <1>2 DEF Ack, DecidedInv
  <2>2. AckedIsDecided'
    BY <2>1 DEF DecidedInv, AckedIsDecided
  <2>3. ASSUME NEW v \in Workers, pc'[v] = "ack" PROVE pc[v] = "ack" /\ batch'[v] = batch[v]
    BY <1>2, <2>3 DEF Ack, Plumb, TypeOK
  <2> QED
    BY <2>1, <2>2, <2>3 DEF DecidedInv, Current
<1>3. ASSUME NEW w \in Workers, Confirm(w) \/ Reject(w) \/ MarkFailed(w) PROVE DecidedInv'
  <2>1. \E s \in Terminal : status' = [status EXCEPT ![Current(w)] = s]
    BY <1>3 DEF Confirm, Reject, MarkFailed, SetRequestStatus, Terminal
  <2>2. \E next \in {"ack", "failing"} : pc' = [pc EXCEPT ![w] = next]
    BY <1>3 DEF Confirm, Reject, MarkFailed, AfterCommit, Goto
  <2>3. Current(w) \in Requests /\ UNCHANGED <<stream, lastId, pel, batch>>
    BY <1>3, CurrentIsPublished DEF Confirm, Reject, MarkFailed
  <2>4. status'[Current(w)'] \in Terminal
    BY <2>1, <2>3 DEF Current, Plumb, TypeOK
  <2> QED
    BY <2>2, <2>3, <2>4, DecidedNeutral DEF Plumb, TypeOK
<1>4. ASSUME NEW r \in Requests, (\E b \in Inputs : CreateRequest(r, b)) \/ PublishFails(r) \/ PaymentStep(r)
      PROVE  DecidedInv'
  BY <1>4, DecidedNeutral DEF CreateRequest, PublishFails, PaymentStep, Deduct, RefuseDeduct, DeductFails
<1>5. ASSUME NEW r \in Requests, Publish(r) PROVE DecidedInv'
  <2>1. /\ stream' = Append(stream, r) /\ UNCHANGED <<lastId, pel, status, pc, batch>>
        /\ stream \in Seq(Requests) /\ lastId \in 0..Len(stream)
    BY <1>5 DEF Publish, Plumb, TypeOK
  <2>2. \A i \in 1..lastId : stream'[i] = stream[i]
    BY <2>1
  <2>3. AckedIsDecided'
    BY <2>1, <2>2 DEF DecidedInv, AckedIsDecided
  <2> QED
    BY <2>1, <2>3 DEF DecidedInv, Current
<1>6. ASSUME NEW w \in Workers,
             \/ AcquireSeatLock(w) \/ SendDeduct(w) \/ ReceivePaid(w) \/ ReceiveRefusal(w)
             \/ InsertConflicts(w) \/ SessionCut(w) \/ Restart(w)
      PROVE  DecidedInv'
  BY <1>6, DecidedNeutral DEF AcquireSeatLock, SendDeduct, ReceivePaid, ReceiveRefusal,
        InsertConflicts, SessionCut, Restart, Goto, Plumb, TypeOK
<1>7. ASSUME NEW w \in Workers, LookupFails(w) \/ DeductTimesOut(w) \/ StatementFails(w) \/ Crash(w)
      PROVE  DecidedInv'
  BY <1>7, DecidedNeutral DEF LookupFails, DeductTimesOut, StatementFails, Crash,
        Raise, Die, EndTx, Goto, Plumb, TypeOK
<1>8. ASSUME NEW w \in Workers, CheckSeat(w) PROVE DecidedInv'
  <2>1. \E l \in {"reject", "lookup"} : pc' = [pc EXCEPT ![w] = l]
    BY <1>8 DEF CheckSeat, Goto
  <2> QED
    BY <1>8, <2>1, DecidedNeutral DEF CheckSeat, Plumb, TypeOK
<1>9. CASE UNCHANGED vars
  BY <1>9, DecidedNeutral
<1> QED
  BY <1>1, <1>2, <1>3, <1>4, <1>5, <1>6, <1>7, <1>8, <1>9
  DEF Next, ApiStep, WorkerStep, WorkerFault, MarkFailedRaises

\* Provided mark_failed never raises, an acknowledged request is decided: at
\* most once processing loses requests only by leaving them in the PEL.
THEOREM AcknowledgedIsDecided ==
    ASSUME "markfail" \notin Faults
    PROVE  Spec => []AckedIsDecided
<1>1. Init => DecidedInv
  BY DEF Init, DecidedInv, AckedIsDecided
<1>2. DecidedInv => AckedIsDecided
  BY DEF DecidedInv
<1>3. Plumb /\ DecidedInv /\ [Next]_vars => DecidedInv'
  BY DecidedStep
<1> QED
  BY <1>1, <1>2, <1>3, PlumbInvariant, PTL DEF Spec

-----------------------------------------------------------------------------
(* Where no COMMIT loses its answer, whoever may still decide a request    *)
(* finds it undecided.  So outcomes are final, and the pipeline sells      *)
(* seats as SeatSale does.                                                 *)

PendingInv ==
    /\ \A w \in Workers : \A i \in 1..Len(batch[w]) :
          i # 1 \/ pc[w] # "ack" => status[batch[w][i]] = "PENDING"
    /\ \A i \in 1..Len(stream) : lastId < i => status[stream[i]] = "PENDING"
    /\ \A r \in Requests : api[r] = "inserted" => status[r] = "PENDING"
    /\ \A b \in bookings : status[b.request] = "CONFIRMED"

Decides(w) == Confirm(w) \/ Reject(w) \/ MarkFailed(w)

\* Who decides: a worker, on its current request, once.
LEMMA DecisionFacts ==
    ASSUME "answer" \notin Faults, Plumb, PendingInv, NEW w \in Workers, Decides(w)
    PROVE  /\ Current(w) \in Requests /\ status[Current(w)] = "PENDING"
           /\ Current(w) = batch[w][1] /\ 1 \in DOMAIN batch[w]
           /\ api[Current(w)] = "done" /\ body[Current(w)] \in Inputs /\ Current(w) \in pel
           /\ pc' = [pc EXCEPT ![w] = "ack"]
           /\ \E s \in Terminal : status' = [status EXCEPT ![Current(w)] = s]
           /\ UNCHANGED <<body, stream, lastId, pel, api, batch>>
<1> USE DEF redisVars
<1>1. pc[w] \notin {"idle", "down", "ack"}
  BY DEF Decides, Confirm, Reject, MarkFailed
<1>2. /\ Current(w) \in Requests /\ Current(w) = batch[w][1] /\ Len(batch[w]) \in Nat \ {0}
      /\ api[Current(w)] = "done" /\ body[Current(w)] \in Inputs /\ Current(w) \in pel
  BY <1>1, CurrentIsPublished
<1>3. 1 \in DOMAIN batch[w] /\ status[Current(w)] = "PENDING"
  BY <1>1, <1>2 DEF PendingInv, Plumb, TypeOK
<1>4. pc' = [pc EXCEPT ![w] = "ack"]
  BY DEF Decides, Confirm, Reject, MarkFailed, AfterCommit, Goto
<1>5. /\ \E s \in Terminal : status' = [status EXCEPT ![Current(w)] = s]
      /\ UNCHANGED <<body, stream, lastId, pel, api, batch>>
  BY DEF Decides, Confirm, Reject, MarkFailed, SetRequestStatus, Terminal
<1> QED
  BY <1>2, <1>3, <1>4, <1>5

\* What the other steps do to the status of requests: nothing.
LEMMA UndecidedStep ==
    ASSUME [Next]_vars, ~\E w \in Workers : Decides(w),
           ~\E r \in Requests, b \in Inputs : CreateRequest(r, b)
    PROVE  UNCHANGED <<body, status, reason, bookings>>
  BY DEF Decides, Next, ApiStep, PaymentStep, WorkerStep, WorkerFault, Raise, vars, dbVars,
        Publish, PublishFails, Deduct, RefuseDeduct, DeductFails,
        ReadBatch, ReadAnswerLost, Ack, AcquireSeatLock, CheckSeat, SendDeduct,
        ReceivePaid, ReceiveRefusal, InsertConflicts, LookupFails, DeductTimesOut,
        SessionCut, StatementFails, MarkFailedRaises, Crash, Restart

\* Steps of a worker that leave the stream alone and take nothing up.
LEMMA PendingNeutral ==
    ASSUME PendingInv, UNCHANGED <<status, bookings, stream, lastId>>,
           \A r \in Requests : api'[r] = "inserted" => api[r] = "inserted",
           \A w \in Workers : \/ batch'[w] = <<>>
                              \/ batch'[w] = batch[w] /\ (pc[w] = "ack" => pc'[w] = "ack")
    PROVE  PendingInv'
  BY DEF PendingInv

\* Every step preserves PendingInv, unless a COMMIT may lose its answer.
LEMMA PendingStep == "answer" \notin Faults /\ Plumb /\ PendingInv /\ [Next]_vars => PendingInv'
<1> SUFFICES ASSUME "answer" \notin Faults, Plumb, PendingInv, [Next]_vars PROVE PendingInv'
  OBVIOUS
<1> USE DEF vars, dbVars, redisVars, paymentVars, workerVars
<1>1. ASSUME NEW r \in Requests, NEW b \in Inputs, CreateRequest(r, b) PROVE PendingInv'
  <2>1. /\ status' = [status EXCEPT ![r] = "PENDING"] /\ api' = [api EXCEPT ![r] = "inserted"]
        /\ status[r] = "NONE" /\ UNCHANGED <<bookings, stream, lastId, pc, batch>>
    BY <1>1 DEF CreateRequest, Plumb, RowsInv
  <2>2. ASSUME NEW q \in Requests PROVE status'[q] = IF q = r THEN "PENDING" ELSE status[q]
    BY <2>1 DEF Plumb, TypeOK
  <2>3. \A c \in bookings : c.request \in Requests
    BY DEF Plumb, TypeOK, Booking
  <2>4. \A v \in Workers : \A i \in 1..Len(batch[v]) : batch[v][i] \in Requests
    BY DEF Plumb, TypeOK
  <2>5. \A i \in 1..Len(stream) : stream[i] \in Requests
    BY DEF Plumb, TypeOK
  <2> QED
    BY <2>1, <2>2, <2>3, <2>4, <2>5 DEF PendingInv, Plumb, TypeOK
<1>2. ASSUME NEW w \in Workers, Decides(w) PROVE PendingInv'
  <2> DEFINE r == Current(w)
  <2>1. /\ r \in Requests /\ r = batch[w][1] /\ 1 \in DOMAIN batch[w] /\ api[r] = "done" /\ r \in pel
        /\ pc' = [pc EXCEPT ![w] = "ack"]
        /\ UNCHANGED <<stream, lastId, pel, api, batch>>
    BY <1>2, DecisionFacts
  <2>2. PICK s \in Terminal : status' = [status EXCEPT ![r] = s]
    BY <1>2, DecisionFacts
  <2> HIDE DEF r
  <2>3. ASSUME NEW q \in Requests PROVE status'[q] = IF q = r THEN s ELSE status[q]
    BY <2>2 DEF Plumb, TypeOK
  <2>4. ASSUME NEW v \in Workers, NEW i \in 1..Len(batch[v]), i # 1 \/ pc'[v] # "ack"
        PROVE  status'[batch[v][i]] = "PENDING"
    <3>1. i \in DOMAIN batch[v] /\ batch[v][i] \in Requests
      BY DEF Plumb, TypeOK
    <3>2. ~(v = w /\ i = 1) /\ (i # 1 \/ pc[v] # "ack")
      BY <2>1, <2>4 DEF Plumb, TypeOK
    <3>3. batch[v][i] # r
      BY <2>1, <3>1, <3>2 DEF Plumb, DeliveredToOne
    <3> QED
      BY <2>3, <3>1, <3>2, <3>3 DEF PendingInv
  <2>5. ASSUME NEW i \in 1..Len(stream), lastId < i PROVE status'[stream[i]] = "PENDING"
    <3>1. PICK k \in 1..lastId : stream[k] = r
      BY <2>1 DEF Plumb, StreamInv
    <3>2. k \in 1..Len(stream) /\ k # i /\ stream[i] \in Requests
      BY <2>5 DEF Plumb, TypeOK
    <3>3. stream[i] # r
      BY <3>1, <3>2 DEF Plumb, StreamInv
    <3> QED
      BY <2>3, <2>5, <3>2, <3>3 DEF PendingInv
  <2>6. \A q \in Requests : api'[q] = "inserted" => status'[q] = "PENDING"
    BY <2>1, <2>3 DEF PendingInv
  <2>7. \A b \in bookings' : status'[b.request] = "CONFIRMED"
    <3>1. status[r] = "PENDING"
      BY <1>2, DecisionFacts DEF r
    <3>2. \A b \in bookings : b.request \in Requests /\ b.request # r
      BY <3>1 DEF PendingInv, Plumb, TypeOK, Booking
    <3>3. CASE Confirm(w)
      <4>1. bookings' = bookings \cup {NewBooking(r)} /\ status' = [status EXCEPT ![r] = "CONFIRMED"]
        BY <3>3 DEF Confirm, SetRequestStatus, r
      <4>2. NewBooking(r).request = r
        BY DEF NewBooking
      <4> QED
        BY <2>1, <3>2, <4>1, <4>2 DEF PendingInv, Plumb, TypeOK
    <3>4. CASE ~Confirm(w)
      <4>1. bookings' = bookings
        BY <1>2, <3>4 DEF Decides, Reject, MarkFailed
      <4> QED
        BY <2>3, <3>2, <4>1 DEF PendingInv
    <3> QED
      BY <3>3, <3>4
  <2> QED
    BY <2>1, <2>4, <2>5, <2>6, <2>7 DEF PendingInv
<1>3. ASSUME NEW r \in Requests, Publish(r) PROVE PendingInv'
  <2>1. /\ stream' = Append(stream, r) /\ api[r] = "inserted" /\ api' = [api EXCEPT ![r] = "done"]
        /\ stream \in Seq(Requests) /\ UNCHANGED <<status, bookings, lastId, pc, batch>>
    BY <1>3 DEF Publish, Plumb, TypeOK
  <2>2. \A i \in 1..Len(stream') : stream'[i] = IF i <= Len(stream) THEN stream[i] ELSE r
    BY <2>1
  <2>3. status[r] = "PENDING"
    BY <2>1 DEF PendingInv
  <2>4. \A i \in 1..Len(stream') : lastId' < i => status'[stream'[i]] = "PENDING"
    BY <2>1, <2>2, <2>3 DEF PendingInv
  <2>5. \A q \in Requests : api'[q] = "inserted" => api[q] = "inserted"
    BY <2>1 DEF Plumb, TypeOK
  <2> QED
    BY <2>1, <2>4, <2>5 DEF PendingInv
<1>4. ASSUME NEW w \in Workers, ReadBatch(w) \/ ReadAnswerLost(w) PROVE PendingInv'
  <2>1. /\ \A i \in 1..Len(NextBatch) : NextBatch[i] = stream[lastId + i]
        /\ lastId + Len(NextBatch) \in 0..Len(stream) /\ Len(NextBatch) \in Nat \ {0}
        /\ lastId \in Nat /\ lastId' = lastId + Len(NextBatch)
        /\ Len(stream) \in Nat /\ UNCHANGED <<stream, status, bookings, api>>
    BY <1>4, NextBatchFacts DEF ReadBatch, ReadAnswerLost, Deliver, Plumb, TypeOK
  <2>2. \A i \in 1..Len(NextBatch) : status[NextBatch[i]] = "PENDING"
    <3> SUFFICES ASSUME NEW i \in 1..Len(NextBatch) PROVE status[NextBatch[i]] = "PENDING"
      OBVIOUS
    <3>1. lastId + i \in 1..Len(stream) /\ lastId < lastId + i
      BY <2>1
    <3> QED
      BY <2>1, <3>1 DEF PendingInv
  <2>3. \A i \in 1..Len(stream) : lastId' < i => status[stream[i]] = "PENDING"
    BY <2>1 DEF PendingInv
  <2>4. ASSUME NEW v \in Workers
        PROVE  \/ batch'[v] = NextBatch
               \/ batch'[v] = batch[v] /\ pc'[v] = pc[v]
    BY <1>4 DEF ReadBatch, ReadAnswerLost, Goto, Plumb, TypeOK
  <2>5. ASSUME NEW v \in Workers, NEW i \in 1..Len(batch'[v]), i # 1 \/ pc'[v] # "ack"
        PROVE  status[batch'[v][i]] = "PENDING"
    BY <2>2, <2>4, <2>5 DEF PendingInv
  <2> QED
    BY <2>1, <2>3, <2>5 DEF PendingInv
<1>5. ASSUME NEW w \in Workers, Ack(w) PROVE PendingInv'
  <2>1. /\ batch[w] \in Seq(Requests) /\ batch[w] # <<>>
        /\ batch' = [batch EXCEPT ![w] = Tail(batch[w])]
        /\ UNCHANGED <<status, bookings, stream, lastId, api>>
        /\ \A v \in Workers : v # w => pc'[v] = pc[v]
    BY <1>5 DEF Ack, Plumb, BatchInv, TypeOK
  <2>2. \A i \in 1..Len(Tail(batch[w])) : Tail(batch[w])[i] = batch[w][i + 1] /\ i + 1 \in 1..Len(batch[w])
    BY <2>1, HeadTailProperties
  <2>3. \A i \in 1..Len(Tail(batch[w])) : status[Tail(batch[w])[i]] = "PENDING"
    BY <2>2 DEF PendingInv
  <2>4. ASSUME NEW v \in Workers, NEW i \in 1..Len(batch'[v]), i # 1 \/ pc'[v] # "ack"
        PROVE  status[batch'[v][i]] = "PENDING"
    <3>1. CASE v = w
      <4>1. batch'[v] = Tail(batch[w])
        BY <2>1, <3>1 DEF Plumb, TypeOK
      <4> QED
        BY <2>3, <2>4, <4>1
    <3>2. CASE v # w
      <4>1. batch'[v] = batch[v] /\ pc'[v] = pc[v]
        BY <2>1, <3>2 DEF Plumb, TypeOK
      <4> QED
        BY <2>4, <4>1 DEF PendingInv
    <3> QED
      BY <3>1, <3>2
  <2> QED
    BY <2>1, <2>4 DEF PendingInv
<1>6. ASSUME NEW r \in Requests, PublishFails(r) \/ PaymentStep(r) PROVE PendingInv'
  BY <1>6, PendingNeutral DEF PublishFails, PaymentStep, Deduct, RefuseDeduct, DeductFails, Plumb, TypeOK
<1>7. ASSUME NEW w \in Workers,
             \/ AcquireSeatLock(w) \/ SendDeduct(w) \/ ReceivePaid(w) \/ ReceiveRefusal(w)
             \/ InsertConflicts(w) \/ SessionCut(w) \/ Restart(w)
      PROVE  PendingInv'
  BY <1>7, PendingNeutral DEF AcquireSeatLock, SendDeduct, ReceivePaid, ReceiveRefusal,
        InsertConflicts, SessionCut, Restart, Goto, Plumb, TypeOK
<1>8. ASSUME NEW w \in Workers,
             LookupFails(w) \/ DeductTimesOut(w) \/ StatementFails(w) \/ MarkFailedRaises(w) \/ Crash(w)
      PROVE  PendingInv'
  <2>1. UNCHANGED <<status, bookings, stream, lastId, api>>
    BY <1>8 DEF LookupFails, DeductTimesOut, StatementFails, MarkFailedRaises, Crash, Raise
  <2>2. ASSUME NEW v \in Workers
        PROVE  \/ batch'[v] = <<>>
               \/ batch'[v] = batch[v] /\ (pc[v] = "ack" => pc'[v] = "ack")
    BY <1>8 DEF LookupFails, DeductTimesOut, StatementFails, MarkFailedRaises, Crash,
          Raise, Die, EndTx, Goto, Plumb, TypeOK
  <2> QED
    BY <2>1, <2>2, PendingNeutral
<1>9. ASSUME NEW w \in Workers, CheckSeat(w) PROVE PendingInv'
  <2>1. \E l \in {"reject", "lookup"} : pc' = [pc EXCEPT ![w] = l]
    BY <1>9 DEF CheckSeat, Goto
  <2> QED
    BY <1>9, <2>1, PendingNeutral DEF CheckSeat, Plumb, TypeOK
<1>10. CASE UNCHANGED vars
  BY <1>10, PendingNeutral
<1> QED
  BY <1>1, <1>2, <1>3, <1>4, <1>5, <1>6, <1>7, <1>8, <1>9, <1>10
  DEF Decides, Next, ApiStep, WorkerStep, WorkerFault

\* So PendingInv holds in every reachable state, under that assumption.
LEMMA PendingInvariant ==
    ASSUME "answer" \notin Faults
    PROVE  Spec => []PendingInv
<1>1. Init => PendingInv
  BY DEF Init, PendingInv
<1>2. Plumb /\ PendingInv /\ [Next]_vars => PendingInv'
  BY PendingStep
<1> QED
  BY <1>1, <1>2, PlumbInvariant, PTL DEF Spec

\* While no COMMIT loses its answer, FAILED means that there is no booking.
THEOREM FailedMeansNotBooked ==
    ASSUME "answer" \notin Faults
    PROVE  Spec => []FailedHasNoBooking
<1>1. PendingInv => FailedHasNoBooking
  BY DEF PendingInv, FailedHasNoBooking, HasBooking
<1> QED
  BY <1>1, PendingInvariant, PTL

\* While no COMMIT loses its answer, what a client was shown last is final.
THEOREM OutcomeIsFinal ==
    ASSUME "answer" \notin Faults
    PROVE  Spec => TerminalIsFinal
<1>1. ASSUME Plumb, PendingInv, [Next]_vars, NEW r \in Requests, status[r] \in Terminal
      PROVE  status'[r] = status[r] /\ reason'[r] = reason[r]
  <2>1. CASE \E w \in Workers : Decides(w)
    <3>1. PICK w \in Workers : Decides(w)
      BY <2>1
    <3>2. Current(w) \in Requests /\ Current(w) # r
      BY <1>1, <3>1, DecisionFacts DEF Terminal
    <3>3. \E s, f : SetRequestStatus(Current(w), s, f)
      BY <3>1 DEF Decides, Confirm, Reject, MarkFailed
    <3> QED
      BY <1>1, <3>2, <3>3 DEF SetRequestStatus, Plumb, TypeOK
  <2>2. CASE \E q \in Requests, b \in Inputs : CreateRequest(q, b)
    <3>1. PICK q \in Requests, b \in Inputs : CreateRequest(q, b)
      BY <2>2
    <3>2. status[q] = "NONE" /\ status' = [status EXCEPT ![q] = "PENDING"] /\ reason' = reason
      BY <1>1, <3>1 DEF CreateRequest, Plumb, RowsInv
    <3> QED
      BY <1>1, <3>2 DEF Terminal, Plumb, TypeOK
  <2>3. CASE ~ \/ \E w \in Workers : Decides(w)
               \/ \E q \in Requests, b \in Inputs : CreateRequest(q, b)
    BY <1>1, <2>3, UndecidedStep
  <2> QED
    BY <2>1, <2>2, <2>3
<1>2. Plumb /\ PendingInv /\ [Next]_vars =>
        [\A r \in Requests : status[r] \in Terminal => status'[r] = status[r] /\ reason'[r] = reason[r]]_vars
  BY <1>1
<1> QED
  BY <1>2, PlumbInvariant, PendingInvariant, PTL DEF Spec, TerminalIsFinal

\* The owner of each seat, before and after a booking is made.
LEMMA OwnerOfNew ==
    ASSUME NEW w \in Workers, Confirm(w), Plumb
    PROVE  Owner' = [Owner EXCEPT ![Seat(Current(w))] = Current(w)]
<1> DEFINE r == Current(w)
<1>1. /\ r \in Requests /\ body[r] \in Inputs
      /\ bookings' = bookings \cup {NewBooking(r)}
      /\ \A b \in bookings : b.seat # Seat(r)
  BY CurrentIsPublished DEF Confirm, Booked
<1>2. NewBooking(r).seat = Seat(r) /\ NewBooking(r).request = r
  BY DEF NewBooking
<1> HIDE DEF r
<1>3. (CHOOSE b \in bookings' : b.seat = Seat(r)) = NewBooking(r)
  <2>1. \A b \in bookings' : b.seat = Seat(r) <=> b = NewBooking(r)
    BY <1>1, <1>2
  <2> QED
    BY <1>1, <2>1
<1>4. ASSUME NEW s \in Seats, s # Seat(r)
      PROVE  Owner'[s] = Owner[s]
  <2>1. \A b : (b \in bookings' /\ b.seat = s) <=> (b \in bookings /\ b.seat = s)
    BY <1>1, <1>2, <1>4
  <2>2. (CHOOSE b \in bookings' : b.seat = s) = (CHOOSE b \in bookings : b.seat = s)
    BY <2>1
  <2> QED
    BY <2>1, <2>2 DEF Owner, Booked
<1>5. Seat(r) \in Seats => Owner'[Seat(r)] = r
  BY <1>1, <1>2, <1>3 DEF Owner, Booked
<1>6. Owner = [s \in Seats |-> Owner[s]] /\ Owner' = [s \in Seats |-> Owner'[s]]
  BY DEF Owner
<1>7. Owner' = [Owner EXCEPT ![Seat(r)] = r]
  <2> DEFINE f == Owner
             g == Owner'
  <2>1. /\ f = [s \in Seats |-> f[s]] /\ g = [s \in Seats |-> g[s]]
        /\ \A s \in Seats : s # Seat(r) => g[s] = f[s]
        /\ Seat(r) \in Seats => g[Seat(r)] = r
    BY <1>4, <1>5, <1>6
  <2> HIDE DEF f, g
  <2>2. [f EXCEPT ![Seat(r)] = r] = [s \in Seats |-> IF s = Seat(r) THEN r ELSE f[s]]
    BY <2>1
  <2>3. g = [s \in Seats |-> IF s = Seat(r) THEN r ELSE f[s]]
    BY <2>1
  <2> QED
    BY <2>2, <2>3 DEF f, g
<1> QED
  BY <1>7 DEF r

\* No request is made and no seat is owned, in the pipeline as in the sale.
LEMMA SaleInit == Init => Sale!Init
  BY DEF Init, Sale!Init, Owner, Wanted, Booked

\* Every step of the pipeline is a step of the sale, or leaves it as it is.
LEMMA SaleRefinementStep ==
    "answer" \notin Faults /\ Plumb /\ PendingInv /\ [Next]_vars => [Sale!Next]_Sale!saleVars
<1> SUFFICES ASSUME "answer" \notin Faults, Plumb, PendingInv, [Next]_vars
             PROVE  Sale!Next \/ UNCHANGED <<Wanted, status, Owner>>
  BY DEF Sale!saleVars
<1>1. ASSUME NEW r \in Requests, NEW b \in Inputs, CreateRequest(r, b) PROVE Sale!Submit(r, b.seat) /\ b.seat \in Seats
  <2>1. /\ body' = [body EXCEPT ![r] = b] /\ status[r] = "NONE" /\ status' = [status EXCEPT ![r] = "PENDING"]
        /\ UNCHANGED bookings /\ b \in Inputs /\ b # Null /\ b.seat \in Seats
    BY <1>1, PipelineAssumption DEF CreateRequest, Plumb, RowsInv, Input
  <2>2. Owner' = Owner
    BY <2>1 DEF Owner, Booked
  <2>3. Wanted' = [Wanted EXCEPT ![r] = b.seat]
    BY <2>1 DEF Wanted, Seat, Plumb, TypeOK
  <2> QED
    BY <2>1, <2>2, <2>3 DEF Sale!Submit
<1>2. ASSUME NEW w \in Workers, Decides(w) PROVE Sale!Sell(Current(w)) \/ Sale!Fail(Current(w))
  <2>1. /\ Current(w) \in Requests /\ status[Current(w)] = "PENDING" /\ body[Current(w)] \in Inputs
        /\ body' = body
    BY <1>2, DecisionFacts
  <2>2. Wanted' = Wanted /\ Wanted[Current(w)] = Seat(Current(w)) /\ Seat(Current(w)) \in Seats
    BY <2>1, PipelineAssumption, CostIsNat DEF Wanted, Seat
  <2>3. CASE Confirm(w)
    <3>1. status' = [status EXCEPT ![Current(w)] = "CONFIRMED"] /\ Owner[Seat(Current(w))] = Null
      BY <2>2, <2>3 DEF Confirm, SetRequestStatus, Owner
    <3> QED
      BY <2>1, <2>2, <2>3, <3>1, OwnerOfNew DEF Sale!Sell
  <2>4. CASE Reject(w) \/ MarkFailed(w)
    <3>1. status' = [status EXCEPT ![Current(w)] = "FAILED"] /\ UNCHANGED bookings
      BY <2>4 DEF Reject, MarkFailed, SetRequestStatus
    <3>2. Owner' = Owner
      BY <3>1 DEF Owner, Booked
    <3> QED
      BY <2>1, <2>2, <3>1, <3>2 DEF Sale!Fail
  <2> QED
    BY <1>2, <2>3, <2>4 DEF Decides
<1>3. ASSUME ~\E w \in Workers : Decides(w), ~\E r \in Requests, b \in Inputs : CreateRequest(r, b)
      PROVE  UNCHANGED <<Wanted, status, Owner>>
  <2>1. UNCHANGED <<body, status, bookings>>
    BY <1>3, UndecidedStep
  <2> QED
    BY <2>1 DEF Wanted, Owner, Booked, Seat
<1>4. \A w \in Workers : Decides(w) => Current(w) \in Requests
  BY DecisionFacts
<1> QED
  BY <1>1, <1>2, <1>3, <1>4 DEF Sale!Next

\* While no COMMIT loses its answer, the pipeline is an implementation of
\* SeatSale: crashes, lost reads, cut sessions and late payments included.
THEOREM PipelineSellsSeats ==
    ASSUME "answer" \notin Faults
    PROVE  Spec => SaleImplemented
<1>1. Plumb /\ PendingInv /\ [Next]_vars => [Sale!Next]_Sale!saleVars
  BY SaleRefinementStep
<1> QED
  BY <1>1, SaleInit, PlumbInvariant, PendingInvariant, PTL DEF Spec, Sale!Spec, SaleImplemented

=============================================================================
