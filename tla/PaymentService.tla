--------------------------- MODULE PaymentService ---------------------------
(***************************************************************************)
(* payment-service: POST /payments/deduct and GET /payments/me/balance,    *)
(* each one READ COMMITTED transaction of payment_db, interleaved at every *)
(* statement.  The tables hold what is committed.  A transaction's own     *)
(* writes are its INSERT of a default balance (fresh) and, at the end, the *)
(* UPDATE and the INSERT it commits; the rows it holds locked follow from  *)
(* where it stands.                                                        *)
(***************************************************************************)
EXTENDS Naturals, FiniteSets, FiniteSetsExt

CONSTANTS
    Calls,        \* the HTTP calls served, duplicates of one another or not
    Users, Requests, Amounts,
    StartPoints,  \* default_balance
    Tasks,        \* what a call may ask for, a subset of Task
    Faults,       \* the failures that may happen, a subset of AllFaults
    Null

Payment  == [request : Requests, user : Users, amount : Amounts]
\* A row of payment_history; its id is that of the call that inserted it.
Row      == [id : Calls, request : Requests, user : Users, amount : Amounts]
\* A read of the balance pays nothing for no request.
Read     == [request : {Null}, user : Users, amount : {0}]
Task     == Payment \cup Read

AllFaults ==
    { "cut",      \* a transaction is cut before its COMMIT (pod, database)
      "answer" }  \* a COMMIT takes effect and its answer is lost: 500

ASSUME ServiceAssumption ==
    /\ Amounts \subseteq Nat
    /\ StartPoints \in [Users -> Nat]
    /\ Tasks \subseteq Task
    /\ Faults \subseteq AllFaults
    /\ Null \notin Requests \cup Nat \cup Tasks

VARIABLES
    rows,     \* point_balances: a balance, or Null while there is no row
    history,  \* payment_history
    task, pc, \* the body of each call and the statement it is at
    fresh,    \* whether its transaction has inserted the user's balance row
    seen,     \* the balance FOR UPDATE returned to it
    answer    \* "none", "paid" (200), "insufficient" (409) or "error" (500)

vars == <<rows, history, task, pc, fresh, seen, answer>>

Steps == {"idle", "existing", "ensure", "insert", "commit", "lock", "write", "done"}

TypeOK ==
    /\ rows \in [Users -> Nat \cup {Null}]
    /\ history \subseteq Row
    /\ task \in [Calls -> Tasks \cup {Null}]
    /\ pc \in [Calls -> Steps]
    /\ fresh \in [Calls -> BOOLEAN]
    /\ seen \in [Calls -> Nat]
    /\ answer \in [Calls -> {"none", "paid", "insufficient", "error"}]

Init ==
    /\ rows = [u \in Users |-> Null]
    /\ history = {}
    /\ task = [c \in Calls |-> Null]
    /\ pc = [c \in Calls |-> "idle"]
    /\ fresh = [c \in Calls |-> FALSE]
    /\ seen = [c \in Calls |-> 0]
    /\ answer = [c \in Calls |-> "none"]

User(c)    == task[c].user
Amount(c)  == task[c].amount
IsRead(c)  == task[c].request = Null
Settled(r) == \E p \in history : p.request = r

\* The balance a transaction reads: its own insert, or what is committed.
Visible(c) == IF fresh[c] THEN StartPoints[User(c)] ELSE rows[User(c)]

\* Mutant: SELECT without FOR UPDATE.
RowBusyWithoutLock(c) ==
    \E d \in Calls \ {c} : task[d] # Null /\ User(d) = User(c) /\ fresh[d]

\* Another transaction has the user's balance row inserted or locked.
RowBusy(c) ==
    \E d \in Calls \ {c} :
        /\ task[d] # Null
        /\ User(d) = User(c)
        /\ fresh[d] \/ pc[d] = "write"

Goto(c, label) == pc' = [pc EXCEPT ![c] = label]

\* Mutant: a connection that goes back to the pool with its transaction open.
FinishOpen(c, a) ==
    /\ Goto(c, "done")
    /\ answer' = [answer EXCEPT ![c] = a]
    /\ UNCHANGED fresh

\* The transaction ends, its lock is gone and the call is answered.
Finish(c, a) ==
    /\ Goto(c, "done")
    /\ answer' = [answer EXCEPT ![c] = a]
    /\ fresh' = [fresh EXCEPT ![c] = FALSE]

Rollback(c, a) == Finish(c, a) /\ UNCHANGED <<rows, history, task, seen>>

\* Leaving engine.begin() commits.  The COMMIT may take effect and raise, and
\* the caller is told 500 of a transaction that stands.
Committed == {"paid"} \cup (IF "answer" \in Faults THEN {"error"} ELSE {})

-----------------------------------------------------------------------------
Receive(c, t) ==
    /\ pc[c] = "idle"
    /\ task' = [task EXCEPT ![c] = t]
    /\ Goto(c, IF t.request = Null THEN "ensure" ELSE "existing")
    /\ UNCHANGED <<rows, history, fresh, seen, answer>>

\* A payment of this request is committed: 200 with that payment, and nothing
\* deducted.  (Its user has a balance row, so ensure_balance only reads.)
FindExisting(c) ==
    /\ pc[c] = "existing"
    /\ Settled(task[c].request)
    /\ Rollback(c, "paid")

FindNone(c) ==
    /\ pc[c] = "existing"
    /\ ~Settled(task[c].request)
    /\ Goto(c, "ensure")
    /\ UNCHANGED <<rows, history, task, fresh, seen, answer>>

\* ensure_balance: SELECT, then INSERT if there was no row.
EnsureReads(c) ==
    /\ pc[c] = "ensure"
    /\ Goto(c, IF rows[User(c)] = Null THEN "insert"
               ELSE IF IsRead(c) THEN "commit" ELSE "lock")
    /\ UNCHANGED <<rows, history, task, fresh, seen, answer>>

\* The INSERT waits for a transaction that has inserted the same key.
EnsureInserts(c) ==
    /\ pc[c] = "insert"
    /\ ~RowBusy(c)
    /\ rows[User(c)] = Null
    /\ fresh' = [fresh EXCEPT ![c] = TRUE]
    /\ Goto(c, IF IsRead(c) THEN "commit" ELSE "lock")
    /\ UNCHANGED <<rows, history, task, seen, answer>>

\* Somebody else's row was committed since the SELECT: primary key violation.
EnsureCollides(c) ==
    /\ pc[c] = "insert"
    /\ ~RowBusy(c)
    /\ rows[User(c)] # Null
    /\ Rollback(c, "error")

\* The end of GET /payments/me/balance.
CommitRead(c) ==
    /\ pc[c] = "commit"
    /\ rows' = [rows EXCEPT ![User(c)] = Visible(c)]
    /\ \E a \in Committed : Finish(c, a)
    /\ UNCHANGED <<history, task, seen>>

\* Mutant: the balance is not compared with the amount.
LockRowUnchecked(c) ==
    /\ pc[c] = "lock"
    /\ ~RowBusy(c)
    /\ seen' = [seen EXCEPT ![c] = Visible(c)]
    /\ Goto(c, "write")
    /\ UNCHANGED <<rows, history, task, fresh, answer>>

\* SELECT ... FOR UPDATE waits for the row, then reads its latest version.
LockRow(c) ==
    /\ pc[c] = "lock"
    /\ ~RowBusy(c)
    /\ Amount(c) <= Visible(c)
    /\ seen' = [seen EXCEPT ![c] = Visible(c)]
    /\ Goto(c, "write")
    /\ UNCHANGED <<rows, history, task, fresh, answer>>

\* The 409 is raised inside the transaction: a fresh balance row goes too.
LockRowRefuses(c) ==
    /\ pc[c] = "lock"
    /\ ~RowBusy(c)
    /\ Visible(c) < Amount(c)
    /\ Rollback(c, "insufficient")

NewRow(c) == [id |-> c, request |-> task[c].request, user |-> User(c), amount |-> Amount(c)]

\* Mutant: payment_history without its UNIQUE.
PayTwice(c) ==
    /\ pc[c] = "write"
    /\ rows' = [rows EXCEPT ![User(c)] = seen[c] - Amount(c)]
    /\ history' = history \cup {NewRow(c)}
    /\ \E a \in Committed : Finish(c, a)
    /\ UNCHANGED <<task, seen>>

\* UPDATE point_balances, INSERT payment_history, COMMIT: under the row lock
\* nobody sees one without the others.
Pay(c) ==
    /\ pc[c] = "write"
    /\ ~Settled(task[c].request)
    /\ rows' = [rows EXCEPT ![User(c)] = seen[c] - Amount(c)]
    /\ history' = history \cup {NewRow(c)}
    /\ \E a \in Committed : Finish(c, a)
    /\ UNCHANGED <<task, seen>>

\* UNIQUE (booking_request_id): a duplicate call has paid meanwhile.
PayCollides(c) ==
    /\ pc[c] = "write"
    /\ Settled(task[c].request)
    /\ Rollback(c, "error")

\* Nothing of the transaction is left, and the call is answered 500.
Abort(c) ==
    /\ "cut" \in Faults
    /\ pc[c] \notin {"idle", "done"}
    /\ Rollback(c, "error")

Step(c) ==
    \/ FindExisting(c) \/ FindNone(c)
    \/ EnsureReads(c) \/ EnsureInserts(c) \/ EnsureCollides(c)
    \/ CommitRead(c)
    \/ LockRow(c) \/ LockRowRefuses(c)
    \/ Pay(c) \/ PayCollides(c)

Next ==
    \E c \in Calls : (\E t \in Tasks : Receive(c, t)) \/ Step(c) \/ Abort(c)

Spec == Init /\ [][Next]_vars

\* Uvicorn serves every call it has accepted.
FairSpec == Spec /\ \A c \in Calls : WF_vars(Step(c))

-----------------------------------------------------------------------------
Points(u) == IF rows[u] = Null THEN StartPoints[u] ELSE rows[u]
PaidBy(u) == {p \in history : p.user = u}
Spent(u)  == MapThenSumSet(LAMBDA p : p.amount, PaidBy(u))

\* Two tables tell one story: what a user has left and what payment_history
\* says was paid add up to the starting balance, whatever calls overlap.
PointsConserved == \A u \in Users : Points(u) + Spent(u) = StartPoints[u]

\* "Duplicate payment deduction for the same Booking Request does not deduct
\* points twice": one payment per request, although the check for an existing
\* payment is made before the row lock is taken.
OnePaymentPerRequest == \A p, q \in history : p.request = q.request => p = q

\* Two transactions never both hold a user's balance row between FOR UPDATE and
\* COMMIT, so the balance a call has seen is still the balance when it writes.
SeenIsCurrent ==
    \A c \in Calls : pc[c] = "write" => seen[c] = Points(User(c))

\* Every call that arrives is answered: no two wait for each other's row.
EveryCallIsAnswered ==
    \A c \in Calls : pc[c] # "idle" ~> pc[c] = "done"

-----------------------------------------------------------------------------
Deductions == {c \in Calls : task[c] # Null /\ ~IsRead(c)}

Ledger == INSTANCE PaymentLedger WITH
    task   <- [c \in Calls |-> IF c \in Deductions THEN task[c] ELSE Null],
    answer <- [c \in Calls |-> IF c \in Deductions THEN answer[c] ELSE "none"],
    points <- [u \in Users |-> Points(u)],
    paid   <- {[request |-> p.request, user |-> p.user, amount |-> p.amount] : p \in history}

\* Each deduction amounts to one atomic step of the ledger.
LedgerImplemented == Ledger!Spec
=============================================================================
