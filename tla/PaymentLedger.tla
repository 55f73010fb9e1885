---------------------------- MODULE PaymentLedger ----------------------------
(***************************************************************************)
(* What POST /payments/deduct promises its caller, with no transaction,    *)
(* row or lock in sight: every call is answered by one atomic step, points *)
(* are taken once per booking request and never after the answer, "paid"   *)
(* means that they are, a refusal that there were too few.  An error says  *)
(* nothing: the points of that call may have been taken or not.            *)
(***************************************************************************)
EXTENDS Naturals

CONSTANTS Calls, Users, Requests, Amounts, StartPoints, Null

VARIABLES
    task,     \* what each call asks for, Null before it is made
    answer,   \* "none", "paid", "insufficient" or "error"
    points,   \* the points each user can still spend
    paid      \* the payments made

ledgerVars == <<task, answer, points, paid>>

Payment == [request : Requests, user : Users, amount : Amounts]

Init ==
    /\ task = [c \in Calls |-> Null]
    /\ answer = [c \in Calls |-> "none"]
    /\ points = StartPoints
    /\ paid = {}

Settled(r) == \E p \in paid : p.request = r
Open(c)    == task[c] # Null /\ answer[c] = "none"

Call(c, t) ==
    /\ task[c] = Null
    /\ task' = [task EXCEPT ![c] = t]
    /\ UNCHANGED <<answer, points, paid>>

Answer(c, a) ==
    /\ Open(c)
    /\ answer' = [answer EXCEPT ![c] = a]
    /\ UNCHANGED task

\* Its caller need not learn of it: the COMMIT may succeed and its answer fail.
Pay(c) ==
    /\ \E a \in {"paid", "error"} : Answer(c, a)
    /\ ~Settled(task[c].request)
    /\ task[c].amount <= points[task[c].user]
    /\ points' = [points EXCEPT ![task[c].user] = @ - task[c].amount]
    /\ paid' = paid \cup {task[c]}

PayAgain(c) ==
    /\ Answer(c, "paid")
    /\ Settled(task[c].request)
    /\ UNCHANGED <<points, paid>>

Refuse(c) ==
    /\ Answer(c, "insufficient")
    /\ points[task[c].user] < task[c].amount
    /\ UNCHANGED <<points, paid>>

Fail(c) ==
    /\ Answer(c, "error")
    /\ UNCHANGED <<points, paid>>

Next ==
    \E c \in Calls :
        \/ \E t \in Payment : Call(c, t)
        \/ Pay(c) \/ PayAgain(c) \/ Refuse(c) \/ Fail(c)

Spec == Init /\ [][Next]_ledgerVars
=============================================================================
