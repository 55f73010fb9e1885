------------------------------ MODULE SeatSale ------------------------------
(***************************************************************************)
(* What a client of booking-service is promised, with no queue, worker,    *)
(* lock or payment in sight: a request asks for one seat, is pending, and  *)
(* then either owns the seat for good or has failed for good.              *)
(***************************************************************************)
CONSTANTS Requests, Seats, Null

VARIABLES
    wanted,   \* the seat each request asks for
    outcome,  \* "NONE", "PENDING", "CONFIRMED" or "FAILED"
    owner     \* the request each seat is sold to

saleVars == <<wanted, outcome, owner>>

Init ==
    /\ wanted = [r \in Requests |-> Null]
    /\ outcome = [r \in Requests |-> "NONE"]
    /\ owner = [s \in Seats |-> Null]

Submit(r, s) ==
    /\ outcome[r] = "NONE"
    /\ wanted' = [wanted EXCEPT ![r] = s]
    /\ outcome' = [outcome EXCEPT ![r] = "PENDING"]
    /\ UNCHANGED owner

Sell(r) ==
    /\ outcome[r] = "PENDING"
    /\ owner[wanted[r]] = Null
    /\ owner' = [owner EXCEPT ![wanted[r]] = r]
    /\ outcome' = [outcome EXCEPT ![r] = "CONFIRMED"]
    /\ UNCHANGED wanted

Fail(r) ==
    /\ outcome[r] = "PENDING"
    /\ outcome' = [outcome EXCEPT ![r] = "FAILED"]
    /\ UNCHANGED <<wanted, owner>>

Next == \E r \in Requests : Sell(r) \/ Fail(r) \/ \E s \in Seats : Submit(r, s)

Spec == Init /\ [][Next]_saleVars
=============================================================================
