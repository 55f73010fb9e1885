-------------------------- MODULE MCPaymentService --------------------------
(* alice has the points for request a twice over, or for request b once,  *)
(* not for both a and b; bob has too few for anything.                     *)
EXTENDS PaymentService, TLC

CONSTANTS alice, bob, a, b, c1, c2, c3, c4

MCStartPoints == alice :> 3 @@ bob :> 1

Pays(r, u, n) == [request |-> r, user |-> u, amount |-> n]
Reads(u)      == Pays(Null, u, 0)

\* Each deduction may be asked for by several calls, while the balance page of
\* either user is opened for the first time.
MCTasks == {Pays(a, alice, 1), Pays(b, alice, 3), Reads(alice), Pays(b, bob, 3), Reads(bob)}

Symmetry == Permutations(Calls)
=============================================================================
