------------------------- MODULE MCBookingPipeline -------------------------
(* Small instances of BookingPipeline: two users, two seats, and who asks  *)
(* for which of them under which spelling of its date.                     *)
EXTENDS BookingPipeline, TLC

CONSTANTS alice, bob, front, back, k1, k2, k3, r1, r2, r3, w1, w2

MCPrice == front :> 2 @@ back :> 1

\* Enough for two front seats each, or for one front seat or two back seats.
AmplePoints  == alice :> 4 @@ bob :> 4
EvenPoints   == alice :> 2 @@ bob :> 2

Ask(u, s, k) == [user |-> u, seat |-> s, key |-> k]

\* One spelling per date: each seat has one lock key.
FewAsks == {Ask(alice, front, k1), Ask(bob, front, k1), Ask(alice, back, k3)}
\* Two spellings of one date: the front seat has two lock keys.
TwoKeys == {Ask(alice, front, k1), Ask(bob, front, k2)}
\* Everybody wants the front seat.
OneSeat == {Ask(alice, front, k1), Ask(bob, front, k1)}

Symmetry == Permutations(Requests) \cup Permutations(Workers)
=============================================================================
