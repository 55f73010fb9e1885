--------------------------- MODULE MCWaitingRoom ---------------------------
(* Small instances of WaitingRoom: three visits, two users, one of whom    *)
(* comes twice, or reloads the page.                                       *)
EXTENDS WaitingRoom, TLC

CONSTANTS v1, v2, v3, alice, bob, hall, d1, d2, w1, w2

Symmetry == Permutations(Visits) \cup Permutations(Users)
=============================================================================
