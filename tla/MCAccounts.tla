----------------------------- MODULE MCAccounts -----------------------------
(* The accounts the system knows: the two that the demo buttons of the     *)
(* login page use, with one user id between them, one of Google's own and  *)
(* one that is signed up for, or made by a dev-login under another id.     *)
EXTENDS Accounts, TLC

CONSTANTS dev, google, rich, sub, alice, x, y, p1, p2, idRich, idSub, idAlice, idDevAlice, s1, s2, s3

\* make_user_id: "user-demo-rich" whatever the provider, and "user-alice" of a
\* dev-login where the sign-up makes it "user-local-alice".  (Only alice signs up.)
MCDevId   == (rich :> idRich) @@ (sub :> idSub) @@ (alice :> idDevAlice)
MCLocalId == [l \in {rich, sub, alice} |-> idAlice]

Call(k, p, l, n, w) == [kind |-> k, provider |-> p, login |-> l, name |-> n, password |-> w]

MCAsks == {Call("dev", dev, rich, x, Null), Call("dev", google, rich, y, Null),
           Call("google", google, sub, x, Null),
           Call("dev", Local, alice, y, Null),
           Call("signup", Local, alice, x, p1), Call("signup", Local, alice, y, p2),
           Call("login", Local, alice, x, p1)}
=============================================================================
