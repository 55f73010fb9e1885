----------------------------- MODULE MCCatalog -----------------------------
(* Two performances at one venue, on three days.                       *)
EXTENDS Catalog, TLC

CONSTANTS p1, p2, hall

Run(s, e) == [start |-> s, end |-> e]

OneHall == p1 :> hall @@ p2 :> hall
\* The first run is under way when the job of the second day starts, and over on the
\* third; the other is in the second window of the first day, in both of the second.
MCRuns == {Run(1, 2), Run(3, 4)}
=============================================================================
