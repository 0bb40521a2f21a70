-------------------------- MODULE MCRentalQueries --------------------------
(* RentalQueries on a small instance; the values are in booking_single.cfg. *)
EXTENDS RentalQueries, TLC

CONSTANTS u1, c1, w1, r0, r1, r2, noId, none

\* As in init-mongo.js, a rental of the car was cancelled.
LoadedCancelled ==
    [id \in RentalIds |->
        IF id = r0 THEN [user |-> u1, car |-> c1, start |-> 0, end |-> 1,
                         status |-> "cancelled"]
        ELSE None]

\* Rental ids, but for the loaded one, are interchangeable.
Symmetry == Permutations(RentalIds \ {r0})
=============================================================================
