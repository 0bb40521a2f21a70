--------------------------- MODULE MCRentalBooking ---------------------------
(* RentalProperties on small instances; the values are in the .cfg files.   *)
EXTENDS RentalProperties, TLC

CONSTANTS u1, c1, c2, w1, w2, r0, r1, r2, noId, none

\* As in init-mongo.js, one car has a rental from before.
LoadedRental(status) ==
    [id \in RentalIds |->
        IF id = r0 THEN [user |-> u1, car |-> c1, start |-> 0, end |-> 1, status |-> status]
        ELSE None]

LoadedActive == LoadedRental("active")
LoadedCompleted == LoadedRental("completed")

\* Rental ids, but for the loaded one, and workers are interchangeable, in runs without
\* liveness.
Symmetry == Permutations(RentalIds \ {r0}) \cup Permutations(Workers)
=============================================================================
