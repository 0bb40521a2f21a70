---------------------------- MODULE RentalLedger ----------------------------
(***************************************************************************)
(* What the rental service promises about the `rentals' collection, with   *)
(* no requests, workers or database commands in sight: a rental is booked  *)
(* in one step and only for a period in which no active rental holds the   *)
(* car, an active rental may be completed, and nothing else ever happens   *)
(* to the collection.  RentalBooking implements this when requests are     *)
(* served one at a time by a server that neither crashes nor times out.    *)
(***************************************************************************)
EXTENDS Integers

CONSTANTS Users,       \* users a rental may be booked for
          Cars,        \* cars a rental may be booked for
          Dates,       \* dates a rental may start or end at
          RentalIds,   \* _id values of the collection
          Loaded,      \* the collection to begin with
          None         \* what the collection holds for an unused _id

VARIABLE rentals       \* the collection: _id |-> document, or None

Statuses == {"active", "completed", "cancelled"}

Rental == [user: Users, car: Cars, start: Dates, end: Dates, status: Statuses]

Stored == {id \in RentalIds : rentals[id] # None}

Active == {id \in Stored : rentals[id].status = "active"}

\* Two rentals of one car whose half-open periods intersect.
Overlap(a, b) == a.car = b.car /\ a.start < b.end /\ b.start < a.end

-----------------------------------------------------------------------------

Init == rentals = Loaded

Book(id, doc) ==
    /\ rentals[id] = None
    /\ doc.status = "active"
    /\ \A other \in Active : ~Overlap(rentals[other], doc)
    /\ rentals' = [rentals EXCEPT ![id] = doc]

Complete(id) ==
    /\ id \in Active
    /\ rentals' = [rentals EXCEPT ![id].status = "completed"]

Next == \E id \in RentalIds :
            \/ \E doc \in Rental : Book(id, doc)
            \/ Complete(id)

Spec == Init /\ [][Next]_rentals
=============================================================================
