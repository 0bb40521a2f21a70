-------------------------- MODULE RentalProperties --------------------------
(***************************************************************************)
(* What must hold of the requests RentalBooking runs.                      *)
(***************************************************************************)
EXTENDS RentalBooking

\* Two rentals of one car whose stored half-open periods intersect.
Overlap(a, b) == a.car = b.car /\ a.start < b.end /\ b.start < a.end

-----------------------------------------------------------------------------
(* Safety.                                                                 *)

\* Every variable stays in its set.
TypeOK ==
    /\ rentals \in [RentalIds -> Rental \cup {None}]
    /\ available \in [Cars -> BOOLEAN]
    /\ late \subseteq Commands
    /\ pc \in [Workers -> {"ready"} \cup Reads \cup Writes]
    /\ req \in [Workers -> Requests]
    /\ answer \in [Workers -> Answers]
    /\ saw \in [RentalIds -> SUBSET RentalIds]

\* IsCarAvailable and insert_one are two commands (rental_service.cpp:72-84), so
\* two requests may each find the car free and both book it.  That is the only
\* way to a double booking: whatever fails and in whatever order writes land, a
\* rental never overlaps an active one that was stored when its request looked.
OverlapOnlyFromRace ==
    \A i, j \in Active :
        i # j /\ Overlap(rentals[i], rentals[j]) => i \notin saw[j] /\ j \notin saw[i]

\* Two active rentals of one car never overlap: a request for a taken period
\* is answered 409, "Car is not available for selected period".
NoDoubleBooking ==
    \A i, j \in Active : i # j => ~Overlap(rentals[i], rentals[j])

\* A rental is stored only for a user and a car that exist, although both were
\* looked up by other commands than the one that stores it, and that one may be
\* executed after its request was abandoned.
ReferencesExist ==
    \A id \in Stored : rentals[id].user \in Users /\ rentals[id].car \in Cars

\* A request answered NOT_FOUND, CAR_NOT_AVAILABLE or VALIDATION_ERROR has left
\* nothing behind, neither a rental nor a write that could still create one.
RefusedLeavesNothing ==
    \A w \in Workers :
        req[w].op = "create"
          /\ answer[w] \in {"NOT_FOUND", "CAR_NOT_AVAILABLE", "VALIDATION_ERROR"}
        => req[w].id \notin Stored \cup {m.id : m \in late}

\* The client of an OK answer to CreateRental has the rental: it is stored with
\* the user, the car and the dates asked for, whatever the other requests do.
OkIsStored ==
    \A w \in Workers :
        req[w].op = "create" /\ answer[w] = "OK" =>
            /\ req[w].id \in Stored
            /\ \E status \in {"active", "completed"} :
                   rentals[req[w].id] = [ToBson(req[w].doc) EXCEPT !.status = status]

\* Two clients that complete one rental at the same time: one is told OK, the
\* other CONFLICT (the status filter of MongoStorage::CompleteRental).
CompletedForOneClient ==
    \A v, w \in Workers :
        /\ v # w
        /\ req[v].op = "complete" /\ req[w].op = "complete"
        /\ answer[v] = "OK" /\ answer[w] = "OK"
        => req[v].id # req[w].id

\* A completed rental that was not loaded as completed.
CompletedSince(car) ==
    {id \in Stored : /\ rentals[id].car = car
                     /\ rentals[id].status = "completed"
                     /\ rentals[id] # Loaded[id]}

\* The car of a rental answered OK is on the list of available cars only once a
\* rental of that car has been completed: not because hiding it failed, or landed
\* late, or because a completion that failed or lost its race released it
\* (rental_service.cpp:94 and 177).  Without completions, as the server is deployed,
\* it is off the list for good.
ListedOnlyByCompletion ==
    \A w \in Workers :
        req[w].op = "create" /\ answer[w] = "OK" /\ available[req[w].doc.car]
            => CompletedSince(req[w].doc.car) # {}

\* "Failed to create rental" is what CreateRental answers with CONFLICT.
ConflictMeansNotCreated ==
    \A w \in Workers :
        req[w].op = "create" /\ answer[w] = "CONFLICT" => req[w].id \notin Stored

\* `available' says that the car can be rented: once every request is answered, a car
\* that a client has rented, and nobody has completed the rental, is not listed as
\* available.  (Cars of the active rentals of the start-up script are, from the start.)
AvailableHasNoActiveRental ==
    (\A w \in Workers : pc[w] = "ready") =>
        \A id \in Active \ LoadedIds : ~available[rentals[id].car]

-----------------------------------------------------------------------------
(* Action and liveness properties.                                         *)

\* A stored rental stays, with the fields it was stored with; only an active
\* one changes, to completed, and a completed one is never active again, also
\* when writes of abandoned requests arrive late.
RentalsArePermanent ==
    [][\A id \in Stored :
           \/ rentals'[id] = rentals[id]
           \/ /\ id \in Active
              /\ rentals'[id] = [rentals[id] EXCEPT !.status = "completed"]]_vars

\* Without failures every request is answered.
EveryRequestIsAnswered ==
    \A w \in Workers : pc[w] # "ready" ~> (pc[w] = "ready" /\ answer[w] # "none")

\* Without failures and completions, a rental that a request stores takes its car off
\* the list of available cars, for good.
BookedCarIsHidden ==
    \A id \in RentalIds \ LoadedIds, c \in Cars :
        (id \in Stored /\ rentals[id].car = c) ~> [](~available[c])

-----------------------------------------------------------------------------
(* The collection alone, as seen by those who only read it.                *)

Dates == {ToDate(t) : t \in Instants}
            \cup {Loaded[id].start : id \in LoadedIds} \cup {Loaded[id].end : id \in LoadedIds}

Ledger == INSTANCE RentalLedger

\* Requests served one at a time, without failures, book in one atomic step.
ImplementsLedger == Ledger!Spec
=============================================================================
