--------------------------- MODULE RentalBooking ---------------------------
(***************************************************************************)
(* RentalService::CreateRental and RentalService::CompleteRental, run by   *)
(* the server's workers against one MongoDB.                               *)
(*                                                                         *)
(* A handler runs on one worker from its first instruction to its answer:  *)
(* mongocxx calls block.  Between two Mongo commands of one handler the    *)
(* commands of the others may take effect, so a handler is a sequence of   *)
(* steps, one per command, named by pc[w]; the service code that runs      *)
(* after a command and before the next one belongs to the command's step.  *)
(* The database executes each command atomically.                          *)
(*                                                                         *)
(* If Faulty, a command may raise an exception in the driver and the       *)
(* process may be killed.  A write whose caller gave up that way may still *)
(* be executed by the database, at any later time, or never: it waits in   *)
(* `late'.                                                                 *)
(*                                                                         *)
(* The server starts on the rentals and cars that init-mongo.js stores:    *)
(* active, completed and cancelled rentals (no handler cancels one), and   *)
(* the cars of the active ones stored as available like most others.       *)
(***************************************************************************)
EXTENDS Integers

CONSTANTS Workers,     \* handlers that can run at the same time
          Users, Cars, \* documents of the two collections a rental refers to
          UnknownId,   \* an id, well formed or not, that no document has
          RentalIds,   \* BOUND: the rentals that can ever be requested
          Loaded,      \* rentals the start-up script stores: id |-> document, or None
          Listed,      \* cars it stores as available
          Instants,    \* BOUND: time points a request may name, in clock ticks
          TicksPerMs,  \* ticks of system_clock in one BSON date unit
          Operations,  \* operations clients call, of {"create", "complete"}
          Faulty,      \* whether commands may fail and the process may die
          None         \* no document

VARIABLES rentals,     \* the rentals collection: _id |-> document or None
          available,   \* the `available' field of each car document
          late,        \* writes that outlived their caller
          pc,          \* the Mongo command each worker executes next, or "ready"
          req,         \* the request a worker serves, or the last it served
          answer,      \* the code of the last answer, "none" if it gave none
          saw          \* history: rentals stored when the request that creates
                       \* rental id asked whether the car is available; those of
                       \* the start-up script, stored at once, count as seen
                       \* by one another

vars == <<rentals, available, late, pc, req, answer, saw>>

UserRefs == Users \cup {UnknownId}
CarRefs == Cars \cup {UnknownId}
EmptyId == ""

Rental == [user: UserRefs, car: CarRefs, start: Nat, end: Nat,
           status: {"active", "completed", "cancelled"}]

Requests == [op: {"create", "complete"}, id: RentalIds \cup {None},
             doc: Rental \cup {None}]

Reads == {"UserExists", "GetCarById", "IsCarAvailable", "FindRental",
          "GetRentalById"}
Writes == {"InsertRental", "HideCar", "CompleteRental", "ReleaseCar"}

Commands == [cmd: Writes, id: RentalIds, doc: Rental]

Answers == {"none", "OK", "VALIDATION_ERROR", "NOT_FOUND", "CAR_NOT_AVAILABLE",
            "CONFLICT", "INTERNAL"}

ASSUME BookingAssumptions ==
    /\ UnknownId \notin Users \cup Cars
    /\ EmptyId \notin CarRefs
    /\ None \notin Rental
    /\ None \notin RentalIds
    /\ Instants \subseteq Nat
    /\ TicksPerMs \in Nat \ {0}
    /\ Faulty \in BOOLEAN

LoadedIds == {id \in RentalIds : Loaded[id] # None}

\* Its rentals refer to its users and cars, and no two active ones to the same car.
ASSUME LoadedAssumptions ==
    /\ Loaded \in [RentalIds -> Rental \cup {None}]
    /\ \A id \in LoadedIds : Loaded[id].user \in Users /\ Loaded[id].car \in Cars
    /\ \A i, j \in LoadedIds :
           Loaded[i].status = "active" /\ Loaded[j].status = "active" /\ i # j
               => Loaded[i].car # Loaded[j].car
    /\ Listed \subseteq Cars

-----------------------------------------------------------------------------
(* The collections.                                                        *)

Stored == {id \in RentalIds : rentals[id] # None}

Active == {id \in Stored : rentals[id].status = "active"}

\* bsoncxx::types::b_date counts milliseconds: the rest of a tick count is lost.
ToDate(t) == t \div TicksPerMs

\* The document stored for a domain::Rental.
ToBson(doc) == [doc EXCEPT !.start = ToDate(@), !.end = ToDate(@)]

\* Mutant: only rentals within the requested period are counted.
ContainedClashes(doc) ==
    {id \in Active : /\ rentals[id].car = doc.car
                     /\ rentals[id].start >= ToDate(doc.start)
                     /\ rentals[id].end <= ToDate(doc.end)}

\* The active rentals the availability query counts.
Clashes(doc) ==
    {id \in Active : /\ rentals[id].car = doc.car
                     /\ rentals[id].start < ToDate(doc.end)
                     /\ rentals[id].end > ToDate(doc.start)}

\* The update of one field; an id no car has matches nothing.
SetAvailable(car, value) == available' = [available EXCEPT ![car] = value]

\* Mutant: hiding the car saves the whole rental again, as it was created.
ExecuteSavingRental(w) ==
    \/ /\ w.cmd \in {"InsertRental", "HideCar"}
       /\ rentals' = [rentals EXCEPT ![w.id] = ToBson(w.doc)]
       /\ UNCHANGED available
    \/ /\ w.cmd = "CompleteRental" /\ w.id \in Active
       /\ rentals' = [rentals EXCEPT ![w.id].status = "completed"]
       /\ UNCHANGED available
    \/ /\ w.cmd = "CompleteRental" /\ w.id \notin Active
       /\ UNCHANGED <<rentals, available>>
    \/ /\ w.cmd = "ReleaseCar"
       /\ SetAvailable(w.doc.car, TRUE)
       /\ UNCHANGED rentals

\* What the database does when it executes a write.
Execute(w) ==
    \/ /\ w.cmd = "InsertRental"
       /\ rentals' = [rentals EXCEPT ![w.id] = ToBson(w.doc)]
       /\ UNCHANGED available
    \/ /\ w.cmd = "CompleteRental"
       /\ rentals' = IF w.id \in Active
                     THEN [rentals EXCEPT ![w.id].status = "completed"]
                     ELSE rentals
       /\ UNCHANGED available
    \/ /\ w.cmd = "HideCar"
       /\ SetAvailable(w.doc.car, FALSE)
       /\ UNCHANGED rentals
    \/ /\ w.cmd = "ReleaseCar"
       /\ SetAvailable(w.doc.car, TRUE)
       /\ UNCHANGED rentals

-----------------------------------------------------------------------------
(* The workers.                                                            *)

Command(w) == [cmd |-> pc[w], id |-> req[w].id, doc |-> req[w].doc]

Goto(w, command) ==
    /\ pc' = [pc EXCEPT ![w] = command]
    /\ UNCHANGED answer

Answer(w, code) ==
    /\ pc' = [pc EXCEPT ![w] = "ready"]
    /\ answer' = [answer EXCEPT ![w] = code]

\* Ids no document, pending write or other request uses: the driver draws ObjectIds.
FreshIds(w) ==
    {id \in RentalIds \ Stored :
        /\ \A m \in late : m.id # id
        /\ \A v \in Workers \ {w} : req[v].op = "create" => req[v].id # id}

Accept(w, op, id, doc, first) ==
    /\ pc[w] = "ready"
    /\ op \in Operations
    /\ pc' = [pc EXCEPT ![w] = first]
    /\ req' = [req EXCEPT ![w] = [op |-> op, id |-> id, doc |-> doc]]
    /\ answer' = [answer EXCEPT ![w] = "none"]
    /\ UNCHANGED <<rentals, available, late, saw>>

\* domain::Rental::Create: the user id of a verified token is never empty, the
\* car id of a request body may be.
ValidRental(car, start, end) == start < end /\ car # EmptyId

\* CreateRental, up to its first command.
ReceiveCreate(w) ==
    \E user \in UserRefs, car \in CarRefs, start, end \in Instants, id \in FreshIds(w) :
        /\ ValidRental(car, start, end)
        /\ Accept(w, "create", id,
                  [user |-> user, car |-> car, start |-> start, end |-> end,
                   status |-> "active"],
                  "UserExists")

RejectInvalid(w) ==
    /\ pc[w] = "ready"
    /\ "create" \in Operations
    /\ \E car \in CarRefs \cup {EmptyId}, start, end \in Instants :
           ~ValidRental(car, start, end)
    /\ Answer(w, "VALIDATION_ERROR")
    /\ req' = [req EXCEPT ![w] = [op |-> "create", id |-> None, doc |-> None]]
    /\ UNCHANGED <<rentals, available, late, saw>>

\* Mutant: an unknown user is looked up again until there is one.
UserExistsRetrying(w) ==
    /\ pc[w] = "UserExists"
    /\ IF req[w].doc.user \in Users THEN Goto(w, "GetCarById") ELSE Goto(w, "UserExists")
    /\ UNCHANGED <<rentals, available, late, req, saw>>

UserExists(w) ==
    /\ pc[w] = "UserExists"
    /\ IF req[w].doc.user \in Users
       THEN Goto(w, "GetCarById")
       ELSE Answer(w, "NOT_FOUND")
    /\ UNCHANGED <<rentals, available, late, req, saw>>

\* Mutant: the missing car is not noticed.
GetCarByIdUnchecked(w) ==
    /\ pc[w] = "GetCarById"
    /\ Goto(w, "IsCarAvailable")
    /\ UNCHANGED <<rentals, available, late, req, saw>>

GetCarById(w) ==
    /\ pc[w] = "GetCarById"
    /\ IF req[w].doc.car \in Cars
       THEN Goto(w, "IsCarAvailable")
       ELSE Answer(w, "NOT_FOUND")
    /\ UNCHANGED <<rentals, available, late, req, saw>>

\* Mutant: the result of the query is ignored.
IsCarAvailableIgnored(w) ==
    /\ pc[w] = "IsCarAvailable"
    /\ Goto(w, "InsertRental")
    /\ saw' = [saw EXCEPT ![req[w].id] = Stored]
    /\ UNCHANGED <<rentals, available, late, req>>

IsCarAvailable(w) ==
    /\ pc[w] = "IsCarAvailable"
    /\ IF Clashes(req[w].doc) = {}
       THEN Goto(w, "InsertRental")
       ELSE Answer(w, "CAR_NOT_AVAILABLE")
    /\ saw' = [saw EXCEPT ![req[w].id] = Stored]
    /\ UNCHANGED <<rentals, available, late, req>>

\* Mutant: the request is answered as soon as the rental is stored.
InsertRentalAndAnswer(w) ==
    /\ pc[w] = "InsertRental"
    /\ Execute(Command(w))
    /\ Answer(w, "OK")
    /\ UNCHANGED <<late, req, saw>>

InsertRental(w) ==
    /\ pc[w] = "InsertRental"
    /\ Execute(Command(w))
    /\ Goto(w, "FindRental")
    /\ UNCHANGED <<late, req, saw>>

\* The document is read back; without it the caller is told that nothing was created.
FindRental(w) ==
    /\ pc[w] = "FindRental"
    /\ IF req[w].id \in Stored
       THEN Goto(w, "HideCar")
       ELSE Answer(w, "CONFLICT")
    /\ UNCHANGED <<rentals, available, late, req, saw>>

HideCar(w) ==
    /\ pc[w] = "HideCar"
    /\ Execute(Command(w))
    /\ Answer(w, "OK")
    /\ UNCHANGED <<late, req, saw>>

ReceiveComplete(w) ==
    \E id \in RentalIds : Accept(w, "complete", id, None, "GetRentalById")

\* Mutant: neither the missing nor the completed rental is noticed.
GetRentalByIdUnchecked(w) ==
    /\ pc[w] = "GetRentalById"
    /\ Goto(w, "CompleteRental")
    /\ req' = [req EXCEPT ![w].doc = rentals[req[w].id]]
    /\ UNCHANGED <<rentals, available, late, saw>>

GetRentalById(w) ==
    /\ pc[w] = "GetRentalById"
    /\ \/ /\ req[w].id \notin Stored
          /\ Answer(w, "NOT_FOUND")
          /\ UNCHANGED req
       \/ /\ req[w].id \in Stored \ Active
          /\ Answer(w, "CONFLICT")
          /\ UNCHANGED req
       \/ /\ req[w].id \in Active
          /\ Goto(w, "CompleteRental")
          /\ req' = [req EXCEPT ![w].doc = rentals[req[w].id]]
    /\ UNCHANGED <<rentals, available, late, saw>>

\* Mutant: the result of the update is ignored.
CompleteRentalIgnored(w) ==
    /\ pc[w] = "CompleteRental"
    /\ Execute(Command(w))
    /\ Goto(w, "ReleaseCar")
    /\ UNCHANGED <<late, req, saw>>

CompleteRental(w) ==
    /\ pc[w] = "CompleteRental"
    /\ Execute(Command(w))
    /\ IF req[w].id \in Active
       THEN Goto(w, "ReleaseCar")
       ELSE Answer(w, "CONFLICT")
    /\ UNCHANGED <<late, req, saw>>

ReleaseCar(w) ==
    /\ pc[w] = "ReleaseCar"
    /\ Execute(Command(w))
    /\ Answer(w, "OK")
    /\ req' = [req EXCEPT ![w].doc.status = "completed"]
    /\ UNCHANGED <<late, saw>>

-----------------------------------------------------------------------------
(* Failures.                                                               *)

\* Mutant: every exception of the storage is taken for an unavailable car.
FailureAnswerUnavailable(command) ==
    IF command \in {"InsertRental", "FindRental"} THEN "CAR_NOT_AVAILABLE" ELSE "INTERNAL"

\* MongoStorage::CreateRental turns every exception into nullopt; all other
\* exceptions leave the handler and become an internal error.
FailureAnswer(command) ==
    IF command \in {"InsertRental", "FindRental"} THEN "CONFLICT" ELSE "INTERNAL"

ReadFails(w) ==
    /\ Faulty
    /\ pc[w] \in Reads
    /\ Answer(w, FailureAnswer(pc[w]))
    /\ UNCHANGED <<rentals, available, late, req, saw>>

\* Mutant: a failed insert is taken for a stored rental.
WriteFailureIgnored(w) ==
    /\ Faulty
    /\ pc[w] \in Writes
    /\ late' = late \cup {Command(w)}
    /\ IF pc[w] = "InsertRental"
       THEN Goto(w, "HideCar")
       ELSE Answer(w, FailureAnswer(pc[w]))
    /\ UNCHANGED <<rentals, available, req, saw>>

\* Mutant: the car stays listed when hiding it fails, and the client is told OK.
HideCarFailureIgnored(w) ==
    /\ Faulty
    /\ pc[w] \in Writes
    /\ late' = late \cup {Command(w)}
    /\ Answer(w, IF pc[w] = "HideCar" THEN "OK" ELSE FailureAnswer(pc[w]))
    /\ UNCHANGED <<rentals, available, req, saw>>

WriteFails(w) ==
    /\ Faulty
    /\ pc[w] \in Writes
    /\ late' = late \cup {Command(w)}
    /\ Answer(w, FailureAnswer(pc[w]))
    /\ UNCHANGED <<rentals, available, req, saw>>

LateWrite == \E m \in late :
    /\ Execute(m)
    /\ late' = late \ {m}
    /\ UNCHANGED <<pc, req, answer, saw>>

LostWrite == \E m \in late :
    /\ late' = late \ {m}
    /\ UNCHANGED <<rentals, available, pc, req, answer, saw>>

\* The process dies and is started again: no request in flight is ever answered.
Crash ==
    /\ Faulty
    /\ pc' = [w \in Workers |-> "ready"]
    /\ late' = late \cup {Command(w) : w \in {v \in Workers : pc[v] \in Writes}}
    /\ UNCHANGED <<rentals, available, req, answer, saw>>

-----------------------------------------------------------------------------

Init ==
    /\ rentals = Loaded
    /\ available = [c \in Cars |-> c \in Listed]
    /\ late = {}
    /\ pc = [w \in Workers |-> "ready"]
    /\ req = [w \in Workers |-> [op |-> "create", id |-> None, doc |-> None]]
    /\ answer = [w \in Workers |-> "none"]
    /\ saw = [id \in RentalIds |-> IF id \in LoadedIds THEN LoadedIds ELSE {}]

Receive(w) == ReceiveCreate(w) \/ RejectInvalid(w) \/ ReceiveComplete(w)

CreateStep(w) == \/ UserExists(w) \/ GetCarById(w) \/ IsCarAvailable(w)
                 \/ InsertRental(w) \/ FindRental(w) \/ HideCar(w)

CompleteStep(w) == GetRentalById(w) \/ CompleteRental(w) \/ ReleaseCar(w)

Step(w) == CreateStep(w) \/ CompleteStep(w)

Failure == \/ \E w \in Workers : ReadFails(w) \/ WriteFails(w)
           \/ LateWrite \/ LostWrite \/ Crash

Next == (\E w \in Workers : Receive(w) \/ Step(w)) \/ Failure

SafetySpec == Init /\ [][Next]_vars

\* A worker thread that has a command to execute executes it: the driver's calls
\* return.  Nothing obliges clients to call, commands to fail or late writes to land.
Fairness == \A w \in Workers : WF_vars(Step(w))

Spec == SafetySpec /\ Fairness
=============================================================================
