------------------------- MODULE RentalBookingProofs -------------------------
(***************************************************************************)
(* The inductive invariant of RentalBooking, and the safety properties     *)
(* that follow from it for every number of workers, users, cars, rentals   *)
(* and time points, with or without failures.                              *)
(***************************************************************************)
EXTENDS RentalProperties, TLAPS

-----------------------------------------------------------------------------
(* The inductive invariant.                                                *)

BeforeInsert == {"UserExists", "GetCarById", "IsCarAvailable", "InsertRental"}
Creating == BeforeInsert \cup {"FindRental", "HideCar"}
Completing == {"GetRentalById", "CompleteRental", "ReleaseCar"}

\* What a worker holds while it executes the commands of an operation.
RequestShape(w) ==
    /\ pc[w] \in Creating =>
           /\ req[w].op = "create"
           /\ req[w].id \in RentalIds
           /\ req[w].doc \in Rental
           /\ req[w].doc.status = "active"
           /\ req[w].doc.start \in Instants
           /\ req[w].doc.end \in Instants
    /\ pc[w] \in Completing => req[w].op = "complete" /\ req[w].id \in RentalIds
    /\ pc[w] \in {"CompleteRental", "ReleaseCar"} => req[w].doc \in Rental

Shape == TypeOK /\ \A w \in Workers : RequestShape(w)

\* The rental to insert clashes with no rental its request saw, not even with one
\* stored since: those its request saw can only have been completed.
Checked(id, doc) ==
    /\ saw[id] \subseteq Stored
    /\ \A i \in saw[id] \cap Active : ~Overlap(rentals[i], ToBson(doc))

\* A request that has not stored its rental owns the rental's id.
WorkerInv(w) ==
    pc[w] \in BeforeInsert =>
        /\ req[w].id \notin Stored
        /\ \A m \in late : m.cmd = "InsertRental" => m.id # req[w].id
        /\ \A v \in Workers \ {w} : pc[v] \in BeforeInsert => req[v].id # req[w].id
        /\ pc[w] = "InsertRental" => Checked(req[w].id, req[w].doc)

\* So does an insert that outlived its request.
LateInv ==
    \A m \in late : m.cmd = "InsertRental" =>
        /\ m.id \notin Stored
        /\ Checked(m.id, m.doc)
        /\ \A n \in late : n.cmd = "InsertRental" /\ n.id = m.id => n = m

SawStored == \A j \in Stored : saw[j] \subseteq Stored

RaceInv == \A i, j \in Active : i # j /\ Overlap(rentals[i], rentals[j]) => i \notin saw[j]

Inv == /\ Shape
       /\ \A w \in Workers : WorkerInv(w)
       /\ LateInv
       /\ SawStored
       /\ RaceInv

-----------------------------------------------------------------------------
(* Operators.                                                              *)

\* A stored date is a natural number, as the time point it comes from.
LEMMA ToDateNat == \A t \in Nat : ToDate(t) \in Nat
BY BookingAssumptions, SMT DEF ToDate

\* A stored time is a time.
LEMMA ToBsonType == \A doc \in Rental : ToBson(doc) \in Rental
BY ToDateNat DEF ToBson, Rental

\* None is no document, so a stored id is one that maps to a document.
LEMMA StoredType ==
  ASSUME TypeOK
  PROVE  /\ \A id \in Stored : id \in RentalIds /\ rentals[id] \in Rental
         /\ Active \subseteq Stored
BY DEF TypeOK, Stored, Active

\* The effect of an insert.
LEMMA ExecuteInsert ==
  ASSUME TypeOK, NEW m \in Commands, m.cmd = "InsertRental", Execute(m)
  PROVE  /\ rentals' = [rentals EXCEPT ![m.id] = ToBson(m.doc)]
         /\ rentals'[m.id] = ToBson(m.doc)
         /\ \A i \in RentalIds \ {m.id} : rentals'[i] = rentals[i]
         /\ Stored' = Stored \cup {m.id}
         /\ Active' \subseteq Active \cup {m.id}
         /\ rentals' \in [RentalIds -> Rental \cup {None}]
         /\ UNCHANGED available
<1>1. m.id \in RentalIds /\ m.doc \in Rental
  BY DEF Commands
<1>2. ToBson(m.doc) \in Rental /\ ToBson(m.doc) # None
  BY <1>1, ToBsonType, BookingAssumptions
<1>3. rentals' = [rentals EXCEPT ![m.id] = ToBson(m.doc)] /\ UNCHANGED available
  BY DEF Execute
<1>4. /\ rentals'[m.id] = ToBson(m.doc)
      /\ \A i \in RentalIds \ {m.id} : rentals'[i] = rentals[i]
      /\ rentals' \in [RentalIds -> Rental \cup {None}]
  BY <1>1, <1>2, <1>3 DEF TypeOK
<1>5. Stored' = Stored \cup {m.id}
  BY <1>1, <1>2, <1>4 DEF Stored
<1> QED
  BY <1>3, <1>4, <1>5 DEF Active, Stored

\* The effect of the other writes: nothing is stored or made active by them.
LEMMA ExecuteUpdate ==
  ASSUME TypeOK, NEW m \in Commands, m.cmd # "InsertRental", Execute(m)
  PROVE  /\ Stored' = Stored
         /\ Active' \subseteq Active
         /\ \A i \in Active' : rentals'[i] = rentals[i]
         /\ \A i \in Stored : /\ rentals'[i].user = rentals[i].user
                              /\ rentals'[i].car = rentals[i].car
         /\ rentals' \in [RentalIds -> Rental \cup {None}]
         /\ available' \in [Cars -> BOOLEAN]
<1>1. CASE m.cmd = "CompleteRental" /\ m.id \in Active
  <2>1. rentals' = [rentals EXCEPT ![m.id].status = "completed"] /\ UNCHANGED available
    BY <1>1 DEF Execute
  <2>2. rentals[m.id] \in Rental /\ m.id \in RentalIds
    BY <1>1, StoredType DEF Active, Stored
  <2>3. [rentals[m.id] EXCEPT !.status = "completed"] \in Rental
    BY <2>2 DEF Rental
  <2>4. /\ rentals'[m.id] = [rentals[m.id] EXCEPT !.status = "completed"]
        /\ \A i \in RentalIds \ {m.id} : rentals'[i] = rentals[i]
        /\ rentals' \in [RentalIds -> Rental \cup {None}]
    BY <2>1, <2>2, <2>3 DEF TypeOK
  <2>5. rentals'[m.id] # None /\ rentals'[m.id].status = "completed"
    BY <2>2, <2>3, <2>4, BookingAssumptions DEF Rental
  <2>6. Stored' = Stored
    BY <1>1, <2>4, <2>5 DEF Stored, Active
  <2>7. /\ rentals'[m.id].user = rentals[m.id].user
        /\ rentals'[m.id].car = rentals[m.id].car
    BY <2>2, <2>4 DEF Rental
  <2> QED
    BY <2>1, <2>4, <2>5, <2>6, <2>7 DEF Active, Stored, TypeOK
<1>2. CASE m.cmd = "CompleteRental" /\ m.id \notin Active
  BY <1>2 DEF Execute, Stored, Active, TypeOK
<1>3. CASE m.cmd \in {"HideCar", "ReleaseCar"}
  BY <1>3 DEF Execute, SetAvailable, Stored, Active, TypeOK
<1> QED
  BY <1>1, <1>2, <1>3 DEF Commands, Writes

-----------------------------------------------------------------------------
(* Types, and what workers hold.                                           *)

\* The write a worker is about to issue is a well-formed command.
LEMMA CommandType ==
  ASSUME Shape, NEW w \in Workers, pc[w] \in Writes
  PROVE  Command(w) \in Commands
BY DEF Shape, RequestShape, Command, Commands, Writes, Creating, BeforeInsert, Completing

\* A step of one worker that moves to a command its request is fit for.
LEMMA WorkerStepShape ==
  ASSUME Shape, NEW w \in Workers,
         rentals' \in [RentalIds -> Rental \cup {None}],
         available' \in [Cars -> BOOLEAN],
         late' \subseteq Commands,
         saw' \in [RentalIds -> SUBSET RentalIds],
         pc' \in [Workers -> {"ready"} \cup Reads \cup Writes],
         req' \in [Workers -> Requests],
         answer' \in [Workers -> Answers],
         \A v \in Workers \ {w} : pc'[v] = pc[v] /\ req'[v] = req[v],
         RequestShape(w)'
  PROVE  Shape'
BY DEF Shape, TypeOK, RequestShape

\* Shape is inductive: every step leaves each worker with the request its next
\* command needs.
LEMMA ShapeStep == Shape /\ [Next]_vars => Shape'
<1> SUFFICES ASSUME Shape, [Next]_vars PROVE Shape'
  OBVIOUS
<1> USE DEF Reads, Writes, Answers
<1>t. TypeOK
  BY DEF Shape
<1>1. ASSUME NEW w \in Workers, ReceiveCreate(w) PROVE Shape'
  <2> PICK user \in UserRefs, car \in CarRefs, start \in Instants,
           end \in Instants, id \in FreshIds(w) :
        Accept(w, "create", id,
               [user |-> user, car |-> car, start |-> start, end |-> end,
                status |-> "active"],
               "UserExists")
    BY <1>1 DEF ReceiveCreate
  <2> DEFINE doc == [user |-> user, car |-> car, start |-> start, end |-> end,
                     status |-> "active"]
  <2>1. doc \in Rental /\ id \in RentalIds
    BY BookingAssumptions DEF Rental, FreshIds
  <2>2. req' = [req EXCEPT ![w] = [op |-> "create", id |-> id, doc |-> doc]]
    BY DEF Accept
  <2>3. /\ req' \in [Workers -> Requests]
        /\ req'[w] = [op |-> "create", id |-> id, doc |-> doc]
    BY <1>t, <2>1, <2>2 DEF TypeOK, Requests
  <2>4. /\ pc' \in [Workers -> {"ready"} \cup Reads \cup Writes]
        /\ pc'[w] = "UserExists"
        /\ answer' \in [Workers -> Answers]
    BY <1>t DEF TypeOK, Accept
  <2>5. RequestShape(w)'
    BY <2>1, <2>3, <2>4 DEF RequestShape, Creating, Completing
  <2> HIDE DEF doc
  <2> QED
    BY <1>t, <2>2, <2>3, <2>4, <2>5, WorkerStepShape DEF TypeOK, Accept
<1>2. ASSUME NEW w \in Workers, RejectInvalid(w) PROVE Shape'
  <2>1. pc'[w] = "ready" /\ RequestShape(w)'
    BY <1>t, <1>2 DEF TypeOK, RejectInvalid, Answer, RequestShape, Creating,
                      BeforeInsert, Completing
  <2> QED
    BY <1>t, <1>2, <2>1, WorkerStepShape DEF TypeOK, RejectInvalid, Answer, Requests
<1>3. ASSUME NEW w \in Workers, ReceiveComplete(w) PROVE Shape'
  <2> PICK id \in RentalIds : Accept(w, "complete", id, None, "GetRentalById")
    BY <1>3 DEF ReceiveComplete
  <2>1. /\ req' = [req EXCEPT ![w] = [op |-> "complete", id |-> id, doc |-> None]]
        /\ req'[w] = [op |-> "complete", id |-> id, doc |-> None]
        /\ pc'[w] = "GetRentalById"
    BY <1>t DEF TypeOK, Accept
  <2>2. RequestShape(w)'
    BY <2>1 DEF RequestShape, Creating, BeforeInsert, Completing
  <2> QED
    BY <1>t, <2>1, <2>2, WorkerStepShape DEF TypeOK, Accept, Requests
<1>4. ASSUME NEW w \in Workers, UserExists(w) \/ GetCarById(w) \/ FindRental(w)
      PROVE Shape'
  <2>1. RequestShape(w)'
    BY <1>t, <1>4 DEF Shape, TypeOK, UserExists, GetCarById, FindRental, Goto, Answer,
                      RequestShape, Creating, BeforeInsert, Completing
  <2> QED
    BY <1>t, <1>4, <2>1, WorkerStepShape
    DEF TypeOK, UserExists, GetCarById, FindRental, Goto, Answer
<1>5. ASSUME NEW w \in Workers, IsCarAvailable(w) PROVE Shape'
  <2>1. RequestShape(w)'
    BY <1>t, <1>5 DEF Shape, TypeOK, IsCarAvailable, Goto, Answer, RequestShape,
                      Creating, BeforeInsert, Completing
  <2>2. saw' \in [RentalIds -> SUBSET RentalIds]
    BY <1>t, <1>5 DEF TypeOK, IsCarAvailable, Stored
  <2> QED
    BY <1>t, <1>5, <2>1, <2>2, WorkerStepShape DEF TypeOK, IsCarAvailable, Goto, Answer
<1>6. ASSUME NEW w \in Workers, InsertRental(w) PROVE Shape'
  <2>1. Command(w) \in Commands /\ Command(w).cmd = "InsertRental" /\ Execute(Command(w))
    BY <1>6, CommandType DEF InsertRental, Command
  <2>2. rentals' \in [RentalIds -> Rental \cup {None}] /\ UNCHANGED available
    BY <1>t, <2>1, ExecuteInsert
  <2>3. RequestShape(w)'
    BY <1>t, <1>6 DEF Shape, TypeOK, InsertRental, Goto, RequestShape, Creating,
                      BeforeInsert, Completing
  <2> QED
    BY <1>t, <1>6, <2>2, <2>3, WorkerStepShape DEF TypeOK, InsertRental, Goto
<1>7. ASSUME NEW w \in Workers, HideCar(w) \/ CompleteRental(w) \/ ReleaseCar(w)
      PROVE Shape'
  <2>1. Command(w) \in Commands /\ Command(w).cmd # "InsertRental" /\ Execute(Command(w))
    BY <1>7, CommandType DEF HideCar, CompleteRental, ReleaseCar, Command
  <2>2. /\ rentals' \in [RentalIds -> Rental \cup {None}]
        /\ available' \in [Cars -> BOOLEAN]
    BY <1>t, <2>1, ExecuteUpdate
  <2>3. CASE HideCar(w) \/ CompleteRental(w)
    <3>1. RequestShape(w)'
      BY <1>t, <2>3 DEF Shape, TypeOK, HideCar, CompleteRental, Goto, Answer,
                        RequestShape, Creating, BeforeInsert, Completing
    <3> QED
      BY <1>t, <2>2, <2>3, <3>1, WorkerStepShape
      DEF TypeOK, HideCar, CompleteRental, Goto, Answer
  <2>4. CASE ReleaseCar(w)
    <3>1. RequestShape(w)'
      BY <1>t, <2>4 DEF TypeOK, ReleaseCar, Answer, RequestShape, Creating,
                        BeforeInsert, Completing
    <3>2. req[w].doc \in Rental
      BY <2>4 DEF Shape, RequestShape, ReleaseCar
    <3>3. [req[w].doc EXCEPT !.status = "completed"] \in Rental
      BY <3>2 DEF Rental
    <3>4. [req[w] EXCEPT !.doc.status = "completed"] \in Requests
      BY <1>t, <3>3 DEF TypeOK, Requests
    <3>5. req' = [req EXCEPT ![w] = [req[w] EXCEPT !.doc.status = "completed"]]
      BY <2>4 DEF ReleaseCar
    <3>6. /\ req' \in [Workers -> Requests]
          /\ \A v \in Workers \ {w} : req'[v] = req[v]
      BY <1>t, <3>4, <3>5 DEF TypeOK
    <3> QED
      BY <1>t, <2>2, <2>4, <3>1, <3>6, WorkerStepShape DEF TypeOK, ReleaseCar, Answer
  <2> QED
    BY <1>7, <2>3, <2>4
<1>8. ASSUME NEW w \in Workers, GetRentalById(w) PROVE Shape'
  <2>1. CASE UNCHANGED req /\ (Answer(w, "NOT_FOUND") \/ Answer(w, "CONFLICT"))
    <3>1. RequestShape(w)'
      BY <1>t, <2>1 DEF TypeOK, Answer, RequestShape, Creating, BeforeInsert, Completing
    <3> QED
      BY <1>t, <1>8, <2>1, <3>1, WorkerStepShape DEF TypeOK, GetRentalById, Goto, Answer
  <2>2. CASE /\ req[w].id \in Active
             /\ Goto(w, "CompleteRental")
             /\ req' = [req EXCEPT ![w].doc = rentals[req[w].id]]
    <3>1. rentals[req[w].id] \in Rental
      BY <1>t, <2>2, StoredType
    <3>2. [req[w] EXCEPT !.doc = rentals[req[w].id]] \in Requests
      BY <1>t, <3>1 DEF TypeOK, Requests
    <3>3. /\ req' = [req EXCEPT ![w] = [req[w] EXCEPT !.doc = rentals[req[w].id]]]
          /\ req[w].op = "complete" /\ req[w].id \in RentalIds
      BY <1>8, <2>2 DEF Shape, RequestShape, GetRentalById, Completing
    <3>4. /\ req' \in [Workers -> Requests]
          /\ req'[w] = [req[w] EXCEPT !.doc = rentals[req[w].id]]
          /\ \A v \in Workers \ {w} : req'[v] = req[v]
      BY <1>t, <3>2, <3>3 DEF TypeOK
    <3>5. req'[w].op = "complete" /\ req'[w].id \in RentalIds /\ req'[w].doc \in Rental
      BY <1>t, <3>1, <3>3, <3>4 DEF TypeOK, Requests
    <3>6. pc'[w] = "CompleteRental"
      BY <1>t, <2>2 DEF TypeOK, Goto
    <3>7. RequestShape(w)'
      BY <3>5, <3>6 DEF RequestShape, Creating, BeforeInsert, Completing
    <3> QED
      BY <1>t, <1>8, <2>2, <3>4, <3>7, WorkerStepShape DEF TypeOK, GetRentalById, Goto
  <2> QED
    BY <1>8, <2>1, <2>2 DEF GetRentalById
<1>9. ASSUME NEW w \in Workers, ReadFails(w) \/ WriteFails(w) PROVE Shape'
  <2>1. late' \subseteq Commands
    BY <1>t, <1>9, CommandType DEF TypeOK, ReadFails, WriteFails
  <2>2. FailureAnswer(pc[w]) \in Answers
    BY DEF FailureAnswer
  <2>3. RequestShape(w)'
    BY <1>t, <1>9 DEF TypeOK, ReadFails, WriteFails, Answer, RequestShape, Creating,
                      BeforeInsert, Completing
  <2> QED
    BY <1>t, <1>9, <2>1, <2>2, <2>3, WorkerStepShape DEF TypeOK, ReadFails, WriteFails, Answer
<1>10. ASSUME LateWrite PROVE Shape'
  <2> PICK m \in late : Execute(m) /\ late' = late \ {m} /\ UNCHANGED <<pc, req, answer, saw>>
    BY <1>10 DEF LateWrite
  <2>1. m \in Commands
    BY <1>t DEF TypeOK
  <2>2. /\ rentals' \in [RentalIds -> Rental \cup {None}]
        /\ available' \in [Cars -> BOOLEAN]
    BY <1>t, <2>1, ExecuteInsert, ExecuteUpdate DEF TypeOK
  <2> QED
    BY <1>t, <2>2 DEF Shape, TypeOK, RequestShape
<1>11. ASSUME LostWrite \/ Crash PROVE Shape'
  <2>1. late' \subseteq Commands
    BY <1>t, <1>11, CommandType DEF TypeOK, LostWrite, Crash
  <2>2. CASE LostWrite
    BY <1>t, <2>1, <2>2 DEF LostWrite, Shape, TypeOK, RequestShape
  <2>3. CASE Crash
    BY <1>t, <2>1, <2>3 DEF Crash, Shape, TypeOK, RequestShape, Creating, BeforeInsert,
                            Completing
  <2> QED
    BY <1>11, <2>2, <2>3
<1>12. CASE UNCHANGED vars
  BY <1>12 DEF vars, Shape, TypeOK, RequestShape
<1> QED
  BY <1>1, <1>2, <1>3, <1>4, <1>5, <1>6, <1>7, <1>8, <1>9, <1>10, <1>11, <1>12
  DEF Next, Receive, Step, CreateStep, CompleteStep, Failure

\* What the start-up script stores is what is stored when the server starts, each
\* rental seen by all of them.
LEMMA InitialRentals ==
  ASSUME Init
  PROVE  /\ rentals = Loaded /\ rentals \in [RentalIds -> Rental \cup {None}]
         /\ Stored = LoadedIds
         /\ saw \in [RentalIds -> SUBSET RentalIds]
         /\ \A id \in Stored : saw[id] = Stored
BY LoadedAssumptions DEF Init, LoadedIds, Stored

\* The server starts with no request in flight.
LEMMA InitialShape == Init => Shape
BY InitialRentals
DEF Init, Shape, TypeOK, RequestShape, Creating, BeforeInsert, Completing, Requests, Answers

\* Every variable stays in its set, in every behaviour.
THEOREM TypeCorrect == SafetySpec => []TypeOK
<1>1. Init => Shape
  BY InitialShape
<1>2. Shape => TypeOK
  BY DEF Shape
<1> QED
  BY <1>1, <1>2, ShapeStep, PTL DEF SafetySpec

-----------------------------------------------------------------------------
(* Overlaps come from races only.                                          *)

\* A rental checked against what its request saw stays checked while ids are only
\* added and the active rentals it saw keep their fields.
LEMMA CheckedKept ==
  ASSUME UNCHANGED saw, Stored \subseteq Stored',
         \A i \in Active' \cap Stored : i \in Active /\ rentals'[i] = rentals[i]
  PROVE  \A id, doc : Checked(id, doc) => Checked(id, doc)'
<1> SUFFICES ASSUME NEW id, NEW doc, Checked(id, doc) PROVE Checked(id, doc)'
  OBVIOUS
<1>1. saw[id] \subseteq Stored /\ saw'[id] = saw[id]
  BY DEF Checked
<1>2. \A i \in saw[id] \cap Active' : ~Overlap(rentals'[i], ToBson(doc))
  BY <1>1 DEF Checked
<1> QED
  BY <1>1, <1>2 DEF Checked

\* A step that stores nothing, and whose workers only advance, give up or start.
LEMMA QuietStep ==
  ASSUME Inv, Shape', Stored' = Stored, Active' \subseteq Active,
         \A i \in Active' : rentals'[i] = rentals[i],
         UNCHANGED saw,
         \A m \in late' : m.cmd = "InsertRental" =>
             \/ m \in late
             \/ \E w \in Workers : /\ pc[w] = "InsertRental"
                                   /\ pc'[w] \notin BeforeInsert
                                   /\ m = Command(w),
         \A w \in Workers : pc'[w] \in BeforeInsert =>
             \/ /\ pc[w] \in BeforeInsert
                /\ req'[w] = req[w]
                /\ pc'[w] = "InsertRental" => pc[w] = "InsertRental"
             \/ /\ pc'[w] = "UserExists"
                /\ req'[w].id \in FreshIds(w)
                /\ late' = late
                /\ \A v \in Workers \ {w} : pc'[v] = pc[v] /\ req'[v] = req[v]
  PROVE  Inv'
<1>1. \A id, doc : Checked(id, doc) => Checked(id, doc)'
  BY CheckedKept
<1>2. LateInv'
  <2> SUFFICES ASSUME NEW m \in late', m.cmd = "InsertRental"
               PROVE  /\ m.id \notin Stored
                      /\ Checked(m.id, m.doc)
                      /\ \A n \in late' : n.cmd = "InsertRental" /\ n.id = m.id => n = m
    BY <1>1 DEF LateInv
  <2>1. m.id \notin Stored /\ Checked(m.id, m.doc)
    BY DEF Inv, LateInv, WorkerInv, Command, BeforeInsert
  <2>2. ASSUME NEW n \in late', n.cmd = "InsertRental", n.id = m.id PROVE n = m
    BY <2>2 DEF Inv, LateInv, WorkerInv, Command, BeforeInsert
  <2> QED
    BY <2>1, <2>2
<1>3. ASSUME NEW w \in Workers PROVE WorkerInv(w)'
  <2> SUFFICES ASSUME pc'[w] \in BeforeInsert
               PROVE  /\ req'[w].id \notin Stored
                      /\ \A m \in late' : m.cmd = "InsertRental" => m.id # req'[w].id
                      /\ \A v \in Workers \ {w} :
                             pc'[v] \in BeforeInsert => req'[v].id # req'[w].id
                      /\ pc'[w] = "InsertRental" => Checked(req[w].id, req[w].doc)'
    BY DEF WorkerInv
  <2>1. CASE /\ pc[w] \in BeforeInsert
             /\ req'[w] = req[w]
             /\ pc'[w] = "InsertRental" => pc[w] = "InsertRental"
    <3>1. \A m \in late' : m.cmd = "InsertRental" => m.id # req[w].id
      BY <2>1 DEF Inv, WorkerInv, Command, BeforeInsert
    <3>2. ASSUME NEW v \in Workers \ {w}, pc'[v] \in BeforeInsert
          PROVE  req'[v].id # req[w].id
      BY <2>1, <3>2 DEF Inv, Shape, RequestShape, Creating, WorkerInv, FreshIds
    <3>3. pc'[w] = "InsertRental" => Checked(req[w].id, req[w].doc)'
      BY <1>1, <2>1 DEF Inv, WorkerInv, Checked
    <3> QED
      BY <2>1, <3>1, <3>2, <3>3 DEF Inv, WorkerInv
  <2>2. CASE /\ pc'[w] = "UserExists"
             /\ req'[w].id \in FreshIds(w)
             /\ late' = late
             /\ \A v \in Workers \ {w} : pc'[v] = pc[v] /\ req'[v] = req[v]
    BY <2>2 DEF Inv, Shape, RequestShape, Creating, FreshIds
  <2> QED
    BY <2>1, <2>2
<1>4. SawStored' /\ RaceInv'
  BY DEF Inv, SawStored, RaceInv
<1> QED
  BY <1>2, <1>3, <1>4 DEF Inv

\* A step that executes a checked insert, of a worker or of an abandoned request.
LEMMA InsertStep ==
  ASSUME Inv, Shape', NEW m \in Commands, m.cmd = "InsertRental", Execute(m),
         m.id \notin Stored, Checked(m.id, m.doc),
         UNCHANGED saw,
         late' \subseteq late,
         \A n \in late' : n.cmd = "InsertRental" => n.id # m.id,
         \A w \in Workers : pc'[w] \in BeforeInsert =>
             pc'[w] = pc[w] /\ req'[w] = req[w] /\ req[w].id # m.id
  PROVE  Inv'
<1>1. /\ \A i \in RentalIds \ {m.id} : rentals'[i] = rentals[i]
      /\ rentals'[m.id] = ToBson(m.doc)
      /\ Stored' = Stored \cup {m.id}
      /\ Active' \subseteq Active \cup {m.id}
  BY ExecuteInsert DEF Inv, Shape
<1>2. Active \subseteq Stored /\ Stored \subseteq RentalIds
  BY DEF Active, Stored
<1>3. \A id, doc : Checked(id, doc) => Checked(id, doc)'
  BY <1>1, <1>2, CheckedKept
<1>4. LateInv'
  BY <1>1, <1>3 DEF Inv, LateInv
<1>5. ASSUME NEW w \in Workers PROVE WorkerInv(w)'
  BY <1>1, <1>3 DEF Inv, WorkerInv, Checked
<1>6. SawStored'
  BY <1>1 DEF Inv, SawStored, Checked
<1>7. RaceInv'
  <2> SUFFICES ASSUME NEW i \in Active', NEW j \in Active', i # j, i \in saw[j],
                      Overlap(rentals'[i], rentals'[j])
               PROVE  FALSE
    BY DEF RaceInv, Overlap
  <2>1. CASE j = m.id
    BY <1>1, <1>2, <2>1 DEF Checked
  <2>2. CASE j # m.id
    <3>1. j \in Active /\ i \in Stored
      BY <1>1, <1>2, <2>2 DEF Inv, SawStored
    <3>2. i \in Active /\ rentals'[i] = rentals[i] /\ rentals'[j] = rentals[j]
      BY <1>1, <1>2, <2>2, <3>1
    <3> QED
      BY <3>1, <3>2 DEF Inv, RaceInv
  <2> QED
    BY <2>1, <2>2
<1> QED
  BY <1>4, <1>5, <1>6, <1>7 DEF Inv

\* The availability query: a rental that passes it clashes with no active one.
LEMMA AvailabilityStep ==
  ASSUME Inv, Shape', NEW w \in Workers, IsCarAvailable(w)
  PROVE  Inv'
<1> DEFINE id == req[w].id
<1>1. /\ pc[w] = "IsCarAvailable"
      /\ id \in RentalIds /\ req[w].doc \in Rental
      /\ id \notin Stored
      /\ UNCHANGED <<rentals, late, req>>
      /\ \A v \in Workers \ {w} : pc'[v] = pc[v]
      /\ pc'[w] = "InsertRental" => Clashes(req[w].doc) = {}
      /\ Stored \subseteq RentalIds
  BY DEF Inv, Shape, TypeOK, RequestShape, WorkerInv, Creating, BeforeInsert,
         IsCarAvailable, Goto, Answer, Stored
<1>2. saw'[id] = Stored /\ \A i \in RentalIds \ {id} : saw'[i] = saw[i]
  BY <1>1 DEF Inv, Shape, TypeOK, IsCarAvailable
<1>3. Stored' = Stored /\ Active' = Active
  BY <1>1 DEF Stored, Active
<1>4. \A other \in RentalIds \ {id} : \A doc : Checked(other, doc) => Checked(other, doc)'
  BY <1>1, <1>2, <1>3 DEF Checked
<1>5. LateInv'
  <2>1. \A m \in late : m.cmd = "InsertRental" => m.id \in RentalIds \ {id}
    BY <1>1 DEF Inv, WorkerInv, BeforeInsert, Shape, TypeOK, Commands
  <2> QED
    BY <1>1, <1>3, <1>4, <2>1 DEF Inv, LateInv
<1>6. ASSUME NEW v \in Workers PROVE WorkerInv(v)'
  <2>1. CASE v = w
    <3>1. pc'[w] = "InsertRental" => Checked(req[w].id, req[w].doc)'
      <4> SUFFICES ASSUME Clashes(req[w].doc) = {}, NEW i \in Active
                   PROVE  ~Overlap(rentals[i], ToBson(req[w].doc))
        BY <1>1, <1>2, <1>3 DEF Checked
      <4>1. /\ ToBson(req[w].doc).start = ToDate(req[w].doc.start)
            /\ ToBson(req[w].doc).end = ToDate(req[w].doc.end)
            /\ ToBson(req[w].doc).car = req[w].doc.car
        BY <1>1 DEF ToBson, Rental
      <4>2. /\ rentals[i].start \in Nat /\ rentals[i].end \in Nat
            /\ ToDate(req[w].doc.start) \in Nat /\ ToDate(req[w].doc.end) \in Nat
        BY <1>1, StoredType, ToDateNat DEF Inv, Shape, Rental
      <4> QED
        BY <4>1, <4>2 DEF Clashes, Overlap
    <3> QED
      BY <1>1, <1>3, <2>1, <3>1 DEF Inv, WorkerInv, BeforeInsert
  <2>2. CASE v # w
    <3>1. pc[v] \in BeforeInsert => req[v].id \in RentalIds \ {id}
      BY <1>1, <2>2 DEF Inv, WorkerInv, BeforeInsert, Creating, Shape, RequestShape
    <3>2. \A u \in Workers : pc'[u] \in BeforeInsert => pc[u] \in BeforeInsert
      BY <1>1 DEF BeforeInsert
    <3> QED
      BY <1>1, <1>3, <1>4, <2>2, <3>1, <3>2 DEF Inv, WorkerInv
  <2> QED
    BY <2>1, <2>2
<1>7. SawStored' /\ RaceInv'
  BY <1>1, <1>2, <1>3 DEF Inv, SawStored, RaceInv, Active, Stored
<1> QED
  BY <1>5, <1>6, <1>7 DEF Inv

\* Inv is inductive: only three kinds of steps matter to it.
LEMMA InvStep == Inv /\ [Next]_vars => Inv'
<1> SUFFICES ASSUME Inv, [Next]_vars PROVE Inv'
  OBVIOUS
<1>s. Shape' /\ TypeOK
  BY ShapeStep DEF Inv, Shape
<1>1. ASSUME NEW w \in Workers, ReceiveCreate(w) PROVE Inv'
  <2> PICK user \in UserRefs, car \in CarRefs, start \in Instants,
           end \in Instants, id \in FreshIds(w) :
        Accept(w, "create", id,
               [user |-> user, car |-> car, start |-> start, end |-> end,
                status |-> "active"],
               "UserExists")
    BY <1>1 DEF ReceiveCreate
  <2>1. /\ pc'[w] = "UserExists" /\ req'[w].id = id
        /\ \A v \in Workers \ {w} : pc'[v] = pc[v] /\ req'[v] = req[v]
        /\ UNCHANGED <<rentals, late, saw>>
    BY <1>s DEF TypeOK, Accept
  <2> QED
    BY <1>s, <2>1, QuietStep DEF Stored, Active
<1>2. ASSUME NEW w \in Workers,
             \/ RejectInvalid(w) \/ ReceiveComplete(w) \/ UserExists(w) \/ GetCarById(w)
             \/ FindRental(w) \/ GetRentalById(w) \/ ReadFails(w)
      PROVE Inv'
  <2>1. /\ pc'[w] \in BeforeInsert \ {"InsertRental"} =>
             pc[w] \in BeforeInsert /\ req'[w] = req[w]
        /\ pc'[w] # "InsertRental"
    BY <1>s, <1>2 DEF TypeOK, RejectInvalid, ReceiveComplete, Accept, UserExists, GetCarById,
                      FindRental, GetRentalById, ReadFails, Goto, Answer, BeforeInsert
  <2>2. /\ \A v \in Workers \ {w} : pc'[v] = pc[v] /\ req'[v] = req[v]
        /\ UNCHANGED <<rentals, late, saw>>
    BY <1>s, <1>2 DEF TypeOK, RejectInvalid, ReceiveComplete, Accept, UserExists, GetCarById,
                      FindRental, GetRentalById, ReadFails, Goto, Answer
  <2> QED
    BY <1>s, <2>1, <2>2, QuietStep DEF Stored, Active
<1>3. ASSUME NEW w \in Workers, IsCarAvailable(w) PROVE Inv'
  BY <1>s, <1>3, AvailabilityStep
<1>4. ASSUME NEW w \in Workers, InsertRental(w) PROVE Inv'
  <2>1. /\ Command(w) \in Commands /\ Command(w).cmd = "InsertRental"
        /\ Command(w).id = req[w].id /\ Command(w).doc = req[w].doc
        /\ Execute(Command(w))
        /\ UNCHANGED <<late, saw>>
    BY <1>4, CommandType DEF InsertRental, Command, Inv, Writes
  <2>2. /\ req[w].id \notin Stored
        /\ Checked(req[w].id, req[w].doc)
        /\ \A n \in late : n.cmd = "InsertRental" => n.id # req[w].id
        /\ \A v \in Workers \ {w} : pc[v] \in BeforeInsert => req[v].id # req[w].id
    BY <1>4 DEF Inv, WorkerInv, InsertRental, BeforeInsert
  <2>3. /\ pc'[w] = "FindRental"
        /\ \A v \in Workers \ {w} : pc'[v] = pc[v]
        /\ UNCHANGED req
    BY <1>s, <1>4 DEF TypeOK, InsertRental, Goto
  <2>4. \A v \in Workers : pc'[v] \in BeforeInsert =>
            pc'[v] = pc[v] /\ req'[v] = req[v] /\ req[v].id # req[w].id
    BY <2>2, <2>3 DEF BeforeInsert
  <2> DEFINE m == Command(w)
  <2>5. /\ m \in Commands /\ m.cmd = "InsertRental" /\ Execute(m)
        /\ m.id \notin Stored /\ Checked(m.id, m.doc)
        /\ \A n \in late' : n.cmd = "InsertRental" => n.id # m.id
        /\ \A v \in Workers : pc'[v] \in BeforeInsert =>
               pc'[v] = pc[v] /\ req'[v] = req[v] /\ req[v].id # m.id
    BY <2>1, <2>2, <2>4
  <2> HIDE DEF m
  <2> QED
    BY <1>s, <2>1, <2>5, InsertStep
<1>5. ASSUME NEW w \in Workers, HideCar(w) \/ CompleteRental(w) \/ ReleaseCar(w)
      PROVE Inv'
  <2>1. Command(w) \in Commands /\ Command(w).cmd # "InsertRental" /\ Execute(Command(w))
    BY <1>5, CommandType DEF HideCar, CompleteRental, ReleaseCar, Command, Inv, Writes
  <2>2. Stored' = Stored /\ Active' \subseteq Active /\ \A i \in Active' : rentals'[i] = rentals[i]
    BY <1>s, <2>1, ExecuteUpdate
  <2>3. /\ pc'[w] \notin BeforeInsert
        /\ \A v \in Workers \ {w} : pc'[v] = pc[v] /\ req'[v] = req[v]
        /\ UNCHANGED <<late, saw>>
    BY <1>s, <1>5 DEF TypeOK, HideCar, CompleteRental, ReleaseCar, Goto, Answer, BeforeInsert
  <2> QED
    BY <1>s, <2>2, <2>3, QuietStep
<1>6. ASSUME NEW w \in Workers, WriteFails(w) PROVE Inv'
  <2>1. /\ pc'[w] = "ready"
        /\ \A v \in Workers \ {w} : pc'[v] = pc[v]
        /\ late' = late \cup {Command(w)}
        /\ UNCHANGED <<rentals, req, saw>>
    BY <1>s, <1>6 DEF TypeOK, WriteFails, Answer
  <2>2. Command(w).cmd = pc[w]
    BY DEF Command
  <2> QED
    BY <1>s, <2>1, <2>2, QuietStep DEF Stored, Active, BeforeInsert
<1>7. ASSUME LateWrite PROVE Inv'
  <2> PICK m \in late : Execute(m) /\ late' = late \ {m} /\ UNCHANGED <<pc, req, answer, saw>>
    BY <1>7 DEF LateWrite
  <2>1. m \in Commands
    BY <1>s DEF TypeOK
  <2>2. CASE m.cmd = "InsertRental"
    <3>1. /\ m.id \notin Stored /\ Checked(m.id, m.doc)
          /\ \A n \in late' : n.cmd = "InsertRental" => n.id # m.id
      BY <2>2 DEF Inv, LateInv
    <3>2. \A v \in Workers : pc[v] \in BeforeInsert => req[v].id # m.id
      BY <2>2 DEF Inv, WorkerInv
    <3> QED
      BY <1>s, <2>1, <2>2, <3>1, <3>2, InsertStep
  <2>3. CASE m.cmd # "InsertRental"
    <3>1. Stored' = Stored /\ Active' \subseteq Active
          /\ \A i \in Active' : rentals'[i] = rentals[i]
      BY <1>s, <2>1, <2>3, ExecuteUpdate
    <3> QED
      BY <1>s, <3>1, QuietStep
  <2> QED
    BY <2>2, <2>3
<1>8. ASSUME LostWrite PROVE Inv'
  BY <1>s, <1>8, QuietStep DEF LostWrite, Stored, Active
<1>9. ASSUME Crash PROVE Inv'
  <2>1. /\ \A w \in Workers : pc'[w] = "ready"
        /\ late' = late \cup {Command(w) : w \in {v \in Workers : pc[v] \in Writes}}
        /\ UNCHANGED <<rentals, req, saw>>
    BY <1>9 DEF Crash
  <2>2. \A w \in Workers : Command(w).cmd = pc[w]
    BY DEF Command
  <2> QED
    BY <1>s, <2>1, <2>2, QuietStep DEF Stored, Active, BeforeInsert
<1>10. CASE UNCHANGED vars
  BY <1>s, <1>10, QuietStep DEF vars, Stored, Active
<1> QED
  BY <1>1, <1>2, <1>3, <1>4, <1>5, <1>6, <1>7, <1>8, <1>9, <1>10
  DEF Next, Receive, Step, CreateStep, CompleteStep, Failure

\* The invariant holds in every behaviour.
LEMMA InvAlways == SafetySpec => []Inv
<1>1. ASSUME Init PROVE Inv
  <2>1. Shape
    BY <1>1, InitialShape
  <2>2. (\A w \in Workers : WorkerInv(w)) /\ LateInv
    BY <1>1 DEF Init, WorkerInv, BeforeInsert, LateInv
  <2>3. SawStored
    BY <1>1, InitialRentals DEF SawStored
  <2>4. RaceInv
    BY <1>1, InitialRentals, LoadedAssumptions DEF RaceInv, Active, Overlap
  <2> QED
    BY <2>1, <2>2, <2>3, <2>4 DEF Inv
<1> QED
  BY <1>1, InvStep, PTL DEF SafetySpec

\* Whatever fails, and in whatever order late writes land, a rental overlaps an
\* active one only if neither request could see the other's rental.
THEOREM OverlapsAreRaces == SafetySpec => []OverlapOnlyFromRace
<1>1. Inv => OverlapOnlyFromRace
  BY DEF Inv, RaceInv, OverlapOnlyFromRace, Overlap
<1> QED
  BY <1>1, InvAlways, PTL

-----------------------------------------------------------------------------
(* A stored rental stays.                                                  *)

\* RentalsArePermanent, of one step.
Permanent ==
    \A id \in Stored :
        \/ rentals'[id] = rentals[id]
        \/ /\ id \in Active
           /\ rentals'[id] = [rentals[id] EXCEPT !.status = "completed"]

\* An insert of a new id, and every other write.
LEMMA ExecuteIsPermanent ==
  ASSUME TypeOK, NEW m \in Commands, m.cmd = "InsertRental" => m.id \notin Stored, Execute(m)
  PROVE  Permanent
<1>1. CASE m.cmd = "InsertRental"
  <2>1. \A i \in RentalIds \ {m.id} : rentals'[i] = rentals[i]
    BY <1>1, ExecuteInsert
  <2> QED
    BY <1>1, <2>1 DEF Permanent, Stored
<1>2. CASE m.cmd = "CompleteRental"
  <2>1. rentals' = IF m.id \in Active THEN [rentals EXCEPT ![m.id].status = "completed"]
                                      ELSE rentals
    BY <1>2 DEF Execute
  <2> QED
    BY <2>1 DEF Permanent, TypeOK, Stored
<1>3. CASE m.cmd \in {"HideCar", "ReleaseCar"}
  BY <1>3 DEF Execute, Permanent
<1> QED
  BY <1>1, <1>2, <1>3 DEF Commands, Writes

\* No step changes what is permanent.
LEMMA StepIsPermanent == Inv /\ [Next]_vars => Permanent
<1> SUFFICES ASSUME Inv, [Next]_vars PROVE Permanent
  OBVIOUS
<1>t. Shape /\ TypeOK
  BY DEF Inv, Shape
<1>1. ASSUME NEW w \in Workers,
             InsertRental(w) \/ HideCar(w) \/ CompleteRental(w) \/ ReleaseCar(w)
      PROVE Permanent
  <2>1. pc[w] \in Writes /\ Execute(Command(w))
    BY <1>1 DEF InsertRental, HideCar, CompleteRental, ReleaseCar, Writes
  <2>2. Command(w) \in Commands
    BY <1>t, <2>1, CommandType
  <2>3. Command(w).cmd = "InsertRental" => Command(w).id \notin Stored
    BY DEF Command, Inv, WorkerInv, BeforeInsert
  <2> QED
    BY <1>t, <2>1, <2>2, <2>3, ExecuteIsPermanent
<1>2. ASSUME LateWrite PROVE Permanent
  <2>1. PICK m \in late : Execute(m)
    BY <1>2 DEF LateWrite
  <2>2. m \in Commands /\ (m.cmd = "InsertRental" => m.id \notin Stored)
    BY <1>t DEF TypeOK, Inv, LateInv
  <2> QED
    BY <1>t, <2>1, <2>2, ExecuteIsPermanent
<1>3. UNCHANGED rentals => Permanent
  BY DEF Permanent
<1>4. ASSUME NEW w \in Workers,
             \/ Receive(w) \/ UserExists(w) \/ GetCarById(w) \/ IsCarAvailable(w)
             \/ FindRental(w) \/ GetRentalById(w) \/ ReadFails(w) \/ WriteFails(w)
      PROVE UNCHANGED rentals
  BY <1>4 DEF Receive, ReceiveCreate, RejectInvalid, ReceiveComplete, Accept, UserExists,
              GetCarById, IsCarAvailable, FindRental, GetRentalById, ReadFails, WriteFails
<1>5. LostWrite \/ Crash \/ UNCHANGED vars => UNCHANGED rentals
  BY DEF LostWrite, Crash, vars
<1> QED
  BY <1>1, <1>2, <1>3, <1>4, <1>5 DEF Next, Step, CreateStep, CompleteStep, Failure

\* No write, however late, changes a stored rental but to complete it, once.
THEOREM StoredRentalsStay == SafetySpec => RentalsArePermanent
<1>1. Inv /\ [Next]_vars =>
        [\A id \in Stored :
           \/ rentals'[id] = rentals[id]
           \/ /\ id \in Active
              /\ rentals'[id] = [rentals[id] EXCEPT !.status = "completed"]]_vars
  BY StepIsPermanent DEF Permanent
<1> QED
  BY <1>1, InvAlways, PTL DEF SafetySpec, RentalsArePermanent

-----------------------------------------------------------------------------
(* Rentals refer to users and cars that exist.                             *)

\* What the lookups a request has behind it have established, and what its
\* insert, when it outlives the request, still relies on.
RefInv ==
    /\ \A w \in Workers :
           /\ pc[w] \in {"GetCarById", "IsCarAvailable", "InsertRental"} =>
                  req[w].doc.user \in Users
           /\ pc[w] \in {"IsCarAvailable", "InsertRental"} => req[w].doc.car \in Cars
    /\ \A m \in late :
           m.cmd = "InsertRental" => m.doc.user \in Users /\ m.doc.car \in Cars
    /\ ReferencesExist

\* The references of a command to be executed are those of its request.
LEMMA ExecuteKeepsReferences ==
  ASSUME TypeOK, ReferencesExist, NEW m \in Commands, Execute(m),
         m.cmd = "InsertRental" => m.doc.user \in Users /\ m.doc.car \in Cars
  PROVE  ReferencesExist'
<1>1. CASE m.cmd = "InsertRental"
  <2>1. ToBson(m.doc).user = m.doc.user /\ ToBson(m.doc).car = m.doc.car
    BY DEF Commands, Rental, ToBson
  <2> QED
    BY <1>1, <2>1, ExecuteInsert DEF ReferencesExist, Stored
<1>2. CASE m.cmd # "InsertRental"
  BY <1>2, ExecuteUpdate DEF ReferencesExist
<1> QED
  BY <1>1, <1>2

\* What a rental refers to was there before it, and stays.
LEMMA RefStep == Shape /\ RefInv /\ [Next]_vars => RefInv'
<1> SUFFICES ASSUME Shape, RefInv, [Next]_vars PROVE RefInv'
  OBVIOUS
<1>t. TypeOK
  BY DEF Shape
<1>1. ASSUME NEW w \in Workers, Receive(w) PROVE RefInv'
  <2>1. /\ pc'[w] \in {"ready", "UserExists", "GetRentalById"}
        /\ \A v \in Workers \ {w} : pc'[v] = pc[v] /\ req'[v] = req[v]
        /\ UNCHANGED <<rentals, late>>
    BY <1>t, <1>1 DEF TypeOK, Receive, ReceiveCreate, RejectInvalid, ReceiveComplete,
                      Accept, Answer
  <2> QED
    BY <2>1 DEF RefInv, ReferencesExist, Stored
<1>2. ASSUME NEW w \in Workers,
             UserExists(w) \/ GetCarById(w) \/ IsCarAvailable(w) \/ FindRental(w)
      PROVE RefInv'
  <2>1. /\ UNCHANGED <<rentals, late, req>>
        /\ \A v \in Workers \ {w} : pc'[v] = pc[v]
        /\ \/ pc'[w] \in {"ready", "HideCar"}
           \/ pc'[w] = "GetCarById" /\ req[w].doc.user \in Users
           \/ pc[w] = "GetCarById" /\ pc'[w] = "IsCarAvailable" /\ req[w].doc.car \in Cars
           \/ pc[w] = "IsCarAvailable" /\ pc'[w] = "InsertRental"
    BY <1>t, <1>2 DEF TypeOK, UserExists, GetCarById, IsCarAvailable, FindRental, Goto, Answer
  <2> QED
    BY <2>1 DEF RefInv, ReferencesExist, Stored
<1>3. ASSUME NEW w \in Workers,
             InsertRental(w) \/ HideCar(w) \/ CompleteRental(w) \/ ReleaseCar(w)
      PROVE RefInv'
  <2>1. /\ pc[w] \in Writes
        /\ Execute(Command(w))
        /\ pc'[w] \in {"ready", "FindRental", "ReleaseCar"}
        /\ UNCHANGED late
        /\ \A v \in Workers \ {w} : pc'[v] = pc[v] /\ req'[v] = req[v]
    BY <1>t, <1>3 DEF TypeOK, InsertRental, HideCar, CompleteRental, ReleaseCar, Goto,
                      Answer, Writes
  <2> DEFINE m == Command(w)
  <2>2. /\ m \in Commands /\ Execute(m)
        /\ m.cmd = "InsertRental" => m.doc.user \in Users /\ m.doc.car \in Cars
    BY <2>1, CommandType DEF Command, RefInv
  <2> HIDE DEF m
  <2>3. ReferencesExist'
    BY <1>t, <2>2, ExecuteKeepsReferences DEF RefInv
  <2> QED
    BY <2>1, <2>3 DEF RefInv
<1>4. ASSUME NEW w \in Workers, GetRentalById(w) PROVE RefInv'
  <2>1. /\ UNCHANGED <<rentals, late>>
        /\ pc'[w] \in {"ready", "CompleteRental"}
        /\ \A v \in Workers \ {w} : pc'[v] = pc[v] /\ req'[v] = req[v]
    BY <1>t, <1>4 DEF TypeOK, GetRentalById, Goto, Answer
  <2> QED
    BY <2>1 DEF RefInv, ReferencesExist, Stored
<1>5. ASSUME NEW w \in Workers, ReadFails(w) \/ WriteFails(w) PROVE RefInv'
  <2>1. /\ UNCHANGED <<rentals, req>>
        /\ late' \subseteq late \cup {Command(w)}
        /\ pc'[w] = "ready"
        /\ \A v \in Workers \ {w} : pc'[v] = pc[v]
    BY <1>t, <1>5 DEF TypeOK, ReadFails, WriteFails, Answer
  <2> QED
    BY <2>1 DEF RefInv, ReferencesExist, Stored, Command
<1>6. ASSUME LateWrite PROVE RefInv'
  <2> PICK m \in late : Execute(m) /\ late' = late \ {m} /\ UNCHANGED <<pc, req, answer, saw>>
    BY <1>6 DEF LateWrite
  <2>1. /\ m \in Commands
        /\ m.cmd = "InsertRental" => m.doc.user \in Users /\ m.doc.car \in Cars
    BY <1>t DEF TypeOK, RefInv
  <2>2. ReferencesExist'
    BY <1>t, <2>1, ExecuteKeepsReferences DEF RefInv
  <2> QED
    BY <2>2 DEF RefInv
<1>7. ASSUME LostWrite PROVE RefInv'
  BY <1>7 DEF LostWrite, RefInv, ReferencesExist, Stored
<1>8. ASSUME Crash PROVE RefInv'
  BY <1>8 DEF Crash, RefInv, ReferencesExist, Stored, Command
<1>9. CASE UNCHANGED vars
  BY <1>9 DEF vars, RefInv, ReferencesExist, Stored
<1> QED
  BY <1>1, <1>2, <1>3, <1>4, <1>5, <1>6, <1>7, <1>8, <1>9
  DEF Next, Step, CreateStep, CompleteStep, Failure

\* References hold in every behaviour.
LEMMA RefInvAlways == SafetySpec => [](Shape /\ RefInv)
<1>1. ASSUME Init PROVE Shape /\ RefInv
  <2>1. ReferencesExist
    BY <1>1, InitialRentals, LoadedAssumptions DEF ReferencesExist
  <2> QED
    BY <1>1, <2>1, InitialShape DEF Init, RefInv
<1> QED
  BY <1>1, ShapeStep, RefStep, PTL DEF SafetySpec

\* Every stored rental is of a user and a car that were looked up, however late
\* its insert is executed.
THEOREM ReferencesAlwaysExist == SafetySpec => []ReferencesExist
<1>1. RefInv => ReferencesExist
  BY DEF RefInv
<1> QED
  BY <1>1, RefInvAlways, PTL

-----------------------------------------------------------------------------
(* What a client was told stays true.                                      *)

Refusals == {"NOT_FOUND", "CAR_NOT_AVAILABLE", "VALIDATION_ERROR"}

LateIds == {m.id : m \in late}

\* The rental of a request is stored as the request asked, completed or not.
StoredAsAsked(w) ==
    /\ req[w].id \in Stored
    /\ \E status \in {"active", "completed"} :
           rentals[req[w].id] = [ToBson(req[w].doc) EXCEPT !.status = status]

\* A request that changed a rental from active to completed.
Completed(w) == req[w].op = "complete" /\ (pc[w] = "ReleaseCar" \/ answer[w] = "OK")

\* What each worker's request, in progress or answered, relies on: the id of a
\* refused one is in use nowhere, a stored rental is the one asked for, and a
\* completion that was won leaves its rental completed.
AnswerInv(w) ==
    /\ pc[w] # "ready" => answer[w] = "none"
    /\ req[w].op = "create" /\ (pc[w] \in BeforeInsert \/ answer[w] \in Refusals) =>
           req[w].id \notin Stored \cup LateIds
    /\ req[w].op = "create" /\ (pc[w] \in {"FindRental", "HideCar"} \/ answer[w] = "OK") =>
           StoredAsAsked(w)
    /\ pc[w] = "CompleteRental" => req[w].id \in Stored
    /\ Completed(w) => req[w].id \in Stored \ Active

\* No two requests share what makes them answer: the id one creates, the rental
\* one completes.
ApartInv ==
    \A v, w \in Workers : v # w =>
        /\ req[v].op = "create" /\ req[w].op = "create" /\ req[v].id = req[w].id =>
               req[v].id = None
        /\ Completed(v) /\ Completed(w) => req[v].id # req[w].id

\* Only an insert may wait for a rental that is not stored.
LateUpdatesStored == \A m \in late : m.cmd # "InsertRental" => m.id \in Stored

ClientInv ==
    /\ \A w \in Workers : AnswerInv(w)
    /\ ApartInv
    /\ LateUpdatesStored

\* What is stored stays so, and no rental becomes active again.
LEMMA PermanentKeeps ==
  ASSUME TypeOK, TypeOK', Permanent
  PROVE  /\ Stored \subseteq Stored'
         /\ Stored \ Active \subseteq Stored' \ Active'
<1> SUFFICES ASSUME NEW id \in Stored
             PROVE  id \in Stored' /\ (id \in Active' => id \in Active)
  OBVIOUS
<1>1. id \in RentalIds /\ rentals[id] \in Rental
  BY StoredType
<1>2. [rentals[id] EXCEPT !.status = "completed"] \in Rental
  BY <1>1 DEF Rental
<1>3. rentals'[id] \in Rental
  BY <1>1, <1>2 DEF Permanent
<1>4. id \in Stored'
  BY <1>1, <1>3, BookingAssumptions DEF Stored
<1> QED
  BY <1>4 DEF Permanent, Active

\* A rental stored as it was asked for remains the rental asked for.
LEMMA AskedKept ==
  ASSUME TypeOK, TypeOK', Permanent, NEW w \in Workers, StoredAsAsked(w), req'[w] = req[w]
  PROVE  StoredAsAsked(w)'
<1> DEFINE id == req[w].id
           doc == ToBson(req[w].doc)
<1>1. id \in Stored /\ id \in Stored'
  BY PermanentKeeps DEF StoredAsAsked
<1>2. PICK status \in {"active", "completed"} : rentals[id] = [doc EXCEPT !.status = status]
  BY DEF StoredAsAsked
<1>3. CASE rentals'[id] = rentals[id]
  BY <1>1, <1>2, <1>3 DEF StoredAsAsked, ToBson, ToDate
<1>4. CASE rentals'[id] = [rentals[id] EXCEPT !.status = "completed"]
  <2>1. [[doc EXCEPT !.status = status] EXCEPT !.status = "completed"]
        = [doc EXCEPT !.status = "completed"]
    OBVIOUS
  <2>2. rentals'[id] = [doc EXCEPT !.status = "completed"]
    BY <1>2, <1>4, <2>1
  <2> QED
    BY <1>1, <2>2 DEF StoredAsAsked, ToBson, ToDate
<1> QED
  BY <1>1, <1>3, <1>4 DEF Permanent

\* A worker that does nothing, or is killed, in a step that uses no id it owns.
LEMMA AnswerKept ==
  ASSUME TypeOK, TypeOK', Permanent, NEW w \in Workers, AnswerInv(w),
         pc'[w] \in {pc[w], "ready"}, req'[w] = req[w], answer'[w] = answer[w],
         req[w].op = "create" /\ (pc'[w] \in BeforeInsert \/ answer[w] \in Refusals) =>
             req[w].id \notin Stored' \cup LateIds'
  PROVE  AnswerInv(w)'
<1>1. Stored \subseteq Stored' /\ Stored \ Active \subseteq Stored' \ Active'
  BY PermanentKeeps
<1>2. StoredAsAsked(w) => StoredAsAsked(w)'
  BY AskedKept
<1>3. Completed(w)' => Completed(w)
  BY DEF Completed
<1> QED
  BY <1>1, <1>2, <1>3 DEF AnswerInv, BeforeInsert

\* A step of one worker: only an id its creation owns comes into use, and what it
\* starts to create or has just completed is nobody else's.
LEMMA WorkerStepClient ==
  ASSUME TypeOK, TypeOK', ClientInv, Permanent, NEW w \in Workers,
         \A v \in Workers \ {w} : pc'[v] = pc[v] /\ req'[v] = req[v] /\ answer'[v] = answer[v],
         Stored' \cup LateIds' \subseteq
             Stored \cup LateIds \cup {id \in {req[w].id} : req[w].op = "create"},
         req'[w].op = "create" =>
             \/ req[w].op = "create" /\ req'[w].id = req[w].id
             \/ req'[w].id \in FreshIds(w) \cup {None},
         Completed(w)' =>
             \/ Completed(w) /\ req'[w].id = req[w].id
             \/ req'[w].id \in Active,
         AnswerInv(w)',
         LateUpdatesStored'
  PROVE  ClientInv'
<1>1. None \notin Stored' \cup LateIds'
  BY BookingAssumptions DEF TypeOK, Stored, LateIds, Commands
<1>2. ASSUME NEW v \in Workers \ {w} PROVE AnswerInv(v)'
  <2>1. ASSUME req[v].op = "create", pc[v] \in BeforeInsert \/ answer[v] \in Refusals
        PROVE  req[v].id \notin Stored' \cup LateIds'
    BY <1>1, <2>1 DEF ClientInv, AnswerInv, ApartInv
  <2> QED
    BY <2>1, AnswerKept DEF ClientInv
<1>3. ASSUME NEW v \in Workers \ {w}, req[v].op = "create", req'[w].op = "create",
             req[v].id = req'[w].id
      PROVE  req[v].id = None
  BY <1>3 DEF ClientInv, ApartInv, FreshIds
<1>4. ASSUME NEW v \in Workers \ {w}, Completed(v), Completed(w)'
      PROVE  req[v].id # req'[w].id
  BY <1>4 DEF ClientInv, ApartInv, AnswerInv
<1>5. \A v \in Workers \ {w} : Completed(v)' = Completed(v)
  BY DEF Completed
<1>6. ApartInv'
  <2> SUFFICES ASSUME NEW u \in Workers, NEW v \in Workers, u # v
               PROVE  /\ req'[u].op = "create" /\ req'[v].op = "create" /\ req'[u].id = req'[v].id
                             => req'[u].id = None
                      /\ Completed(u)' /\ Completed(v)' => req'[u].id # req'[v].id
    BY DEF ApartInv
  <2>1. CASE u = w
    BY <1>3, <1>4, <1>5, <2>1
  <2>2. CASE v = w
    BY <1>3, <1>4, <1>5, <2>2
  <2>3. CASE u # w /\ v # w
    BY <1>5, <2>3 DEF ClientInv, ApartInv
  <2> QED
    BY <2>1, <2>2, <2>3
<1> QED
  BY <1>2, <1>6 DEF ClientInv

\* A step of the database or of the whole process: ids already in use stay in
\* use, those of writes given up by a crash are owned by their requests.
LEMMA OtherStepClient ==
  ASSUME TypeOK, TypeOK', ClientInv, Permanent,
         UNCHANGED <<req, answer>>,
         \A w \in Workers : pc'[w] \in {pc[w], "ready"},
         \A id \in Stored' \cup LateIds' :
             \/ id \in Stored \cup LateIds
             \/ \E w \in Workers : /\ pc[w] = "InsertRental" /\ pc'[w] = "ready"
                                   /\ req[w].op = "create" /\ id = req[w].id,
         LateUpdatesStored'
  PROVE  ClientInv'
<1>1. None \notin Stored' \cup LateIds'
  BY BookingAssumptions DEF TypeOK, Stored, LateIds, Commands
<1>2. ASSUME NEW v \in Workers PROVE AnswerInv(v)'
  <2>1. ASSUME req[v].op = "create", pc'[v] \in BeforeInsert \/ answer[v] \in Refusals
        PROVE  req[v].id \notin Stored' \cup LateIds'
    BY <1>1, <2>1 DEF ClientInv, AnswerInv, ApartInv, BeforeInsert, Refusals
  <2> QED
    BY <2>1, AnswerKept DEF ClientInv
<1>3. ApartInv'
  BY DEF ClientInv, ApartInv, Completed
<1> QED
  BY <1>2, <1>3 DEF ClientInv


\* What a worker holds when it has accepted or rejected a request.
LEMMA ReceiveFacts ==
  ASSUME TypeOK, NEW w \in Workers, Receive(w)
  PROVE  /\ pc[w] = "ready"
         /\ \/ /\ pc'[w] = "UserExists" /\ answer'[w] = "none"
               /\ req'[w].op = "create" /\ req'[w].id \in FreshIds(w)
            \/ /\ pc'[w] = "ready" /\ answer'[w] = "VALIDATION_ERROR"
               /\ req'[w].op = "create" /\ req'[w].id = None
            \/ /\ pc'[w] = "GetRentalById" /\ answer'[w] = "none"
               /\ req'[w].op = "complete"
         /\ \A v \in Workers \ {w} : pc'[v] = pc[v] /\ req'[v] = req[v] /\ answer'[v] = answer[v]
         /\ UNCHANGED <<rentals, available, late>>
<1>1. CASE ReceiveCreate(w)
  <2> PICK user \in UserRefs, car \in CarRefs, start \in Instants, end \in Instants,
           id \in FreshIds(w) :
        Accept(w, "create", id,
               [user |-> user, car |-> car, start |-> start, end |-> end,
                status |-> "active"],
               "UserExists")
    BY <1>1 DEF ReceiveCreate
  <2> QED
    BY DEF Accept, TypeOK
<1>2. CASE RejectInvalid(w)
  BY <1>2 DEF RejectInvalid, Answer, TypeOK
<1>3. CASE ReceiveComplete(w)
  BY <1>3 DEF ReceiveComplete, Accept, TypeOK
<1> QED
  BY <1>1, <1>2, <1>3 DEF Receive

\* The request of a completion keeps its rental's id, whether that was found or not.
LEMMA GetRentalByIdFacts ==
  ASSUME Shape, NEW w \in Workers, GetRentalById(w)
  PROVE  /\ pc[w] = "GetRentalById" /\ req[w].op = "complete"
         /\ req'[w].op = "complete" /\ req'[w].id = req[w].id
         /\ \/ pc'[w] = "ready" /\ answer'[w] \in {"NOT_FOUND", "CONFLICT"}
            \/ pc'[w] = "CompleteRental" /\ UNCHANGED answer /\ req[w].id \in Stored
         /\ \A v \in Workers \ {w} : pc'[v] = pc[v] /\ req'[v] = req[v] /\ answer'[v] = answer[v]
         /\ UNCHANGED <<rentals, late>>
<1>1. TypeOK /\ pc[w] = "GetRentalById" /\ req[w].op = "complete"
  BY DEF Shape, RequestShape, GetRentalById, Completing
<1>2. /\ req'[w].op = "complete" /\ req'[w].id = req[w].id
      /\ \A v \in Workers \ {w} : req'[v] = req[v]
  BY <1>1 DEF GetRentalById, TypeOK, Requests
<1> QED
  BY <1>1, <1>2 DEF GetRentalById, Goto, Answer, TypeOK, Active

\* A write that is issued or given up: an insert is of a request that creates,
\* every other write is of a rental that is stored.
LEMMA PendingWrite ==
  ASSUME Shape, NEW w \in Workers, AnswerInv(w), pc[w] \in Writes
  PROVE  /\ pc[w] = "InsertRental" => req[w].op = "create"
         /\ pc[w] # "InsertRental" => req[w].id \in Stored
BY DEF Shape, RequestShape, AnswerInv, StoredAsAsked, Completed, Writes, Creating, BeforeInsert,
       Completing

\* After the update of CompleteRental the rental is not active, whoever completed it.
LEMMA ExecuteComplete ==
  ASSUME TypeOK, NEW m \in Commands, m.cmd = "CompleteRental", Execute(m)
  PROVE  m.id \notin Active'
<1>1. CASE m.id \in Active
  <2>1. rentals' = [rentals EXCEPT ![m.id].status = "completed"]
    BY <1>1 DEF Execute
  <2>2. rentals[m.id] \in Rental /\ m.id \in RentalIds
    BY <1>1, StoredType
  <2>3. rentals'[m.id].status = "completed"
    BY <2>1, <2>2 DEF TypeOK, Rental
  <2> QED
    BY <2>3 DEF Active
<1>2. CASE m.id \notin Active
  BY <1>2 DEF Execute, Active, Stored
<1> QED
  BY <1>1, <1>2

\* ClientInv is inductive.
LEMMA ClientStep == Inv /\ ClientInv /\ [Next]_vars => ClientInv'
<1> SUFFICES ASSUME Inv, ClientInv, [Next]_vars PROVE ClientInv'
  OBVIOUS
<1>t. /\ Shape /\ TypeOK /\ TypeOK' /\ Permanent
      /\ Stored \subseteq Stored'
      /\ Stored \ Active \subseteq Stored' \ Active'
  BY ShapeStep, StepIsPermanent, PermanentKeeps DEF Inv, Shape
<1>1. ASSUME NEW w \in Workers, Receive(w) PROVE ClientInv'
  <2>1. /\ pc[w] = "ready"
        /\ \/ /\ pc'[w] = "UserExists" /\ answer'[w] = "none"
              /\ req'[w].op = "create" /\ req'[w].id \in FreshIds(w)
           \/ /\ pc'[w] = "ready" /\ answer'[w] = "VALIDATION_ERROR"
              /\ req'[w].op = "create" /\ req'[w].id = None
           \/ /\ pc'[w] = "GetRentalById" /\ answer'[w] = "none"
              /\ req'[w].op = "complete"
        /\ \A v \in Workers \ {w} : pc'[v] = pc[v] /\ req'[v] = req[v] /\ answer'[v] = answer[v]
        /\ UNCHANGED <<rentals, late>>
    BY <1>t, <1>1, ReceiveFacts
  <2>2. /\ Stored' = Stored /\ Active' = Active /\ LateIds' = LateIds
        /\ None \notin Stored \cup LateIds
    BY <1>t, <2>1, BookingAssumptions DEF TypeOK, Stored, Active, LateIds, Commands
  <2>3. AnswerInv(w)'
    BY <2>1, <2>2 DEF AnswerInv, FreshIds, Completed, BeforeInsert, Refusals, LateIds
  <2>4. ~Completed(w)'
    BY <2>1 DEF Completed
  <2> QED
    BY <1>t, <2>1, <2>2, <2>3, <2>4, WorkerStepClient DEF ClientInv, LateUpdatesStored
<1>2. ASSUME NEW w \in Workers,
             \/ UserExists(w) \/ GetCarById(w) \/ IsCarAvailable(w) \/ FindRental(w)
             \/ ReadFails(w)
      PROVE ClientInv'
  <2>1. /\ (pc[w] \in Reads /\ req[w].op = "create") \/ pc'[w] = "ready"
        /\ pc'[w] = "HideCar" => pc[w] = "FindRental"
        /\ pc'[w] \in BeforeInsert => pc[w] \in BeforeInsert
        /\ answer'[w] \in Refusals => pc[w] \in BeforeInsert \/ req[w].op = "complete"
        /\ pc'[w] \in BeforeInsert \cup {"HideCar", "ready"}
        /\ pc'[w] # "ready" => answer'[w] = "none"
        /\ answer'[w] # "OK"
        /\ \A v \in Workers \ {w} : pc'[v] = pc[v] /\ answer'[v] = answer[v]
        /\ UNCHANGED <<rentals, late, req>>
    BY <1>t, <1>2 DEF TypeOK, Shape, RequestShape, Creating, BeforeInsert, ClientInv, AnswerInv,
                      UserExists, GetCarById, IsCarAvailable, FindRental, ReadFails,
                      FailureAnswer, Goto, Answer, Reads, Refusals
  <2>2. Stored' = Stored /\ Active' = Active /\ LateIds' = LateIds
    BY <2>1 DEF Stored, Active, LateIds
  <2>3. AnswerInv(w)' /\ ~Completed(w)'
    BY <2>1, <2>2 DEF ClientInv, AnswerInv, Completed, StoredAsAsked, BeforeInsert, Refusals,
                      ToBson, ToDate
  <2> QED
    BY <1>t, <2>1, <2>2, <2>3, WorkerStepClient DEF ClientInv, LateUpdatesStored
<1>3. ASSUME NEW w \in Workers, GetRentalById(w) PROVE ClientInv'
  <2>1. /\ pc[w] = "GetRentalById" /\ req[w].op = "complete" /\ answer[w] = "none"
        /\ req'[w].op = "complete" /\ req'[w].id = req[w].id
        /\ \/ pc'[w] = "ready" /\ answer'[w] \in {"NOT_FOUND", "CONFLICT"}
           \/ pc'[w] = "CompleteRental" /\ answer'[w] = "none" /\ req[w].id \in Stored
        /\ \A v \in Workers \ {w} : pc'[v] = pc[v] /\ req'[v] = req[v] /\ answer'[v] = answer[v]
        /\ UNCHANGED <<rentals, late>>
    BY <1>t, <1>3, GetRentalByIdFacts DEF ClientInv, AnswerInv
  <2>2. Stored' = Stored /\ Active' = Active /\ LateIds' = LateIds
    BY <2>1 DEF Stored, Active, LateIds
  <2>3. AnswerInv(w)' /\ ~Completed(w)'
    BY <2>1, <2>2 DEF AnswerInv, Completed, BeforeInsert
  <2> QED
    BY <1>t, <2>1, <2>2, <2>3, WorkerStepClient DEF ClientInv, LateUpdatesStored
<1>4. ASSUME NEW w \in Workers, InsertRental(w) PROVE ClientInv'
  <2> DEFINE m == Command(w)
  <2>1. /\ m \in Commands /\ m.cmd = "InsertRental" /\ Execute(m)
        /\ m.id = req[w].id /\ m.doc = req[w].doc
        /\ req[w].op = "create" /\ req[w].doc \in Rental /\ req[w].doc.status = "active"
        /\ pc'[w] = "FindRental" /\ answer'[w] = "none"
        /\ \A v \in Workers \ {w} : pc'[v] = pc[v] /\ answer'[v] = answer[v]
        /\ UNCHANGED <<late, req>>
    BY <1>t, <1>4, CommandType
    DEF InsertRental, Goto, Command, Writes, ClientInv, AnswerInv, TypeOK, Shape, RequestShape,
        Creating, BeforeInsert
  <2> HIDE DEF m
  <2>2. Stored' = Stored \cup {req[w].id} /\ LateIds' = LateIds
    BY <1>t, <2>1, ExecuteInsert DEF LateIds
  <2>3. rentals'[req[w].id] = [ToBson(req[w].doc) EXCEPT !.status = "active"]
    <3>1. rentals'[req[w].id] = ToBson(req[w].doc)
      BY <1>t, <2>1, ExecuteInsert
    <3>2. ToBson(req[w].doc) \in Rental /\ ToBson(req[w].doc).status = "active"
      BY <2>1, ToBsonType DEF ToBson, Rental
    <3> QED
      BY <3>1, <3>2 DEF Rental
  <2>4. StoredAsAsked(w)'
    BY <2>1, <2>2, <2>3 DEF StoredAsAsked, ToBson, ToDate
  <2>5. AnswerInv(w)' /\ ~Completed(w)'
    BY <2>1, <2>4 DEF AnswerInv, Completed, BeforeInsert, Refusals
  <2>6. LateUpdatesStored'
    BY <2>1, <2>2 DEF ClientInv, LateUpdatesStored
  <2> QED
    BY <1>t, <2>1, <2>2, <2>5, <2>6, WorkerStepClient
<1>5. ASSUME NEW w \in Workers, HideCar(w) PROVE ClientInv'
  <2>1. /\ UNCHANGED <<rentals, late, req>>
        /\ pc[w] = "HideCar" /\ req[w].op = "create"
        /\ pc'[w] = "ready" /\ answer'[w] = "OK"
        /\ \A v \in Workers \ {w} : pc'[v] = pc[v] /\ answer'[v] = answer[v]
    BY <1>t, <1>5 DEF HideCar, Execute, Command, Answer, TypeOK, Shape, RequestShape,
                      Creating, BeforeInsert
  <2>2. Stored' = Stored /\ LateIds' = LateIds
    BY <2>1 DEF Stored, LateIds
  <2>3. StoredAsAsked(w)'
    BY <1>t, <2>1, AskedKept DEF ClientInv, AnswerInv
  <2>4. AnswerInv(w)' /\ ~Completed(w)'
    BY <2>1, <2>3 DEF AnswerInv, Completed, BeforeInsert, Refusals
  <2> QED
    BY <1>t, <2>1, <2>2, <2>4, WorkerStepClient DEF ClientInv, LateUpdatesStored
<1>6. ASSUME NEW w \in Workers, CompleteRental(w) PROVE ClientInv'
  <2> DEFINE m == Command(w)
  <2>1. /\ m \in Commands /\ m.cmd = "CompleteRental" /\ Execute(m) /\ m.id = req[w].id
        /\ req[w].op = "complete" /\ req[w].id \in Stored
        /\ IF req[w].id \in Active
           THEN pc'[w] = "ReleaseCar" /\ answer'[w] = "none"
           ELSE pc'[w] = "ready" /\ answer'[w] = "CONFLICT"
        /\ \A v \in Workers \ {w} : pc'[v] = pc[v] /\ answer'[v] = answer[v]
        /\ UNCHANGED <<late, req>>
    BY <1>t, <1>6, CommandType
    DEF CompleteRental, Goto, Answer, Command, Writes, ClientInv, AnswerInv, TypeOK, Shape,
        RequestShape, Completing
  <2> HIDE DEF m
  <2>2. Stored' = Stored /\ LateIds' = LateIds
    BY <1>t, <2>1, ExecuteUpdate DEF LateIds
  <2>3. req[w].id \notin Active'
    BY <1>t, <2>1, ExecuteComplete
  <2>4. AnswerInv(w)' /\ (Completed(w)' => req[w].id \in Active)
    BY <2>1, <2>2, <2>3 DEF AnswerInv, Completed, BeforeInsert
  <2> QED
    BY <1>t, <2>1, <2>2, <2>4, WorkerStepClient DEF ClientInv, LateUpdatesStored
<1>7. ASSUME NEW w \in Workers, ReleaseCar(w) PROVE ClientInv'
  <2>1. /\ UNCHANGED <<rentals, late>>
        /\ pc[w] = "ReleaseCar" /\ req[w].op = "complete"
        /\ req'[w].op = "complete" /\ req'[w].id = req[w].id
        /\ pc'[w] = "ready" /\ answer'[w] = "OK"
        /\ \A v \in Workers \ {w} : pc'[v] = pc[v] /\ req'[v] = req[v] /\ answer'[v] = answer[v]
    BY <1>t, <1>7 DEF ReleaseCar, Execute, Command, Answer, TypeOK, Requests, Shape, RequestShape,
                      Completing
  <2>2. Stored' = Stored /\ Active' = Active /\ LateIds' = LateIds
    BY <2>1 DEF Stored, Active, LateIds
  <2>3. AnswerInv(w)' /\ Completed(w)
    BY <2>1, <2>2 DEF ClientInv, AnswerInv, Completed, BeforeInsert
  <2> QED
    BY <1>t, <2>1, <2>2, <2>3, WorkerStepClient DEF ClientInv, LateUpdatesStored
<1>8. ASSUME NEW w \in Workers, WriteFails(w) PROVE ClientInv'
  <2>1. /\ pc[w] \in Writes /\ pc'[w] = "ready" /\ answer'[w] \in {"CONFLICT", "INTERNAL"}
        /\ \A v \in Workers \ {w} : pc'[v] = pc[v] /\ answer'[v] = answer[v]
        /\ late' = late \cup {Command(w)}
        /\ UNCHANGED <<rentals, req>>
    BY <1>t, <1>8 DEF WriteFails, FailureAnswer, Answer, TypeOK
  <2>2. Stored' = Stored /\ Active' = Active
    BY <2>1 DEF Stored, Active
  <2>3. /\ pc[w] = "InsertRental" => req[w].op = "create"
        /\ pc[w] # "InsertRental" => req[w].id \in Stored
    BY <1>t, <2>1, PendingWrite DEF ClientInv
  <2>4. LateIds' = LateIds \cup {req[w].id}
    <3>1. Command(w).id = req[w].id
      BY DEF Command
    <3>2. \A id : id \in LateIds' <=> id \in LateIds \/ id = req[w].id
      BY <2>1, <3>1 DEF LateIds
    <3> QED
      BY <3>2
  <2>5. LateUpdatesStored'
    BY <2>1, <2>2, <2>3 DEF ClientInv, LateUpdatesStored, Command
  <2>6. AnswerInv(w)' /\ ~Completed(w)'
    BY <2>1 DEF AnswerInv, Completed, BeforeInsert, Refusals
  <2> QED
    BY <1>t, <2>1, <2>2, <2>3, <2>4, <2>5, <2>6, WorkerStepClient
<1>9. ASSUME LateWrite PROVE ClientInv'
  <2> PICK m \in late : Execute(m) /\ late' = late \ {m} /\ UNCHANGED <<pc, req, answer, saw>>
    BY <1>9 DEF LateWrite
  <2>1. m \in Commands
    BY <1>t DEF TypeOK
  <2>2. Stored' \subseteq Stored \cup {m.id} /\ LateIds' \subseteq LateIds /\ m.id \in LateIds
    BY <1>t, <2>1, ExecuteInsert, ExecuteUpdate DEF LateIds
  <2>3. LateUpdatesStored'
    BY <1>t DEF ClientInv, LateUpdatesStored
  <2> QED
    BY <1>t, <2>2, <2>3, OtherStepClient
<1>10. ASSUME LostWrite PROVE ClientInv'
  <2>1. Stored' = Stored /\ LateIds' \subseteq LateIds /\ late' \subseteq late
    BY <1>10 DEF LostWrite, Stored, LateIds
  <2> QED
    BY <1>t, <1>10, <2>1, OtherStepClient DEF LostWrite, ClientInv, LateUpdatesStored
<1>11. ASSUME Crash PROVE ClientInv'
  <2>1. /\ \A w \in Workers : pc'[w] = "ready"
        /\ late' = late \cup {Command(w) : w \in {v \in Workers : pc[v] \in Writes}}
        /\ UNCHANGED <<rentals, req, answer>>
    BY <1>11 DEF Crash
  <2>2. Stored' = Stored
    BY <2>1 DEF Stored
  <2>3. \A w \in Workers : pc[w] \in Writes =>
            /\ pc[w] = "InsertRental" => req[w].op = "create"
            /\ pc[w] # "InsertRental" => req[w].id \in Stored
    BY <1>t, PendingWrite DEF ClientInv
  <2>4. \A id \in LateIds' : \/ id \in Stored \cup LateIds
                             \/ \E w \in Workers : /\ pc[w] = "InsertRental"
                                                   /\ req[w].op = "create" /\ id = req[w].id
    BY <2>1, <2>3 DEF LateIds, Command
  <2>5. LateUpdatesStored'
    BY <2>1, <2>2, <2>3 DEF ClientInv, LateUpdatesStored, Command
  <2> QED
    BY <1>t, <2>1, <2>2, <2>4, <2>5, OtherStepClient
<1>12. CASE UNCHANGED vars
  BY <1>t, <1>12, OtherStepClient DEF vars, Stored, LateIds, ClientInv, LateUpdatesStored
<1> QED
  BY <1>1, <1>2, <1>3, <1>4, <1>5, <1>6, <1>7, <1>8, <1>9, <1>10, <1>11, <1>12
  DEF Next, Step, CreateStep, CompleteStep, Failure

\* What a client was told stays true in every behaviour.
LEMMA ClientInvAlways == SafetySpec => [](Inv /\ ClientInv)
<1>1. Init => ClientInv
  BY BookingAssumptions DEF Init, ClientInv, AnswerInv, ApartInv, LateUpdatesStored, Completed,
                            BeforeInsert, Refusals
<1> QED
  BY <1>1, ClientStep, InvAlways, PTL DEF SafetySpec

\* A client that was refused can ask again: no rental of the refused request is
\* stored, and none can still arrive, whatever fails.
THEOREM RefusalsLeaveNothing == SafetySpec => []RefusedLeavesNothing
<1>1. ClientInv => RefusedLeavesNothing
  BY DEF ClientInv, AnswerInv, RefusedLeavesNothing, Refusals, LateIds
<1> QED
  BY <1>1, ClientInvAlways, PTL

\* A client that was told OK has its rental, with the dates it asked for, as the
\* database keeps them, and no other request or late write takes it away.
THEOREM OkMeansStored == SafetySpec => []OkIsStored
<1>1. ClientInv => OkIsStored
  BY DEF ClientInv, AnswerInv, StoredAsAsked, OkIsStored
<1> QED
  BY <1>1, ClientInvAlways, PTL

\* Of all the clients that ever complete a rental, among those not answered anew,
\* one is told OK.
THEOREM OneClientCompletes == SafetySpec => []CompletedForOneClient
<1>1. ClientInv => CompletedForOneClient
  BY DEF ClientInv, ApartInv, Completed, CompletedForOneClient
<1> QED
  BY <1>1, ClientInvAlways, PTL

-----------------------------------------------------------------------------
(* A hidden car is listed again only once a rental of it is completed.     *)

\* A request about to complete a rental knows its car; one about to release a car
\* has completed a rental of it; the car of a request answered OK was hidden.
WorkerListed(w) ==
    /\ pc[w] = "CompleteRental" => req[w].doc.car = rentals[req[w].id].car
    /\ pc[w] = "ReleaseCar" => CompletedSince(req[w].doc.car) # {}
    /\ req[w].op = "create" /\ answer[w] = "OK" =>
           /\ req[w].doc.car \in Cars
           /\ available[req[w].doc.car] => CompletedSince(req[w].doc.car) # {}

\* So does a release that outlived its request.
LateListed == \A m \in late : m.cmd = "ReleaseCar" => CompletedSince(m.doc.car) # {}

\* What was loaded is stored, and not active again once it was not.
LoadedStay ==
    /\ LoadedIds \subseteq Stored
    /\ \A id \in Active \cap LoadedIds : Loaded[id].status = "active"

ReleaseInv ==
    /\ \A w \in Workers : WorkerListed(w)
    /\ LateListed
    /\ LoadedStay

\* Only a release lists a car, and only the one it is for; hiding takes it off.
LEMMA ExecuteLists ==
  ASSUME TypeOK, NEW m \in Commands, Execute(m)
  PROVE  \A c \in Cars : available'[c] =>
             \/ m.cmd = "ReleaseCar" /\ m.doc.car = c
             \/ available[c] /\ ~(m.cmd = "HideCar" /\ m.doc.car = c)
BY DEF Execute, SetAvailable, TypeOK, Commands, Writes

\* A completed rental stays completed, and no rental changes its car.
LEMMA CompletedStays ==
  ASSUME TypeOK, TypeOK', Permanent
  PROVE  /\ \A car : CompletedSince(car) \subseteq CompletedSince(car)'
         /\ \A id \in Stored : rentals'[id].car = rentals[id].car
<1>1. ASSUME NEW id \in Stored PROVE id \in Stored' /\ rentals'[id].car = rentals[id].car
  <2>1. rentals[id] \in Rental
    BY StoredType
  <2> QED
    BY <2>1, PermanentKeeps DEF Permanent, Rental
<1>2. ASSUME NEW car, NEW id \in CompletedSince(car) PROVE id \in CompletedSince(car)'
  <2>1. id \in Stored /\ id \notin Active
    BY DEF CompletedSince, Active
  <2>2. rentals'[id] = rentals[id] /\ id \in Stored'
    BY <1>1, <2>1 DEF Permanent
  <2> QED
    BY <2>2 DEF CompletedSince
<1> QED
  BY <1>1, <1>2

\* What was loaded stays.
LEMMA LoadedStayStep ==
  ASSUME TypeOK, TypeOK', Permanent, LoadedStay
  PROVE  LoadedStay'
BY PermanentKeeps DEF LoadedStay, Active

\* A worker that does nothing, or is killed, while cars are listed by releases only.
LEMMA ListedKept ==
  ASSUME Shape, TypeOK', Permanent, NEW w \in Workers, AnswerInv(w), WorkerListed(w),
         pc'[w] \in {pc[w], "ready"}, req'[w] = req[w], answer'[w] = answer[w],
         \A c \in Cars : available'[c] => available[c] \/ CompletedSince(c)' # {}
  PROVE  WorkerListed(w)'
<1>1. \A car : CompletedSince(car) # {} => CompletedSince(car)' # {}
  BY CompletedStays DEF Shape
<1>2. pc[w] = "CompleteRental" => rentals'[req[w].id].car = rentals[req[w].id].car
  BY CompletedStays DEF Shape, AnswerInv
<1>3. pc'[w] = "CompleteRental" => req'[w].doc.car = rentals'[req'[w].id].car
  BY <1>2 DEF WorkerListed
<1>4. pc'[w] = "ReleaseCar" => CompletedSince(req[w].doc.car)' # {}
  BY <1>1 DEF WorkerListed
<1>5. req'[w].op = "create" /\ answer'[w] = "OK" =>
          /\ req'[w].doc.car \in Cars
          /\ available'[req[w].doc.car] => CompletedSince(req[w].doc.car)' # {}
  BY <1>1 DEF WorkerListed
<1> QED
  BY <1>3, <1>4, <1>5 DEF WorkerListed, CompletedSince

\* A rental about to be answered OK is stored, so it is of a car that exists.
LEMMA HideCarKnown ==
  ASSUME Shape, ClientInv, ReferencesExist, NEW w \in Workers, pc[w] = "HideCar"
  PROVE  req[w].doc.car \in Cars
<1>1. req[w].op = "create" /\ req[w].doc \in Rental /\ StoredAsAsked(w)
  BY DEF Shape, RequestShape, Creating, ClientInv, AnswerInv
<1>2. ToBson(req[w].doc) \in Rental /\ ToBson(req[w].doc).car = req[w].doc.car
  BY <1>1, ToBsonType DEF ToBson, Rental
<1>3. PICK status \in {"active", "completed"} :
        rentals[req[w].id] = [ToBson(req[w].doc) EXCEPT !.status = status]
  BY <1>1 DEF StoredAsAsked
<1>4. rentals[req[w].id].car = req[w].doc.car
  BY <1>2, <1>3 DEF Rental
<1> QED
  BY <1>1, <1>4 DEF StoredAsAsked, ReferencesExist

\* The update that completes a rental counts it for its car.
LEMMA CompletionCounts ==
  ASSUME TypeOK, LoadedStay, NEW m \in Commands, m.cmd = "CompleteRental", Execute(m),
         m.id \in Active
  PROVE  \A car : car = rentals[m.id].car => m.id \in CompletedSince(car)'
<1>1. rentals[m.id] \in Rental /\ m.id \in RentalIds
  BY StoredType DEF Active
<1>2. rentals'[m.id] = [rentals[m.id] EXCEPT !.status = "completed"]
  BY <1>1 DEF Execute, TypeOK
<1>3. /\ rentals'[m.id] \in Rental
      /\ rentals'[m.id].car = rentals[m.id].car /\ rentals'[m.id].status = "completed"
  BY <1>1, <1>2 DEF Rental
<1>4. rentals'[m.id] # None
  BY <1>3, BookingAssumptions
<1>5. rentals'[m.id] # Loaded[m.id]
  BY <1>1, <1>3, <1>4 DEF LoadedStay, LoadedIds
<1>6. m.id \in Stored'
  BY <1>1, <1>4 DEF Stored
<1> QED
  BY <1>3, <1>5, <1>6 DEF CompletedSince


\* ReleaseInv is inductive.
LEMMA ReleaseStep == Inv /\ ClientInv /\ RefInv /\ ReleaseInv /\ [Next]_vars => ReleaseInv'
<1> SUFFICES ASSUME Inv, ClientInv, RefInv, ReleaseInv, [Next]_vars PROVE ReleaseInv'
  OBVIOUS
<1>t. Shape /\ TypeOK /\ TypeOK' /\ Permanent /\ LoadedStay /\ LoadedStay'
  BY ShapeStep, StepIsPermanent, LoadedStayStep DEF Inv, Shape, ReleaseInv
<1>c. \A car : CompletedSince(car) # {} => CompletedSince(car)' # {}
  BY <1>t, CompletedStays
<1>l. ASSUME \A m \in late' : m.cmd = "ReleaseCar" =>
                 \/ m \in late
                 \/ \E w \in Workers : pc[w] = "ReleaseCar" /\ m.doc = req[w].doc
      PROVE  LateListed'
  <2> SUFFICES ASSUME NEW m \in late', m.cmd = "ReleaseCar"
               PROVE  CompletedSince(m.doc.car)' # {}
    BY DEF LateListed
  <2>1. CompletedSince(m.doc.car) # {}
    BY <1>l DEF ReleaseInv, LateListed, WorkerListed
  <2> QED
    BY <1>c, <2>1
<1>w. ASSUME NEW w \in Workers, WorkerListed(w)',
             \A v \in Workers \ {w} : pc'[v] = pc[v] /\ req'[v] = req[v] /\ answer'[v] = answer[v],
             \A c \in Cars : available'[c] => available[c] \/ CompletedSince(c)' # {}
      PROVE  \A v \in Workers : WorkerListed(v)'
  BY <1>t, <1>w, ListedKept DEF ClientInv, ReleaseInv
<1>1. ASSUME NEW w \in Workers, Receive(w) PROVE ReleaseInv'
  <2>1. /\ pc'[w] \notin {"CompleteRental", "ReleaseCar"} /\ answer'[w] # "OK"
        /\ \A v \in Workers \ {w} : pc'[v] = pc[v] /\ req'[v] = req[v] /\ answer'[v] = answer[v]
        /\ UNCHANGED <<available, late>>
    BY <1>t, <1>1, ReceiveFacts
  <2>2. WorkerListed(w)'
    BY <2>1 DEF WorkerListed
  <2> QED
    BY <1>t, <1>l, <1>w, <2>1, <2>2 DEF ReleaseInv
<1>2. ASSUME NEW w \in Workers,
             \/ UserExists(w) \/ GetCarById(w) \/ IsCarAvailable(w) \/ FindRental(w)
             \/ ReadFails(w)
      PROVE ReleaseInv'
  <2>1. /\ pc'[w] \notin {"CompleteRental", "ReleaseCar"} /\ answer'[w] # "OK"
        /\ \A v \in Workers \ {w} : pc'[v] = pc[v] /\ answer'[v] = answer[v]
        /\ UNCHANGED <<available, late, req>>
    BY <1>t, <1>2 DEF UserExists, GetCarById, IsCarAvailable, FindRental, ReadFails,
                      FailureAnswer, Goto, Answer, TypeOK, Reads, ClientInv, AnswerInv
  <2>2. WorkerListed(w)'
    BY <2>1 DEF WorkerListed
  <2> QED
    BY <1>t, <1>l, <1>w, <2>1, <2>2 DEF ReleaseInv
<1>3. ASSUME NEW w \in Workers, GetRentalById(w) PROVE ReleaseInv'
  <2>1. /\ pc'[w] \in {"ready", "CompleteRental"}
        /\ req'[w].op = "complete" /\ req'[w].id = req[w].id
        /\ \A v \in Workers \ {w} : pc'[v] = pc[v] /\ req'[v] = req[v] /\ answer'[v] = answer[v]
        /\ UNCHANGED <<rentals, late>>
    BY <1>t, <1>3, GetRentalByIdFacts
  <2>2. UNCHANGED available
    BY <1>3 DEF GetRentalById
  <2>3. pc'[w] = "CompleteRental" => req'[w].doc = rentals[req[w].id]
    BY <1>t, <1>3 DEF GetRentalById, Answer, TypeOK, Requests
  <2>4. WorkerListed(w)'
    BY <2>1, <2>3 DEF WorkerListed
  <2> QED
    BY <1>t, <1>l, <1>w, <2>1, <2>2, <2>4 DEF ReleaseInv
<1>4. ASSUME NEW w \in Workers, InsertRental(w) \/ HideCar(w) PROVE ReleaseInv'
  <2> DEFINE m == Command(w)
  <2>1. /\ m \in Commands /\ m.cmd \in {"InsertRental", "HideCar"} /\ Execute(m)
        /\ m.doc = req[w].doc
        /\ pc'[w] \in {"FindRental", "ready"}
        /\ answer'[w] = "OK" => m.cmd = "HideCar" /\ pc[w] = "HideCar"
        /\ \A v \in Workers \ {w} : pc'[v] = pc[v] /\ answer'[v] = answer[v]
        /\ UNCHANGED <<late, req>>
    BY <1>t, <1>4, CommandType
    DEF InsertRental, HideCar, Command, Goto, Answer, TypeOK, Writes, ClientInv, AnswerInv
  <2> HIDE DEF m
  <2>2. \A c \in Cars : available'[c] => available[c] /\ ~(m.cmd = "HideCar" /\ m.doc.car = c)
    BY <1>t, <2>1, ExecuteLists
  <2>3. answer'[w] = "OK" => req[w].doc.car \in Cars /\ ~available'[req[w].doc.car]
    BY <1>t, <2>1, <2>2, HideCarKnown DEF RefInv
  <2>4. WorkerListed(w)'
    BY <2>1, <2>3 DEF WorkerListed
  <2> QED
    BY <1>t, <1>l, <1>w, <2>1, <2>2, <2>4 DEF ReleaseInv
<1>5. ASSUME NEW w \in Workers, CompleteRental(w) PROVE ReleaseInv'
  <2> DEFINE m == Command(w)
  <2>1. /\ m \in Commands /\ m.cmd = "CompleteRental" /\ Execute(m) /\ m.id = req[w].id
        /\ pc[w] = "CompleteRental" /\ req[w].op = "complete"
        /\ pc'[w] # "CompleteRental"
        /\ pc'[w] = "ReleaseCar" => m.id \in Active
        /\ \A v \in Workers \ {w} : pc'[v] = pc[v] /\ answer'[v] = answer[v]
        /\ UNCHANGED <<late, req>>
    BY <1>t, <1>5, CommandType
    DEF CompleteRental, Goto, Answer, Command, Writes, TypeOK, Shape, RequestShape, Completing
  <2> HIDE DEF m
  <2>2. \A c \in Cars : available'[c] => available[c]
    BY <1>t, <2>1, ExecuteLists
  <2>3. req[w].doc.car = rentals[m.id].car
    BY <2>1 DEF ReleaseInv, WorkerListed
  <2>4. pc'[w] = "ReleaseCar" => CompletedSince(req[w].doc.car)' # {}
    <3>1. \A car : car = req[w].doc.car /\ pc'[w] = "ReleaseCar" => CompletedSince(car)' # {}
      BY <1>t, <2>1, <2>3, CompletionCounts
    <3> QED
      BY <2>1, <3>1
  <2>5. WorkerListed(w)'
    BY <2>1, <2>4 DEF WorkerListed
  <2> QED
    BY <1>t, <1>l, <1>w, <2>1, <2>2, <2>5 DEF ReleaseInv
<1>6. ASSUME NEW w \in Workers, ReleaseCar(w) PROVE ReleaseInv'
  <2> DEFINE m == Command(w)
  <2>1. /\ m \in Commands /\ m.cmd = "ReleaseCar" /\ Execute(m) /\ m.doc = req[w].doc
        /\ pc[w] = "ReleaseCar" /\ pc'[w] = "ready" /\ req'[w].op = "complete"
        /\ \A v \in Workers \ {w} : pc'[v] = pc[v] /\ req'[v] = req[v] /\ answer'[v] = answer[v]
        /\ UNCHANGED late
    BY <1>t, <1>6, CommandType
    DEF ReleaseCar, Command, Answer, TypeOK, Requests, Writes, Shape, RequestShape, Completing
  <2> HIDE DEF m
  <2>2. \A c \in Cars : available'[c] => available[c] \/ c = m.doc.car
    BY <1>t, <2>1, ExecuteLists
  <2>3. CompletedSince(m.doc.car) # {}
    BY <2>1 DEF ReleaseInv, WorkerListed
  <2>4. \A c \in Cars : available'[c] => available[c] \/ CompletedSince(c)' # {}
    BY <1>c, <2>2, <2>3
  <2>5. WorkerListed(w)'
    BY <2>1 DEF WorkerListed
  <2> QED
    BY <1>t, <1>l, <1>w, <2>1, <2>4, <2>5 DEF ReleaseInv
<1>7. ASSUME NEW w \in Workers, WriteFails(w) PROVE ReleaseInv'
  <2>1. /\ pc'[w] = "ready" /\ answer'[w] # "OK"
        /\ \A v \in Workers \ {w} : pc'[v] = pc[v] /\ answer'[v] = answer[v]
        /\ late' = late \cup {Command(w)}
        /\ Command(w).cmd = pc[w] /\ Command(w).doc = req[w].doc
        /\ UNCHANGED <<available, req>>
    BY <1>t, <1>7 DEF WriteFails, FailureAnswer, Answer, Command, TypeOK
  <2>2. WorkerListed(w)'
    BY <2>1 DEF WorkerListed
  <2>3. LateListed'
    BY <1>l, <2>1
  <2> QED
    BY <1>t, <1>w, <2>1, <2>2, <2>3 DEF ReleaseInv
<1>8. ASSUME LateWrite PROVE ReleaseInv'
  <2> PICK m \in late : Execute(m) /\ late' = late \ {m} /\ UNCHANGED <<pc, req, answer, saw>>
    BY <1>8 DEF LateWrite
  <2>1. m \in Commands
    BY <1>t DEF TypeOK
  <2>2. \A c \in Cars : available'[c] => available[c] \/ CompletedSince(c)' # {}
    <3>1. m.cmd = "ReleaseCar" => CompletedSince(m.doc.car)' # {}
      BY <1>c DEF ReleaseInv, LateListed
    <3> QED
      BY <1>t, <2>1, <3>1, ExecuteLists
  <2>3. \A v \in Workers : WorkerListed(v)'
    BY <1>t, <2>2, ListedKept DEF ClientInv, ReleaseInv
  <2> QED
    BY <1>t, <1>l, <2>3 DEF ReleaseInv
<1>9. ASSUME LostWrite \/ Crash \/ UNCHANGED vars PROVE ReleaseInv'
  <2>1. /\ \A w \in Workers : pc'[w] \in {pc[w], "ready"}
        /\ UNCHANGED <<available, req, answer>>
        /\ \A m \in late' : \/ m \in late
                            \/ \E w \in Workers : m = Command(w)
    BY <1>t, <1>9 DEF LostWrite, Crash, vars, TypeOK
  <2>2. \A w \in Workers : Command(w).cmd = pc[w] /\ Command(w).doc = req[w].doc
    BY DEF Command
  <2>3. \A v \in Workers : WorkerListed(v)'
    BY <1>t, <2>1, ListedKept DEF ClientInv, ReleaseInv
  <2>4. LateListed'
    BY <1>l, <2>1, <2>2
  <2> QED
    BY <1>t, <2>3, <2>4 DEF ReleaseInv
<1> QED
  BY <1>1, <1>2, <1>3, <1>4, <1>5, <1>6, <1>7, <1>8, <1>9
  DEF Next, Step, CreateStep, CompleteStep, Failure

\* Whatever fails, and in whatever order late writes land, the car of a rental that a
\* client was told OK for is listed as available only once a rental of it has been
\* completed; never, as deployed, since no handler completes one.
THEOREM CompletionListsCars == SafetySpec => []ListedOnlyByCompletion
<1>1. ASSUME Init PROVE ReleaseInv
  <2>1. \A w \in Workers : WorkerListed(w)
    BY <1>1 DEF Init, WorkerListed
  <2>2. LateListed /\ LoadedStay
    BY <1>1, InitialRentals DEF Init, LateListed, LoadedStay, Active
  <2> QED
    BY <2>1, <2>2 DEF ReleaseInv
<1>2. ReleaseInv => ListedOnlyByCompletion
  BY DEF ReleaseInv, WorkerListed, ListedOnlyByCompletion
<1> QED
  BY <1>1, <1>2, ReleaseStep, ClientInvAlways, RefInvAlways, PTL DEF SafetySpec

-----------------------------------------------------------------------------
(* Where nothing fails.                                                    *)

\* A rental stored since the start whose car is still listed is of a request about to
\* hide it; no request completes a rental.
ListedInv ==
    /\ late = {}
    /\ \A w \in Workers : pc[w] \notin Completing
    /\ \A id \in Stored \ LoadedIds :
           \/ ~available[rentals[id].car]
           \/ \E w \in Workers : pc[w] \in {"FindRental", "HideCar"} /\ req[w].id = id

\* A request that stored its rental knows it by the car that was asked for.
LEMMA CarAsAsked ==
  ASSUME Shape, NEW w \in Workers, StoredAsAsked(w), req[w].doc \in Rental
  PROVE  rentals[req[w].id].car = req[w].doc.car
<1>1. ToBson(req[w].doc) \in Rental /\ ToBson(req[w].doc).car = req[w].doc.car
  BY ToBsonType DEF ToBson, Rental
<1> QED
  BY <1>1 DEF StoredAsAsked, Rental

\* Where nothing fails and nothing is completed, a listed car has no rental but one
\* in the making or loaded at the start.
LEMMA ListedStep ==
  ASSUME ~Faulty, "complete" \notin Operations,
         Inv, ClientInv, ReferencesExist, ListedInv, [Next]_vars
  PROVE  ListedInv'
<1>t. Shape /\ TypeOK
  BY DEF Inv, Shape
<1>1. ASSUME NEW w \in Workers, ReceiveCreate(w) \/ RejectInvalid(w)
      PROVE  ListedInv'
  <2>1. /\ pc[w] = "ready" /\ pc'[w] \notin Completing
        /\ \A v \in Workers \ {w} : pc'[v] = pc[v] /\ req'[v] = req[v] /\ answer'[v] = answer[v]
        /\ UNCHANGED <<rentals, available, late>>
    BY <1>t, <1>1 DEF ReceiveCreate, RejectInvalid, Accept, Answer, TypeOK, Completing
  <2> QED
    BY <2>1 DEF ListedInv, Stored
<1>2. \A w \in Workers : ~ReceiveComplete(w) /\ ~CompleteStep(w)
  BY DEF ReceiveComplete, Accept, CompleteStep, GetRentalById, CompleteRental, ReleaseCar,
         ListedInv, Completing
<1>3. ASSUME NEW w \in Workers,
             UserExists(w) \/ GetCarById(w) \/ IsCarAvailable(w) \/ FindRental(w)
      PROVE  ListedInv'
  <2>1. pc[w] = "FindRental" => req[w].id \in Stored
    BY <1>t DEF Shape, RequestShape, Creating, ClientInv, AnswerInv, StoredAsAsked
  <2>2. /\ pc[w] = "FindRental" => pc'[w] = "HideCar"
        /\ pc[w] # "HideCar" /\ pc'[w] \notin Completing
        /\ \A v \in Workers \ {w} : pc'[v] = pc[v]
        /\ UNCHANGED <<rentals, available, late, req>>
    BY <1>t, <1>3, <2>1 DEF UserExists, GetCarById, IsCarAvailable, FindRental, Goto, Answer,
                            TypeOK, Completing
  <2> QED
    BY <2>2 DEF ListedInv, Stored
<1>4. ASSUME NEW w \in Workers, InsertRental(w) PROVE ListedInv'
  <2> DEFINE m == Command(w)
  <2>1. /\ m \in Commands /\ m.cmd = "InsertRental" /\ Execute(m) /\ m.id = req[w].id
        /\ pc[w] = "InsertRental" /\ pc'[w] = "FindRental"
        /\ \A v \in Workers \ {w} : pc'[v] = pc[v]
        /\ UNCHANGED <<late, req>>
    BY <1>t, <1>4, CommandType DEF InsertRental, Command, Goto, TypeOK, Writes
  <2> HIDE DEF m
  <2>2. /\ Stored' = Stored \cup {m.id} /\ UNCHANGED available
        /\ \A i \in Stored \ {m.id} : rentals'[i] = rentals[i]
    BY <1>t, <2>1, ExecuteInsert DEF Stored
  <2> QED
    BY <2>1, <2>2 DEF ListedInv, Completing
<1>5. ASSUME NEW w \in Workers, HideCar(w) PROVE ListedInv'
  <2> DEFINE m == Command(w)
  <2>1. /\ m \in Commands /\ m.cmd = "HideCar" /\ Execute(m) /\ m.doc = req[w].doc
        /\ pc[w] = "HideCar" /\ pc'[w] = "ready"
        /\ \A v \in Workers \ {w} : pc'[v] = pc[v]
        /\ UNCHANGED <<rentals, late, req>>
    BY <1>t, <1>5, CommandType DEF HideCar, Execute, Command, Answer, TypeOK, Writes
  <2> HIDE DEF m
  <2>2. /\ req[w].doc.car \in Cars
        /\ rentals[req[w].id].car = req[w].doc.car
    BY <1>t, <2>1, HideCarKnown, CarAsAsked DEF Shape, RequestShape, Creating, ClientInv, AnswerInv
  <2>3. /\ ~available'[rentals[req[w].id].car]
        /\ \A c \in Cars : ~available[c] => ~available'[c]
    BY <1>t, <2>1, <2>2, ExecuteLists
  <2>4. Stored' = Stored
    BY <2>1 DEF Stored
  <2> QED
    BY <2>1, <2>3, <2>4 DEF ListedInv, ReferencesExist, Completing
<1>6. ~Failure
  BY DEF ListedInv, Failure, ReadFails, WriteFails, LateWrite, LostWrite, Crash
<1>7. CASE UNCHANGED vars
  BY <1>7 DEF vars, ListedInv, Stored
<1> QED
  BY <1>1, <1>2, <1>3, <1>4, <1>5, <1>6, <1>7 DEF Next, Receive, Step, CreateStep

\* So it is in every behaviour where nothing fails.
LEMMA ListedInvAlways ==
  ASSUME ~Faulty, "complete" \notin Operations
  PROVE  SafetySpec => []ListedInv
<1>1. Init => ListedInv
  BY InitialRentals DEF Init, ListedInv, Completing
<1>2. Inv /\ ClientInv /\ RefInv /\ ListedInv /\ [Next]_vars => ListedInv'
  BY ListedStep DEF RefInv
<1> QED
  BY <1>1, <1>2, ClientInvAlways, RefInvAlways, PTL DEF SafetySpec

\* As deployed and while nothing fails, on whatever rentals the server starts: once
\* every request is answered, no car that a client has rented is listed as available.
\* (The cars of the start-up script's own active rentals are, until a client rents them.)
THEOREM DeployedListIsTrue ==
  ASSUME ~Faulty, "complete" \notin Operations
  PROVE  SafetySpec => []AvailableHasNoActiveRental
<1>1. ListedInv => AvailableHasNoActiveRental
  BY DEF ListedInv, AvailableHasNoActiveRental, Active
<1> QED
  BY <1>1, ListedInvAlways, PTL

\* No creation is answered CONFLICT, and no write is left behind.
NoConflict ==
    /\ late = {}
    /\ \A w \in Workers : req[w].op = "create" => answer[w] # "CONFLICT"

\* Where nothing fails, a rental that was inserted is found.
LEMMA NoConflictStep ==
  ASSUME ~Faulty, Shape, ClientInv, NoConflict, [Next]_vars
  PROVE  NoConflict'
<1>t. TypeOK
  BY DEF Shape
<1>1. ASSUME NEW w \in Workers, Receive(w) PROVE NoConflict'
  BY <1>t, <1>1, ReceiveFacts DEF NoConflict
<1>2. ASSUME NEW w \in Workers, CreateStep(w) PROVE NoConflict'
  <2>1. pc[w] = "FindRental" => req[w].id \in Stored
    BY <1>t DEF Shape, RequestShape, Creating, ClientInv, AnswerInv, StoredAsAsked
  <2>2. UNCHANGED req /\ UNCHANGED late
    BY <1>2 DEF CreateStep, UserExists, GetCarById, IsCarAvailable, InsertRental, FindRental,
                HideCar
  <2>3. \A v \in Workers : answer'[v] = "CONFLICT" => answer[v] = "CONFLICT"
    BY <1>t, <1>2, <2>1 DEF CreateStep, UserExists, GetCarById, IsCarAvailable, InsertRental,
                            FindRental, HideCar, Goto, Answer, TypeOK
  <2> QED
    BY <2>2, <2>3 DEF NoConflict
<1>3. ASSUME NEW w \in Workers, CompleteStep(w) PROVE NoConflict'
  <2>1. req[w].op = "complete" /\ UNCHANGED late
    BY <1>t, <1>3 DEF CompleteStep, GetRentalById, CompleteRental, ReleaseCar, Shape,
                      RequestShape, Completing
  <2>2. req'[w].op = "complete"
    BY <1>t, <1>3, <2>1 DEF CompleteStep, GetRentalById, CompleteRental, ReleaseCar, TypeOK,
                            Requests
  <2>3. \A v \in Workers \ {w} : req'[v] = req[v] /\ answer'[v] = answer[v]
    BY <1>t, <1>3 DEF CompleteStep, GetRentalById, CompleteRental, ReleaseCar, Goto, Answer,
                      TypeOK
  <2> QED
    BY <2>1, <2>2, <2>3 DEF NoConflict
<1>4. ~Failure
  BY DEF NoConflict, Failure, ReadFails, WriteFails, LateWrite, LostWrite, Crash
<1>5. CASE UNCHANGED vars
  BY <1>5 DEF vars, NoConflict
<1> QED
  BY <1>1, <1>2, <1>3, <1>4, <1>5 DEF Next, Step

\* "Failed to create rental" is true while nothing fails, because it is never said
\* then: the document is always found again.  Only a failure after the insert can
\* make CreateRental answer CONFLICT for a rental that is stored.
THEOREM ConflictNeedsFailure ==
  ASSUME ~Faulty
  PROVE  SafetySpec => []ConflictMeansNotCreated
<1>1. Init => NoConflict
  BY DEF Init, NoConflict
<1>2. Shape /\ ClientInv /\ NoConflict /\ [Next]_vars => NoConflict'
  BY NoConflictStep
<1>3. NoConflict => ConflictMeansNotCreated
  BY DEF NoConflict, ConflictMeansNotCreated
<1> QED
  BY <1>1, <1>2, <1>3, ClientInvAlways, RefInvAlways, PTL DEF SafetySpec

-----------------------------------------------------------------------------
(* One request at a time.                                                  *)

OneAtATime == ~Faulty /\ \A v, w \in Workers : v = w

\* Nothing is stored between a request's query and its insert, so of two stored
\* rentals one request saw the other's.
OneInv ==
    /\ late = {}
    /\ \A w \in Workers : pc[w] = "InsertRental" => saw[req[w].id] = Stored
    /\ \A i, j \in Stored : i # j => i \in saw[j] \/ j \in saw[i]

\* Where requests come one at a time, every step keeps this.
LEMMA OneStep ==
  ASSUME OneAtATime, Inv, OneInv, [Next]_vars
  PROVE  OneInv'
<1>t. TypeOK
  BY DEF Inv, Shape
<1>1. ASSUME NEW w \in Workers,
             \/ Receive(w) \/ UserExists(w) \/ GetCarById(w) \/ FindRental(w)
             \/ GetRentalById(w)
      PROVE OneInv'
  <2>1. /\ UNCHANGED <<rentals, late, saw>>
        /\ pc'[w] # "InsertRental"
    BY <1>t, <1>1 DEF TypeOK, Receive, ReceiveCreate, RejectInvalid, ReceiveComplete, Accept,
                      UserExists, GetCarById, FindRental, GetRentalById, Goto, Answer
  <2> QED
    BY <2>1 DEF OneAtATime, OneInv, Stored
<1>2. ASSUME NEW w \in Workers, IsCarAvailable(w) PROVE OneInv'
  <2>1. /\ UNCHANGED <<rentals, late, req>>
        /\ req[w].id \in RentalIds \ Stored
        /\ saw' = [saw EXCEPT ![req[w].id] = Stored]
    BY <1>2 DEF IsCarAvailable, Inv, Shape, RequestShape, WorkerInv, Creating, BeforeInsert
  <2>2. /\ saw'[req[w].id] = Stored
        /\ \A i \in Stored : saw'[i] = saw[i]
        /\ Stored' = Stored
    BY <1>t, <2>1 DEF TypeOK, Stored
  <2> QED
    BY <2>1, <2>2 DEF OneAtATime, OneInv
<1>3. ASSUME NEW w \in Workers, InsertRental(w) PROVE OneInv'
  <2> DEFINE m == Command(w)
  <2>1. /\ m \in Commands /\ m.cmd = "InsertRental" /\ Execute(m)
        /\ m.id = req[w].id /\ pc[w] = "InsertRental"
        /\ UNCHANGED <<late, req, saw>>
        /\ pc'[w] = "FindRental"
    BY <1>t, <1>3, CommandType DEF TypeOK, InsertRental, Goto, Command, Inv, Writes
  <2> HIDE DEF m
  <2>2. Stored' = Stored \cup {req[w].id} /\ saw[req[w].id] = Stored
    BY <1>t, <2>1, ExecuteInsert DEF OneInv
  <2>3. \A i, j \in Stored' : i # j => i \in saw[j] \/ j \in saw[i]
    BY <2>2 DEF OneInv
  <2> QED
    BY <2>1, <2>3 DEF OneAtATime, OneInv
<1>4. ASSUME NEW w \in Workers, HideCar(w) \/ CompleteRental(w) \/ ReleaseCar(w)
      PROVE OneInv'
  <2> DEFINE m == Command(w)
  <2>1. /\ m \in Commands /\ m.cmd # "InsertRental" /\ Execute(m)
        /\ UNCHANGED <<late, saw>>
        /\ pc'[w] # "InsertRental"
    BY <1>t, <1>4, CommandType
    DEF TypeOK, HideCar, CompleteRental, ReleaseCar, Goto, Answer, Command, Inv, Writes
  <2> HIDE DEF m
  <2>2. Stored' = Stored
    BY <1>t, <2>1, ExecuteUpdate
  <2> QED
    BY <2>1, <2>2 DEF OneAtATime, OneInv
<1>5. ~Failure
  BY DEF OneAtATime, OneInv, Failure, ReadFails, WriteFails, LateWrite, LostWrite, Crash
<1>6. CASE UNCHANGED vars
  BY <1>6 DEF vars, OneInv, Stored
<1> QED
  BY <1>1, <1>2, <1>3, <1>4, <1>5, <1>6 DEF Next, Step, CreateStep, CompleteStep

\* So it is in every behaviour in which requests come one at a time.
LEMMA OneInvAlways ==
  ASSUME OneAtATime
  PROVE  SafetySpec => [](Inv /\ OneInv /\ RefInv)
<1>1. Init => OneInv
  BY InitialRentals DEF Init, OneInv
<1>2. Inv /\ OneInv /\ [Next]_vars => OneInv'
  BY OneStep
<1> QED
  BY <1>1, <1>2, InvAlways, RefInvAlways, PTL DEF SafetySpec

\* A server that handles one request at a time and whose commands do not fail
\* never books a car twice.
THEOREM NoDoubleBookingOneAtATime ==
  ASSUME OneAtATime
  PROVE  SafetySpec => []NoDoubleBooking
<1>1. Inv /\ OneInv => NoDoubleBooking
  BY DEF Inv, RaceInv, OneInv, NoDoubleBooking, Overlap, Active
<1> QED
  BY <1>1, OneInvAlways, PTL

\* To those who read the collection, such a server books a rental in one atomic
\* step, and only for a period in which the car is free.
THEOREM OneAtATimeImplementsLedger ==
  ASSUME OneAtATime
  PROVE  SafetySpec => ImplementsLedger
<1> USE DEF Ledger!Stored, Ledger!Active, Ledger!Overlap
<1>1. Init => Ledger!Init
  BY DEF Init, Ledger!Init
<1>2. Inv /\ OneInv /\ RefInv /\ [Next]_vars => [Ledger!Next]_rentals
  <2> SUFFICES ASSUME Inv, OneInv, RefInv, [Next]_vars
               PROVE  Ledger!Next \/ UNCHANGED rentals
    OBVIOUS
  <2>t. TypeOK
    BY DEF Inv, Shape
  <2>1. ASSUME NEW w \in Workers, InsertRental(w) PROVE Ledger!Next
    <3> DEFINE id == req[w].id
               doc == ToBson(req[w].doc)
    <3>1. /\ pc[w] = "InsertRental"
          /\ id \in RentalIds /\ req[w].doc \in Rental /\ id \notin Stored
          /\ req[w].doc.status = "active"
          /\ req[w].doc.start \in Instants /\ req[w].doc.end \in Instants
          /\ req[w].doc.user \in Users /\ req[w].doc.car \in Cars
          /\ saw[id] = Stored /\ Checked(id, req[w].doc)
      BY <2>1 DEF InsertRental, Inv, Shape, RequestShape, WorkerInv, OneInv, RefInv,
                  Creating, BeforeInsert
    <3>2. rentals' = [rentals EXCEPT ![id] = doc]
      BY <2>1, <3>1 DEF InsertRental, Execute, Command
    <3>3. doc \in Ledger!Rental /\ doc.status = "active"
      BY <3>1 DEF ToBson, Rental, Ledger!Rental, Ledger!Statuses, Dates
    <3>4. \A other \in Active : ~Overlap(rentals[other], doc)
      BY <3>1 DEF Checked, Active
    <3>5. rentals[id] = None
      BY <3>1 DEF Stored
    <3> HIDE DEF id, doc
    <3>6. Ledger!Book(id, doc)
      BY <3>2, <3>3, <3>4, <3>5 DEF Ledger!Book, Active, Stored, Overlap
    <3> QED
      BY <3>1, <3>3, <3>6 DEF Ledger!Next
  <2>2. ASSUME NEW w \in Workers, CompleteRental(w) PROVE Ledger!Next \/ UNCHANGED rentals
    <3>1. req[w].id \in RentalIds
      BY <2>2 DEF CompleteRental, Inv, Shape, RequestShape, Completing
    <3>2. rentals' = IF req[w].id \in Active
                     THEN [rentals EXCEPT ![req[w].id].status = "completed"]
                     ELSE rentals
      BY <2>2 DEF CompleteRental, Execute, Command
    <3> QED
      BY <3>1, <3>2 DEF Ledger!Next, Ledger!Complete, Active, Stored
  <2>3. ASSUME NEW w \in Workers,
               \/ Receive(w) \/ UserExists(w) \/ GetCarById(w) \/ IsCarAvailable(w)
               \/ FindRental(w) \/ HideCar(w) \/ GetRentalById(w) \/ ReleaseCar(w)
        PROVE UNCHANGED rentals
    BY <2>3 DEF Receive, ReceiveCreate, RejectInvalid, ReceiveComplete, Accept, UserExists,
                GetCarById, IsCarAvailable, FindRental, HideCar, GetRentalById, ReleaseCar,
                Execute, Command
  <2>4. ~Failure
    BY DEF OneAtATime, OneInv, Failure, ReadFails, WriteFails, LateWrite, LostWrite, Crash
  <2> QED
    BY <2>1, <2>2, <2>3, <2>4 DEF Next, Step, CreateStep, CompleteStep, vars
<1> QED
  BY <1>1, <1>2, OneInvAlways, PTL DEF SafetySpec, ImplementsLedger, Ledger!Spec
=============================================================================
