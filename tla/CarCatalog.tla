----------------------------- MODULE CarCatalog -----------------------------
(***************************************************************************)
(* CarService on the cars collection: CreateCar, run by concurrent         *)
(* workers, and GetCars, called page by page by a client that scans a      *)
(* listing, while rentals hide cars and release them.                      *)
(*                                                                         *)
(* As in RentalBooking a handler is a sequence of Mongo commands, each of  *)
(* them atomic, and a write that failed or was interrupted may land later. *)
(* Two unique indexes guard the collection (init-mongo.js:218-219).        *)
(***************************************************************************)
EXTENDS Integers, FiniteSets

CONSTANTS Workers,
          CarIds,      \* BOUND: the cars that can ever be requested
          Vins, Plates,
          Offers,      \* BOUND: the VIN and plate of the cars clients create
          Classes,
          Stamps,      \* BOUND: milliseconds system_clock shows; it may be set back
          Seed,        \* the cars of the test data: a function of some of CarIds
          DefaultLimit, MaxLimit, \* cars per page: kDefaultLimit, kMaxLimit
          RawLimits, RawOffsets, \* BOUND: the parameters of a call, None where there is none
          Garbled,     \* a parameter that std::stoi refuses
          Listings,    \* BOUND: what clients list: classes, "available", or no class at all
          MaxHides,    \* BOUND: cars hidden while a client scans a listing
          Faulty,      \* whether commands may fail and the process may die
          None

VARIABLES cars,        \* the cars collection: _id |-> document or None
          late,        \* inserts that outlived their caller
          pc, req, answer,
          scan         \* the listing a client scans, and what it has seen of it

vars == <<cars, late, pc, req, answer, scan>>

Car == [vin: Vins, plate: Plates, class: Classes, available: BOOLEAN, created: Stamps]

\* What nobody changes of a car: all but whether it is available.
Identity(car) == [vin |-> car.vin, plate |-> car.plate, class |-> car.class,
                  created |-> car.created]

Identities == [vin: Vins, plate: Plates, class: Classes, created: Stamps]

Filters == Classes \cup {"available"}

Requests == [id: CarIds \cup {None}, doc: Car \cup {None}]

Scan == [at: {"idle", "find", "count", "answered", "ended", "refused"},
         filter: Filters, limit: 1 .. MaxLimit, offset: Nat, page: SUBSET CarIds, total: Nat,
         listed: SUBSET CarIds, \* history: the cars listed when the scan began,
         seen: SUBSET CarIds,   \* the cars on the pages so far,
         hides: Nat]            \* and how often a car was hidden since

SameKey(a, b) == a.vin = b.vin \/ a.plate = b.plate

ASSUME CatalogAssumptions ==
    /\ IsFiniteSet(CarIds)
    /\ None \notin CarIds /\ None \notin Car /\ None \notin Identities
    /\ Offers \subseteq Vins \X Plates
    /\ "available" \notin Classes
    /\ Stamps \subseteq Nat
    /\ MaxLimit \in Nat /\ DefaultLimit \in 1 .. MaxLimit /\ MaxHides \in Nat
    /\ RawLimits \cup RawOffsets \subseteq Int \cup {None, Garbled}
    /\ None \notin Int /\ Garbled \notin Int
    /\ Faulty \in BOOLEAN
    /\ DOMAIN Seed \subseteq CarIds
    /\ \A id \in DOMAIN Seed : Seed[id] \in Car
    /\ \A i, j \in DOMAIN Seed : i # j => ~SameKey(Seed[i], Seed[j])

-----------------------------------------------------------------------------
(* The collection.                                                         *)

Stored == {id \in CarIds : cars[id] # None}

\* The cars whose VIN or license plate keeps the unique indexes from taking doc.
Duplicates(doc) == {id \in Stored : SameKey(cars[id], doc)}

\* Mutant: the insert is an upsert by VIN.
InsertReplacing(id, doc) ==
    cars' = IF Duplicates(doc) = {} THEN [cars EXCEPT ![id] = doc]
            ELSE [i \in CarIds |-> IF i \in Stored /\ cars[i].vin = doc.vin THEN doc ELSE cars[i]]

Insert(id, doc) ==
    cars' = IF Duplicates(doc) = {} THEN [cars EXCEPT ![id] = doc] ELSE cars

Matching(filter) ==
    {id \in Stored : IF filter = "available" THEN cars[id].available
                                             ELSE cars[id].class = filter}

\* The n first cars of S, newest first: sort is by created_at alone, so equal
\* times leave the order of two cars open, anew in every query.
Smaller(m, n) == IF m <= n THEN m ELSE n

Newest(S, n) ==
    {T \in SUBSET S : /\ Cardinality(T) = Smaller(n, Cardinality(S))
                      /\ \A t \in T, s \in S \ T : cars[t].created >= cars[s].created}

\* Mutant: the sort option is not set.
UnsortedPages(filter, limit, offset) ==
    LET n == Cardinality(Matching(filter)) IN
    {P \in SUBSET Matching(filter) :
        Cardinality(P) = IF n <= offset THEN 0 ELSE Smaller(limit, n - offset)}

Pages(filter, limit, offset) ==
    UNION {Newest(Matching(filter) \ skipped, limit) :
               skipped \in Newest(Matching(filter), offset)}

-----------------------------------------------------------------------------
(* CreateCar.                                                              *)

Goto(w, command) ==
    /\ pc' = [pc EXCEPT ![w] = command]
    /\ UNCHANGED answer

Answer(w, code) ==
    /\ pc' = [pc EXCEPT ![w] = "ready"]
    /\ answer' = [answer EXCEPT ![w] = code]

\* Ids no document, late insert or other request uses: the driver draws ObjectIds.
FreshIds(w) ==
    {id \in CarIds \ Stored : /\ \A m \in late : m.id # id
                              /\ \A v \in Workers \ {w} : req[v].id # id}

ReceiveCreateCar(w) ==
    /\ pc[w] = "ready"
    /\ \E id \in FreshIds(w), offer \in Offers, class \in Classes, created \in Stamps :
           req' = [req EXCEPT ![w] =
                      [id |-> id,
                       doc |-> [vin |-> offer[1], plate |-> offer[2], class |-> class,
                                available |-> TRUE, created |-> created]]]
    /\ pc' = [pc EXCEPT ![w] = "InsertCar"]
    /\ answer' = [answer EXCEPT ![w] = "none"]
    /\ UNCHANGED <<cars, late, scan>>

\* Mutant: the result of the validation is not looked at.
RejectInvalidCarIgnored(w) ==
    /\ pc[w] = "ready"
    /\ Goto(w, "InsertCar")
    /\ req' = [req EXCEPT ![w] = [id |-> None, doc |-> None]]
    /\ UNCHANGED <<cars, late, scan>>

\* domain::Car::Create finds a field outside its bounds.
RejectInvalidCar(w) ==
    /\ pc[w] = "ready"
    /\ Answer(w, "VALIDATION_ERROR")
    /\ req' = [req EXCEPT ![w] = [id |-> None, doc |-> None]]
    /\ UNCHANGED <<cars, late, scan>>

\* Mutant: a car that exists already is as good as created.
InsertCarOrExisting(w) ==
    /\ pc[w] = "InsertCar"
    /\ IF Duplicates(req[w].doc) = {} THEN Goto(w, "FindCar") ELSE Answer(w, "OK")
    /\ Insert(req[w].id, req[w].doc)
    /\ UNCHANGED <<late, req, scan>>

\* A duplicate key raises an exception, which ends in nullopt like any other.
InsertCar(w) ==
    /\ pc[w] = "InsertCar"
    /\ IF Duplicates(req[w].doc) = {} THEN Goto(w, "FindCar") ELSE Answer(w, "CONFLICT")
    /\ Insert(req[w].id, req[w].doc)
    /\ UNCHANGED <<late, req, scan>>

FindCar(w) ==
    /\ pc[w] = "FindCar"
    /\ Answer(w, IF req[w].id \in Stored THEN "OK" ELSE "CONFLICT")
    /\ UNCHANGED <<cars, late, req, scan>>

\* Mutant: an insert that failed is taken for one that succeeded.
CommandFailsUnnoticed(w) ==
    /\ Faulty /\ pc[w] # "ready"
    /\ late' = IF pc[w] = "InsertCar" THEN late \cup {req[w]} ELSE late
    /\ Answer(w, "OK")
    /\ UNCHANGED <<cars, req, scan>>

CommandFails(w) ==
    /\ Faulty /\ pc[w] # "ready"
    /\ late' = IF pc[w] = "InsertCar" THEN late \cup {req[w]} ELSE late
    /\ Answer(w, "CONFLICT")
    /\ UNCHANGED <<cars, req, scan>>

LateInsert == \E m \in late :
    /\ Insert(m.id, m.doc)
    /\ late' = late \ {m}
    /\ UNCHANGED <<pc, req, answer, scan>>

LostInsert == \E m \in late :
    /\ late' = late \ {m}
    /\ UNCHANGED <<cars, pc, req, answer, scan>>

\* The client of a listing that was not answered asks for the same page again.
RepeatCall ==
    IF scan.at = "count" THEN [scan EXCEPT !.at = "find", !.page = {}] ELSE scan

\* The process is killed and started again.
Crash ==
    /\ Faulty
    /\ pc' = [w \in Workers |-> "ready"]
    /\ late' = late \cup {req[w] : w \in {v \in Workers : pc[v] = "InsertCar"}}
    /\ scan' = RepeatCall
    /\ UNCHANGED <<cars, req, answer>>

-----------------------------------------------------------------------------
(* GetCars: a client asks for page after page until one is not full.       *)

\* The value of a query parameter; no value if it is refused.
ParseQueryInt(raw, default, min, max) ==
    IF raw = None THEN {default} ELSE IF raw = Garbled THEN {} ELSE {raw} \cap min .. max

NewScan(at, filter, limit) ==
    [at |-> at, filter |-> filter, limit |-> limit, offset |-> 0, page |-> {}, total |-> 0,
     listed |-> Matching(filter), seen |-> {}, hides |-> 0]

MaxInt == 2147483647

\* A client that scans a listing begins at offset 0, given or not.
StartScan(filter, rawLimit, rawOffset) ==
    /\ scan.at \in {"idle", "ended", "refused"}
    /\ filter \in Filters
    /\ 0 \in ParseQueryInt(rawOffset, 0, 0, MaxInt)
    /\ \E limit \in ParseQueryInt(rawLimit, DefaultLimit, 1, MaxLimit) :
           scan' = NewScan("find", filter, limit)
    /\ UNCHANGED <<cars, late, pc, req, answer>>

\* The class is none that CarClassFromString knows, or a parameter is refused.
RefuseScan(filter, rawLimit, rawOffset) ==
    /\ scan.at \in {"idle", "ended", "refused"}
    /\ \/ filter \notin Filters
       \/ ParseQueryInt(rawLimit, DefaultLimit, 1, MaxLimit) = {}
       \/ ParseQueryInt(rawOffset, 0, 0, MaxInt) = {}
    /\ scan' = [NewScan("refused", "available", DefaultLimit) EXCEPT !.listed = {}]
    /\ UNCHANGED <<cars, late, pc, req, answer>>

FindCars ==
    /\ scan.at = "find"
    /\ \E page \in Pages(scan.filter, scan.limit, scan.offset) :
           scan' = [scan EXCEPT !.at = "count", !.page = page]
    /\ UNCHANGED <<cars, late, pc, req, answer>>

\* Mutant: the cars of the page are counted.
CountPage ==
    /\ scan.at = "count"
    /\ scan' = [scan EXCEPT !.at = "answered", !.total = Cardinality(scan.page),
                            !.seen = @ \cup scan.page]
    /\ UNCHANGED <<cars, late, pc, req, answer>>

CountCars ==
    /\ scan.at = "count"
    /\ scan' = [scan EXCEPT !.at = "answered", !.total = Cardinality(Matching(scan.filter)),
                            !.seen = @ \cup scan.page]
    /\ UNCHANGED <<cars, late, pc, req, answer>>

NextPage ==
    /\ scan.at = "answered"
    /\ scan' = IF Cardinality(scan.page) = scan.limit
               THEN [scan EXCEPT !.at = "find", !.offset = @ + scan.limit, !.page = {}, !.total = 0]
               ELSE [scan EXCEPT !.at = "ended", !.offset = 0, !.page = {}, !.total = 0]
    /\ UNCHANGED <<cars, late, pc, req, answer>>

\* An exception of the driver leaves GetCars; the client repeats its call.
ListingFails ==
    /\ Faulty
    /\ scan.at = "count"
    /\ scan' = RepeatCall
    /\ UNCHANGED <<cars, late, pc, req, answer>>

\* RentalService hides the car of a new rental and releases that of a completed one.
UpdateCarAvailability(id, available) ==
    /\ id \in Stored /\ cars[id].available # available
    /\ ~available => scan.hides < MaxHides
    /\ cars' = [cars EXCEPT ![id].available = available]
    /\ scan' = [scan EXCEPT !.hides = IF available THEN @ ELSE @ + 1]
    /\ UNCHANGED <<late, pc, req, answer>>

-----------------------------------------------------------------------------

Init ==
    /\ cars = [id \in CarIds |-> IF id \in DOMAIN Seed THEN Seed[id] ELSE None]
    /\ late = {}
    /\ pc = [w \in Workers |-> "ready"]
    /\ req = [w \in Workers |-> [id |-> None, doc |-> None]]
    /\ answer = [w \in Workers |-> "none"]
    /\ scan = NewScan("idle", "available", DefaultLimit)

Create(w) == ReceiveCreateCar(w) \/ RejectInvalidCar(w) \/ InsertCar(w) \/ FindCar(w)

List == \/ \E filter \in Listings, rawLimit \in RawLimits, rawOffset \in RawOffsets :
               \/ StartScan(filter, rawLimit, rawOffset)
               \/ RefuseScan(filter, rawLimit, rawOffset)
        \/ FindCars \/ CountCars \/ NextPage

Failure == \/ \E w \in Workers : CommandFails(w)
           \/ LateInsert \/ LostInsert \/ Crash \/ ListingFails

Next == \/ \E w \in Workers : Create(w)
        \/ List
        \/ \E id \in CarIds, available \in BOOLEAN : UpdateCarAvailability(id, available)
        \/ Failure

Spec == Init /\ [][Next]_vars

-----------------------------------------------------------------------------
(* Properties.                                                             *)

TypeOK ==
    /\ cars \in [CarIds -> Car \cup {None}]
    /\ late \subseteq [id: CarIds, doc: Car]
    /\ pc \in [Workers -> {"ready", "InsertCar", "FindCar"}]
    /\ req \in [Workers -> Requests]
    /\ \A w \in Workers : pc[w] # "ready" => req[w] \in [id: CarIds, doc: Car]
    /\ answer \in [Workers -> {"none", "OK", "VALIDATION_ERROR", "CONFLICT"}]
    /\ scan \in Scan

\* A car answered with 201 is in the catalogue as its client described it,
\* whatever other clients create and however late their inserts land.
OkIsCatalogued ==
    \A w \in Workers : answer[w] = "OK" =>
        /\ req[w].id \in Stored
        /\ \E available \in BOOLEAN :
               cars[req[w].id] = [req[w].doc EXCEPT !.available = available]

\* Two clients that create a car with one VIN, or one license plate, are not
\* both told that they created it.
CreatedForOneClient ==
    \A v, w \in Workers :
        v # w /\ answer[v] = "OK" /\ answer[w] = "OK" => ~SameKey(req[v].doc, req[w].doc)

\* CONFLICT says "Car with this VIN or license plate already exists", of a car
\* other than the one that the request has just created.
ConflictMeansDuplicate ==
    \A w \in Workers : answer[w] = "CONFLICT" => Duplicates(req[w].doc) \ {req[w].id} # {}

\* Cars listed when the scan began that it has not met, though no other car has
\* their created_at.
Missed ==
    {id \in scan.listed \ scan.seen :
        \A other \in Stored \ {id} : cars[other].created # cars[id].created}

\* A client that reads GET /cars page by page, by offset, while cars are created,
\* sees every car of a class.  Where the listing shrinks (GET /cars/available,
\* by rentals), it misses no more cars than were hidden meanwhile.  Cars with
\* equal created_at are exempt: nothing orders them (mongo_storage.cpp:200).
ScanMissesOnlyHidden ==
    scan.at = "ended" =>
        Cardinality(Missed) <= IF scan.filter = "available" THEN scan.hides ELSE 0

\* find and count_documents are two commands (mongo_storage.cpp:202-207): the
\* total of a class listing is never below the cars its pages have shown.
TotalCoversPage ==
    scan.at = "answered" /\ scan.filter \in Classes /\ scan.page # {} =>
        scan.offset + Cardinality(scan.page) <= scan.total

Entries == [id \in CarIds |-> IF cars[id] = None THEN None ELSE Identity(cars[id])]

Catalog == INSTANCE Registry WITH
    Ids <- CarIds, Docs <- Identities, Conflict <- SameKey,
    Initial <- [id \in CarIds |-> IF id \in DOMAIN Seed THEN Identity(Seed[id]) ELSE None],
    entries <- Entries

\* Whatever clients create, rentals hide and failures delay, the catalogue is a
\* registry: a car is entered once, where no stored car has its VIN or plate, and
\* keeps what identifies it.
ImplementsRegistry == Catalog!Spec
=============================================================================
