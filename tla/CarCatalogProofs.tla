-------------------------- MODULE CarCatalogProofs --------------------------
(***************************************************************************)
(* What the runs of CarCatalog check, for any number of clients and cars:  *)
(* of CreateCar that 201 can be relied on and one client gets it, and of a *)
(* listing read page by page that it misses no car but those hidden        *)
(* meanwhile.                                                              *)
(***************************************************************************)
EXTENDS CarCatalog, FiniteSetTheorems, TLAPS

\* The car a request asked for is in the collection.
Catalogued(w) ==
    /\ req[w].id \in Stored
    /\ \E available \in BOOLEAN :
           cars[req[w].id] = [req[w].doc EXCEPT !.available = available]

\* The types the proofs need.
Types ==
    /\ cars \in [CarIds -> Car \cup {None}]
    /\ late \subseteq [id: CarIds, doc: Car]
    /\ pc \in [Workers -> {"ready", "InsertCar", "FindCar"}]
    /\ req \in [Workers -> Requests]
    /\ answer \in [Workers -> {"none", "OK", "VALIDATION_ERROR", "CONFLICT"}]

\* No two cars are alike to the unique indexes.
KeysDiffer == \A i, j \in Stored : i # j => ~SameKey(cars[i], cars[j])

\* Requests do not share ids.
IdsDiffer == \A v, w \in Workers : v # w /\ req[v].id = req[w].id => req[v].id = None

\* An insert that is about to be executed, or late, is of an id of its own.
PendingIsNew ==
    \A w \in Workers : pc[w] = "InsertCar" =>
        /\ req[w] \in [id: CarIds, doc: Car] /\ req[w].id \notin Stored
        /\ \A m \in late : m.id # req[w].id

LateIsNew ==
    \A m \in late : m.id \notin Stored /\ \A n \in late : n.id = m.id => n = m

\* A request in flight has no answer yet, and one that found or answered has its car.
Progress ==
    \A w \in Workers : /\ pc[w] # "ready" => answer[w] = "none"
                       /\ pc[w] = "FindCar" \/ answer[w] = "OK" => Catalogued(w)

Inv == Types /\ KeysDiffer /\ IdsDiffer /\ PendingIsNew /\ LateIsNew /\ Progress

-----------------------------------------------------------------------------

\* The cars of the test data, and nothing in flight.
LEMMA InvInit == Init => Inv
<1> SUFFICES ASSUME Init PROVE Inv OBVIOUS
<1> USE CatalogAssumptions
<1>1. /\ cars \in [CarIds -> Car \cup {None}]
      /\ \A i \in CarIds : cars[i] = IF i \in DOMAIN Seed THEN Seed[i] ELSE None
    BY DEF Init
<1>2. Stored = DOMAIN Seed BY <1>1 DEF Stored
<1>3. Types BY <1>1 DEF Init, Types, Requests
<1>4. KeysDiffer BY <1>1, <1>2 DEF KeysDiffer
<1>5. IdsDiffer /\ PendingIsNew /\ LateIsNew /\ Progress
    BY DEF Init, IdsDiffer, PendingIsNew, LateIsNew, Progress
<1>6. QED BY <1>3, <1>4, <1>5 DEF Inv

\* What an insert of a new id does to the collection.
LEMMA InsertNew ==
    ASSUME Types, KeysDiffer, NEW id \in CarIds, NEW doc \in Car,
           id \notin Stored, Insert(id, doc)
    PROVE  /\ cars' \in [CarIds -> Car \cup {None}]
           /\ KeysDiffer'
           /\ \A i \in Stored : i \in Stored' /\ cars'[i] = cars[i]
           /\ \A i \in Stored' : i = id \/ i \in Stored
           /\ Duplicates(doc) = {} => id \in Stored' /\ cars'[id] = doc
<1> USE CatalogAssumptions
<1>1. CASE Duplicates(doc) # {}
    <2>1. cars' = cars BY <1>1 DEF Insert
    <2>2. QED BY <1>1, <2>1 DEF Types, KeysDiffer, Stored
<1>2. CASE Duplicates(doc) = {}
    <2>1. cars' = [cars EXCEPT ![id] = doc] BY <1>2 DEF Insert
    <2>2. cars' \in [CarIds -> Car \cup {None}] /\ doc # None BY <2>1 DEF Types
    <2>3. \A i \in CarIds : cars'[i] = IF i = id THEN doc ELSE cars[i] BY <2>1 DEF Types
    <2>4. Stored' = Stored \cup {id} BY <2>2, <2>3 DEF Stored
    <2>5. \A i \in Stored : ~SameKey(cars[i], doc) /\ ~SameKey(doc, cars[i])
        BY <1>2 DEF Duplicates, SameKey
    <2>6. KeysDiffer' BY <2>3, <2>4, <2>5 DEF KeysDiffer, Stored
    <2>7. QED BY <2>2, <2>3, <2>4, <2>6 DEF Stored
<1>3. QED BY <1>1, <1>2

\* What was catalogued stays, if nothing happens to stored cars.
LEMMA CataloguedKept ==
    ASSUME NEW w \in Workers, Catalogued(w), req'[w] = req[w],
           \A i \in Stored : i \in Stored' /\ cars'[i] = cars[i]
    PROVE  Catalogued(w)'
    BY DEF Catalogued

\* A request begins with an id of its own.
LEMMA ReceiveKeepsInv ==
    ASSUME Inv, NEW w \in Workers, ReceiveCreateCar(w) PROVE Inv'
<1> USE CatalogAssumptions DEF Inv
<1>1. PICK id \in FreshIds(w), offer \in Offers, class \in Classes, created \in Stamps :
        req' = [req EXCEPT ![w] =
                   [id |-> id,
                    doc |-> [vin |-> offer[1], plate |-> offer[2], class |-> class,
                             available |-> TRUE, created |-> created]]]
    BY DEF ReceiveCreateCar
<1>2. /\ pc' = [pc EXCEPT ![w] = "InsertCar"] /\ answer' = [answer EXCEPT ![w] = "none"]
      /\ cars' = cars /\ late' = late /\ pc[w] = "ready"
    BY DEF ReceiveCreateCar
<1>3. /\ id \in CarIds /\ id \notin Stored /\ \A m \in late : m.id # id
      /\ \A v \in Workers \ {w} : req[v].id # id
    BY DEF FreshIds
<1>4. req'[w] \in [id: CarIds, doc: Car] /\ req'[w].id = id
    <2>1. offer[1] \in Vins /\ offer[2] \in Plates BY DEF CatalogAssumptions
    <2>2. QED BY <1>1, <1>3, <2>1 DEF Types, Car
<1>5. \A v \in Workers \ {w} : req'[v] = req[v] /\ pc'[v] = pc[v] /\ answer'[v] = answer[v]
    BY <1>1, <1>2 DEF Types
<1>6. pc'[w] = "InsertCar" /\ answer'[w] = "none" BY <1>2 DEF Types
<1>7. Stored' = Stored BY <1>2 DEF Stored
<1>8. Types' BY <1>1, <1>2, <1>3, <1>4, <1>5 DEF Types, Requests, Car
<1>9. KeysDiffer' BY <1>2, <1>7 DEF KeysDiffer
<1>10. IdsDiffer' BY <1>3, <1>4, <1>5 DEF IdsDiffer
<1>11. PendingIsNew' BY <1>2, <1>3, <1>4, <1>5, <1>6, <1>7 DEF PendingIsNew
<1>12. LateIsNew' BY <1>2, <1>7 DEF LateIsNew
<1>13. Progress' BY <1>2, <1>5, <1>6, <1>7 DEF Progress, Catalogued
<1>14. QED BY <1>8, <1>9, <1>10, <1>11, <1>12, <1>13

\* An invalid car has no id.
LEMMA RejectKeepsInv ==
    ASSUME Inv, NEW w \in Workers, RejectInvalidCar(w) PROVE Inv'
<1> USE DEF Inv
<1>1. /\ pc' = [pc EXCEPT ![w] = "ready"] /\ answer' = [answer EXCEPT ![w] = "VALIDATION_ERROR"]
      /\ req' = [req EXCEPT ![w] = [id |-> None, doc |-> None]]
      /\ cars' = cars /\ late' = late
    BY DEF RejectInvalidCar, Answer
<1>2. \A v \in Workers \ {w} : req'[v] = req[v] /\ pc'[v] = pc[v] /\ answer'[v] = answer[v]
    BY <1>1 DEF Types
<1>3. pc'[w] = "ready" /\ answer'[w] = "VALIDATION_ERROR" /\ req'[w].id = None
    BY <1>1 DEF Types
<1>4. Stored' = Stored BY <1>1 DEF Stored
<1>5. Types' BY <1>1 DEF Types, Requests
<1>6. KeysDiffer' /\ LateIsNew' BY <1>1, <1>4 DEF KeysDiffer, LateIsNew
<1>7. IdsDiffer' BY <1>2, <1>3 DEF IdsDiffer
<1>8. PendingIsNew' BY <1>1, <1>2, <1>3, <1>4 DEF PendingIsNew
<1>9. Progress' BY <1>1, <1>2, <1>3, <1>4 DEF Progress, Catalogued
<1>10. QED BY <1>5, <1>6, <1>7, <1>8, <1>9

\* The insert is executed: the car is stored, or a key of it is taken.
LEMMA InsertKeepsInv ==
    ASSUME Inv, NEW w \in Workers, InsertCar(w) PROVE Inv'
<1> USE DEF Inv
<1> DEFINE id == req[w].id
           doc == req[w].doc
<1>1. /\ pc[w] = "InsertCar" /\ Insert(id, doc) /\ late' = late /\ req' = req
      /\ IF Duplicates(doc) = {}
         THEN pc' = [pc EXCEPT ![w] = "FindCar"] /\ answer' = answer
         ELSE pc' = [pc EXCEPT ![w] = "ready"] /\ answer' = [answer EXCEPT ![w] = "CONFLICT"]
    BY DEF InsertCar, Goto, Answer
<1>2. id \in CarIds /\ doc \in Car /\ id \notin Stored /\ \A m \in late : m.id # id
    BY <1>1 DEF PendingIsNew
<1>3. /\ cars' \in [CarIds -> Car \cup {None}] /\ KeysDiffer'
      /\ \A i \in Stored : i \in Stored' /\ cars'[i] = cars[i]
      /\ \A i \in Stored' : i = id \/ i \in Stored
      /\ Duplicates(doc) = {} => id \in Stored' /\ cars'[id] = doc
    BY <1>1, <1>2, InsertNew
<1>4. \A v \in Workers \ {w} : pc'[v] = pc[v] /\ answer'[v] = answer[v]
    BY <1>1 DEF Types
<1>5. /\ pc'[w] # "InsertCar" /\ answer'[w] # "OK"
      /\ pc'[w] # "ready" => answer'[w] = "none"
      /\ pc'[w] = "FindCar" => Duplicates(doc) = {}
    BY <1>1 DEF Types, Progress
<1>6. Types' BY <1>1, <1>3 DEF Types
<1>7. IdsDiffer' BY <1>1 DEF IdsDiffer
<1>8. \A v \in Workers \ {w} : pc[v] = "InsertCar" => req[v].id # id
    BY <1>2, CatalogAssumptions DEF IdsDiffer
<1>9. PendingIsNew' BY <1>1, <1>3, <1>4, <1>5, <1>8 DEF PendingIsNew
<1>10. LateIsNew' BY <1>1, <1>2, <1>3 DEF LateIsNew
<1>11. Duplicates(doc) = {} => Catalogued(w)'
    <2>1. doc = [doc EXCEPT !.available = doc.available] /\ doc.available \in BOOLEAN
        BY <1>2 DEF Car
    <2>2. QED BY <1>1, <1>3, <2>1 DEF Catalogued
<1>12. \A v \in Workers \ {w} : Catalogued(v) => Catalogued(v)'
    BY <1>1, <1>3, CataloguedKept
<1>13. Progress' BY <1>4, <1>5, <1>11, <1>12 DEF Progress
<1>14. QED BY <1>3, <1>6, <1>7, <1>9, <1>10, <1>13

\* The car that was inserted is found.
LEMMA FindKeepsInv ==
    ASSUME Inv, NEW w \in Workers, FindCar(w) PROVE Inv'
<1> USE DEF Inv
<1>1. PICK code \in {"OK", "CONFLICT"} :
        /\ pc' = [pc EXCEPT ![w] = "ready"] /\ answer' = [answer EXCEPT ![w] = code]
        /\ pc[w] = "FindCar" /\ cars' = cars /\ late' = late /\ req' = req
    BY DEF FindCar, Answer
<1>2. \A v \in Workers \ {w} : pc'[v] = pc[v] /\ answer'[v] = answer[v] BY <1>1 DEF Types
<1>3. pc'[w] = "ready" BY <1>1 DEF Types
<1>4. Stored' = Stored /\ \A v \in Workers : Catalogued(v)' <=> Catalogued(v)
    BY <1>1 DEF Stored, Catalogued
<1>5. Types' BY <1>1 DEF Types
<1>6. KeysDiffer' /\ LateIsNew' /\ IdsDiffer' BY <1>1, <1>4 DEF KeysDiffer, LateIsNew, IdsDiffer
<1>7. PendingIsNew' BY <1>1, <1>2, <1>3, <1>4 DEF PendingIsNew
<1>8. Progress' BY <1>1, <1>2, <1>3, <1>4 DEF Progress
<1>9. QED BY <1>5, <1>6, <1>7, <1>8

\* A command fails; an insert may still come, of an id that is its own.
LEMMA FailureKeepsInv ==
    ASSUME Inv, NEW w \in Workers, CommandFails(w) PROVE Inv'
<1> USE DEF Inv
<1>1. /\ pc' = [pc EXCEPT ![w] = "ready"] /\ answer' = [answer EXCEPT ![w] = "CONFLICT"]
      /\ late' = IF pc[w] = "InsertCar" THEN late \cup {req[w]} ELSE late
      /\ cars' = cars /\ req' = req
    BY DEF CommandFails, Answer
<1>2. \A v \in Workers \ {w} : pc'[v] = pc[v] /\ answer'[v] = answer[v] BY <1>1 DEF Types
<1>3. pc'[w] = "ready" /\ answer'[w] = "CONFLICT" BY <1>1 DEF Types
<1>4. Stored' = Stored /\ \A v \in Workers : Catalogued(v)' <=> Catalogued(v)
    BY <1>1 DEF Stored, Catalogued
<1>5. pc[w] = "InsertCar" =>
        /\ req[w] \in [id: CarIds, doc: Car] /\ req[w].id \notin Stored
        /\ \A m \in late : m.id # req[w].id
        /\ \A v \in Workers \ {w} : req[v].id # req[w].id
    BY CatalogAssumptions DEF PendingIsNew, IdsDiffer
<1>6. Types' BY <1>1, <1>5 DEF Types
<1>7. KeysDiffer' /\ IdsDiffer' BY <1>1, <1>4 DEF KeysDiffer, IdsDiffer
<1>8. LateIsNew' BY <1>1, <1>4, <1>5 DEF LateIsNew
<1>9. PendingIsNew' BY <1>1, <1>2, <1>3, <1>4, <1>5 DEF PendingIsNew
<1>10. Progress' BY <1>2, <1>3, <1>4 DEF Progress
<1>11. QED BY <1>6, <1>7, <1>8, <1>9, <1>10

\* A late insert is executed and spends its id.
LEMMA LateInsertKeepsInv ==
    ASSUME Inv, LateInsert PROVE Inv'
<1> USE DEF Inv
<1>1. PICK m \in late : /\ Insert(m.id, m.doc) /\ late' = late \ {m}
                        /\ pc' = pc /\ req' = req /\ answer' = answer
    BY DEF LateInsert
<1>2. m.id \in CarIds /\ m.doc \in Car /\ m.id \notin Stored
    BY <1>1 DEF Types, LateIsNew
<1>3. /\ cars' \in [CarIds -> Car \cup {None}] /\ KeysDiffer'
      /\ \A i \in Stored : i \in Stored' /\ cars'[i] = cars[i]
      /\ \A i \in Stored' : i = m.id \/ i \in Stored
    BY <1>1, <1>2, InsertNew
<1>4. Types' BY <1>1, <1>3 DEF Types
<1>5. IdsDiffer' BY <1>1 DEF IdsDiffer
<1>6. PendingIsNew' BY <1>1, <1>3 DEF PendingIsNew
<1>7. LateIsNew' BY <1>1, <1>3 DEF LateIsNew
<1>8. Progress' BY <1>1, <1>3, CataloguedKept DEF Progress
<1>9. QED BY <1>3, <1>4, <1>5, <1>6, <1>7, <1>8

\* At a crash every pending insert becomes a late one.
LEMMA CrashKeepsInv ==
    ASSUME Inv, Crash PROVE Inv'
<1> USE DEF Inv
<1> DEFINE pending == {v \in Workers : pc[v] = "InsertCar"}
<1>1. /\ pc' = [w \in Workers |-> "ready"] /\ late' = late \cup {req[w] : w \in pending}
      /\ cars' = cars /\ req' = req /\ answer' = answer
    BY DEF Crash
<1>2. Stored' = Stored /\ \A v \in Workers : Catalogued(v)' <=> Catalogued(v)
    BY <1>1 DEF Stored, Catalogued
<1>3. \A w \in pending :
        /\ req[w] \in [id: CarIds, doc: Car] /\ req[w].id \notin Stored
        /\ \A m \in late : m.id # req[w].id
        /\ \A v \in pending \ {w} : req[v].id # req[w].id
    BY CatalogAssumptions DEF PendingIsNew, IdsDiffer
<1>4. Types' BY <1>1, <1>3 DEF Types
<1>5. KeysDiffer' /\ IdsDiffer' BY <1>1, <1>2 DEF KeysDiffer, IdsDiffer
<1>6. LateIsNew'
    <2>1. SUFFICES ASSUME NEW m \in late'
                   PROVE  m.id \notin Stored /\ \A n \in late' : n.id = m.id => n = m
        BY <1>2 DEF LateIsNew
    <2>2. CASE m \in late BY <1>1, <1>3, <2>2 DEF LateIsNew
    <2>3. CASE m \in {req[w] : w \in pending} BY <1>1, <1>3, <2>3 DEF LateIsNew
    <2>4. QED BY <1>1, <2>2, <2>3
<1>7. PendingIsNew' BY <1>1 DEF PendingIsNew
<1>8. Progress' BY <1>1, <1>2 DEF Progress
<1>9. QED BY <1>4, <1>5, <1>6, <1>7, <1>8

\* Rentals change whether a car is available, and nothing else of it.
LEMMA HidingKeepsInv ==
    ASSUME Inv, NEW id \in CarIds, NEW available \in BOOLEAN,
           UpdateCarAvailability(id, available)
    PROVE  Inv'
<1> USE CatalogAssumptions DEF Inv
<1>1. /\ id \in Stored /\ cars' = [cars EXCEPT ![id].available = available]
      /\ late' = late /\ pc' = pc /\ req' = req /\ answer' = answer
    BY DEF UpdateCarAvailability
<1>2. cars[id] \in Car BY <1>1 DEF Types, Stored
<1>3. cars'[id] = [cars[id] EXCEPT !.available = available] /\ cars'[id] \in Car
    BY <1>1, <1>2 DEF Types, Car
<1>4. \A i \in CarIds \ {id} : cars'[i] = cars[i] BY <1>1 DEF Types
<1>5. cars' \in [CarIds -> Car \cup {None}] BY <1>1, <1>2, <1>3 DEF Types, Car
<1>6. Stored' = Stored BY <1>1, <1>3, <1>4 DEF Stored
<1>7. \A i \in Stored : cars'[i].vin = cars[i].vin /\ cars'[i].plate = cars[i].plate
    BY <1>2, <1>3, <1>4 DEF Stored, Car
<1>8. KeysDiffer' BY <1>6, <1>7 DEF KeysDiffer, SameKey
<1>9. \A v \in Workers : Catalogued(v) => Catalogued(v)'
    <2>1. SUFFICES ASSUME NEW v \in Workers, Catalogued(v) PROVE Catalogued(v)' OBVIOUS
    <2>2. CASE req[v].id # id BY <1>1, <1>4, <1>6, <2>1, <2>2 DEF Catalogued, Stored
    <2>3. CASE req[v].id = id
        <3>1. PICK old \in BOOLEAN : cars[id] = [req[v].doc EXCEPT !.available = old]
            BY <2>1, <2>3 DEF Catalogued
        <3>2. cars'[id] = [req[v].doc EXCEPT !.available = available]
            <4>1. req[v].doc \in Car \cup {None} BY DEF Types, Requests
            <4>2. [[req[v].doc EXCEPT !.available = old] EXCEPT !.available = available]
                      = [req[v].doc EXCEPT !.available = available]
                OBVIOUS
            <4>3. QED BY <1>3, <3>1, <4>2
        <3>3. QED BY <1>1, <1>6, <2>3, <3>2 DEF Catalogued
    <2>4. QED BY <2>2, <2>3
<1>10. Types' BY <1>1, <1>5 DEF Types
<1>11. IdsDiffer' /\ PendingIsNew' /\ LateIsNew'
    BY <1>1, <1>6 DEF IdsDiffer, PendingIsNew, LateIsNew
<1>12. Progress' BY <1>1, <1>9 DEF Progress
<1>13. QED BY <1>8, <1>10, <1>11, <1>12

\* Listings, and inserts that are lost, change nothing the invariant is about.
LEMMA QuietKeepsInv ==
    ASSUME Inv, cars' = cars, pc' = pc, req' = req, answer' = answer, late' \subseteq late
    PROVE  Inv'
<1> USE DEF Inv
<1>1. Stored' = Stored /\ \A v \in Workers : Catalogued(v)' <=> Catalogued(v)
    BY DEF Stored, Catalogued
<1>2. Types' BY DEF Types
<1>3. KeysDiffer' /\ IdsDiffer' /\ PendingIsNew' /\ LateIsNew'
    BY <1>1 DEF KeysDiffer, IdsDiffer, PendingIsNew, LateIsNew
<1>4. Progress' BY <1>1 DEF Progress
<1>5. QED BY <1>2, <1>3, <1>4

\* The invariant holds in every behaviour.
LEMMA InvAlways == Spec => []Inv
<1>1. ASSUME Inv, [Next]_vars PROVE Inv'
    <2>1. CASE \E w \in Workers : Create(w)
        BY <1>1, <2>1, ReceiveKeepsInv, RejectKeepsInv, InsertKeepsInv, FindKeepsInv DEF Create
    <2>2. CASE List
        BY <1>1, <2>2, QuietKeepsInv DEF List, StartScan, RefuseScan, FindCars, CountCars, NextPage
    <2>3. CASE \E id \in CarIds, available \in BOOLEAN : UpdateCarAvailability(id, available)
        BY <1>1, <2>3, HidingKeepsInv
    <2>4. CASE Failure
        <3>1. CASE \E w \in Workers : CommandFails(w) BY <1>1, <3>1, FailureKeepsInv
        <3>2. CASE LateInsert BY <1>1, <3>2, LateInsertKeepsInv
        <3>3. CASE LostInsert BY <1>1, <3>3, QuietKeepsInv DEF LostInsert
        <3>4. CASE Crash BY <1>1, <3>4, CrashKeepsInv
        <3>5. CASE ListingFails BY <1>1, <3>5, QuietKeepsInv DEF ListingFails
        <3>6. QED BY <2>4, <3>1, <3>2, <3>3, <3>4, <3>5 DEF Failure
    <2>5. CASE UNCHANGED vars BY <1>1, <2>5, QuietKeepsInv DEF vars
    <2>6. QED BY <1>1, <2>1, <2>2, <2>3, <2>4, <2>5 DEF Next
<1>2. QED BY <1>1, InvInit, PTL DEF Spec

\* For any number of clients, cars and failures: who is told 201 has the car,
\* because neither inserts nor updates of others touch its document.
THEOREM CreatedCarsAreCatalogued == Spec => []OkIsCatalogued
<1>1. Inv => OkIsCatalogued BY DEF Inv, Progress, Catalogued, OkIsCatalogued
<1>2. QED BY <1>1, InvAlways, PTL

\* For any number of clients, one of those who create the same car is told 201:
\* two documents would have to share the key.
THEOREM OneCreatorPerCar == Spec => []CreatedForOneClient
<1>1. ASSUME Inv PROVE CreatedForOneClient
    <2>1. SUFFICES ASSUME NEW v \in Workers, NEW w \in Workers, v # w,
                          answer[v] = "OK", answer[w] = "OK"
                   PROVE  ~SameKey(req[v].doc, req[w].doc)
        BY DEF CreatedForOneClient
    <2>2. Catalogued(v) /\ Catalogued(w) BY <1>1, <2>1 DEF Inv, Progress
    <2>3. req[v].id # req[w].id
        BY <1>1, <2>1, <2>2, CatalogAssumptions DEF Inv, IdsDiffer, Catalogued, Stored
    <2>4. ~SameKey(cars[req[v].id], cars[req[w].id])
        BY <1>1, <2>2, <2>3 DEF Inv, KeysDiffer, Catalogued
    <2>5. \A u \in {v, w} : /\ cars[req[u].id].vin = req[u].doc.vin
                            /\ cars[req[u].id].plate = req[u].doc.plate
        BY <1>1, <2>2, CatalogAssumptions DEF Inv, Types, Catalogued, Stored, Requests, Car
    <2>6. QED BY <2>4, <2>5 DEF SameKey
<1>2. QED BY <1>1, InvAlways, PTL

-----------------------------------------------------------------------------
(* Where nothing fails.                                                    *)

\* A car that is stored keeps its VIN and plate, so what it keeps out stays out.
LEMMA DuplicatesStay ==
    ASSUME Inv, [Next]_vars, NEW doc PROVE Duplicates(doc) \subseteq Duplicates(doc)'
<1> USE DEF Inv
<1>1. SUFFICES \A i \in Stored : /\ i \in Stored'
                                 /\ cars'[i].vin = cars[i].vin /\ cars'[i].plate = cars[i].plate
    BY DEF Duplicates, SameKey
<1>2. CASE cars' = cars BY <1>2 DEF Stored
<1>3. CASE \A i \in Stored : i \in Stored' /\ cars'[i] = cars[i] BY <1>3
<1>4. ASSUME NEW w \in Workers, InsertCar(w)
      PROVE  \A i \in Stored : i \in Stored' /\ cars'[i] = cars[i]
    <2>1. /\ req[w].id \in CarIds /\ req[w].doc \in Car /\ req[w].id \notin Stored
          /\ Insert(req[w].id, req[w].doc)
        BY <1>4 DEF InsertCar, PendingIsNew
    <2>2. QED BY <2>1, InsertNew
<1>5. ASSUME LateInsert PROVE \A i \in Stored : i \in Stored' /\ cars'[i] = cars[i]
    <2>1. PICK m \in late : Insert(m.id, m.doc) BY <1>5 DEF LateInsert
    <2>2. m.id \in CarIds /\ m.doc \in Car /\ m.id \notin Stored BY DEF Types, LateIsNew
    <2>3. QED BY <2>1, <2>2, InsertNew
<1>6. ASSUME NEW id \in CarIds, NEW value \in BOOLEAN, UpdateCarAvailability(id, value)
      PROVE  \A i \in Stored : /\ i \in Stored'
                               /\ cars'[i].vin = cars[i].vin /\ cars'[i].plate = cars[i].plate
    <2>1. id \in Stored /\ cars' = [cars EXCEPT ![id].available = value]
        BY <1>6 DEF UpdateCarAvailability
    <2>2. cars[id] \in Car BY <2>1 DEF Types, Stored
    <2>3. cars'[id] = [cars[id] EXCEPT !.available = value] /\ cars'[id] \in Car
        BY <2>1, <2>2 DEF Types, Car
    <2>4. \A i \in CarIds \ {id} : cars'[i] = cars[i] BY <2>1 DEF Types
    <2>5. QED BY <2>2, <2>3, <2>4, CatalogAssumptions DEF Stored, Car
<1>7. \/ cars' = cars
      \/ (\E w \in Workers : InsertCar(w)) \/ LateInsert
      \/ \E id \in CarIds, value \in BOOLEAN : UpdateCarAvailability(id, value)
    BY DEF Next, vars, Create, ReceiveCreateCar, RejectInvalidCar, FindCar, List, StartScan,
           RefuseScan, FindCars, CountCars, NextPage, Failure, CommandFails, LostInsert, Crash,
           ListingFails
<1>8. QED BY <1>2, <1>3, <1>4, <1>5, <1>6, <1>7

\* A request that is refused is refused for another car than its own.
LEMMA TrueConflict ==
    ASSUME ~Faulty, Inv, ConflictMeansDuplicate, [Next]_vars
    PROVE  ConflictMeansDuplicate'
<1> USE DEF Inv
<1>1. SUFFICES ASSUME NEW w \in Workers, answer'[w] = "CONFLICT"
               PROVE  (Duplicates(req[w].doc) \ {req[w].id})' # {}
    BY DEF ConflictMeansDuplicate
<1>2. CASE answer'[w] = answer[w] /\ req'[w] = req[w]
    BY <1>1, <1>2, DuplicatesStay DEF ConflictMeansDuplicate
<1>3. CASE InsertCar(w) /\ answer'[w] # answer[w]
    <2>1. Duplicates(req[w].doc) # {} /\ req' = req /\ req[w].id \notin Stored
        BY <1>3 DEF InsertCar, Goto, PendingIsNew
    <2>2. Duplicates(req[w].doc) \ {req[w].id} # {} BY <2>1 DEF Duplicates
    <2>3. QED BY <2>1, <2>2, DuplicatesStay
<1>4. CASE FindCar(w)
    <2>1. req[w].id \in Stored BY <1>4 DEF FindCar, Progress, Catalogued
    <2>2. answer'[w] = "OK" BY <1>4, <2>1 DEF FindCar, Answer, Types
    <2>3. QED BY <1>1, <2>2
<1>5. CASE ReceiveCreateCar(w) \/ RejectInvalidCar(w)
    <2>1. answer'[w] \in {"none", "VALIDATION_ERROR"}
        BY <1>5 DEF ReceiveCreateCar, RejectInvalidCar, Answer, Types
    <2>2. QED BY <1>1, <2>1
<1>6. ASSUME NEW v \in Workers, Create(v), v # w
      PROVE  answer'[w] = answer[w] /\ req'[w] = req[w]
    BY <1>6 DEF Create, ReceiveCreateCar, RejectInvalidCar, InsertCar, FindCar, Goto, Answer, Types
<1>7. CASE InsertCar(w) /\ answer'[w] = answer[w]
    BY <1>2, <1>7 DEF InsertCar
<1>8. \/ answer' = answer /\ req' = req
      \/ \E v \in Workers : Create(v)
    BY DEF Next, vars, List, StartScan, RefuseScan, FindCars, CountCars, NextPage,
           UpdateCarAvailability, Failure, CommandFails, LateInsert, LostInsert, Crash, ListingFails
<1>9. QED BY <1>2, <1>3, <1>4, <1>5, <1>6, <1>7, <1>8 DEF Create

\* "Car with this VIN or license plate already exists" is true while nothing fails:
\* it is then said for the duplicate key only, and the insert of a car that is its
\* own duplicate would need an id that is stored.
THEOREM FalseConflictNeedsFailure ==
    ASSUME ~Faulty PROVE Spec => []ConflictMeansDuplicate
<1>1. Init => ConflictMeansDuplicate BY DEF Init, ConflictMeansDuplicate
<1>2. Inv /\ ConflictMeansDuplicate /\ [Next]_vars => ConflictMeansDuplicate' BY TrueConflict
<1>3. QED BY <1>1, <1>2, InvAlways, PTL DEF Spec

-----------------------------------------------------------------------------
(* The catalogue as a registry.                                            *)

\* What identifies a car is a document of the registry.
LEMMA IdentityType ==
    ASSUME NEW car \in Car
    PROVE  Identity(car) \in Identities /\ Identity(car) # None /\ car # None
    BY CatalogAssumptions DEF Identity, Identities, Car

\* An insert of a new id enters its car, or nothing.
LEMMA InsertEnters ==
    ASSUME Types, NEW id \in CarIds, NEW doc \in Car, id \notin Stored, Insert(id, doc)
    PROVE  Catalog!Next \/ Entries' = Entries
<1>1. CASE Duplicates(doc) # {} BY <1>1 DEF Insert, Entries
<1>2. CASE Duplicates(doc) = {}
    <2>1. \A i \in CarIds : cars'[i] = IF i = id THEN doc ELSE cars[i]
        BY <1>2 DEF Insert, Types
    <2>2. \A i \in CarIds : Entries'[i] = IF i = id THEN Identity(doc) ELSE Entries[i]
        BY <2>1, IdentityType DEF Entries
    <2>3. Entries' = [Entries EXCEPT ![id] = Entries'[id]] BY <2>2 DEF Entries
    <2>4. Entries[id] = None /\ Entries'[id] = Identity(doc) BY <2>2 DEF Entries, Stored
    <2>5. ASSUME NEW other \in CarIds, Entries[other] # None
          PROVE  ~SameKey(Entries[other], Identity(doc))
        <3>1. other \in Stored /\ Entries[other] = Identity(cars[other])
            BY <2>5 DEF Entries, Stored
        <3>2. ~SameKey(cars[other], doc) BY <1>2, <3>1 DEF Duplicates
        <3>3. QED BY <3>1, <3>2 DEF SameKey, Identity
    <2>6. Catalog!Enter(id, Entries'[id])
        BY <2>3, <2>4, <2>5 DEF Catalog!Enter, Catalog!Entered
    <2>7. QED BY <2>4, <2>6, IdentityType DEF Catalog!Next
<1>3. QED BY <1>1, <1>2

\* Rentals change nothing that identifies a car.
LEMMA HidingEntersNothing ==
    ASSUME Types, NEW id \in CarIds, NEW value \in BOOLEAN, UpdateCarAvailability(id, value)
    PROVE  Entries' = Entries
<1>1. id \in Stored /\ cars' = [cars EXCEPT ![id].available = value]
    BY DEF UpdateCarAvailability
<1>2. cars[id] \in Car BY <1>1 DEF Types, Stored
<1>3. cars'[id] = [cars[id] EXCEPT !.available = value] /\ cars'[id] \in Car
    BY <1>1, <1>2 DEF Types, Car
<1>4. Identity(cars'[id]) = Identity(cars[id]) BY <1>2, <1>3 DEF Identity, Car
<1>5. \A i \in CarIds \ {id} : cars'[i] = cars[i] BY <1>1 DEF Types
<1>6. cars'[id] # None /\ cars[id] # None BY <1>2, <1>3, IdentityType
<1>7. QED BY <1>4, <1>5, <1>6 DEF Entries

\* Only an insert that is executed changes the registry.
LEMMA StepImplementsRegistry ==
    ASSUME Inv, [Next]_vars PROVE Catalog!Next \/ Entries' = Entries
<1> USE DEF Inv
<1>1. CASE cars' = cars BY <1>1 DEF Entries
<1>2. CASE \E w \in Workers : InsertCar(w)
    BY <1>2, InsertEnters DEF InsertCar, PendingIsNew
<1>3. CASE LateInsert BY <1>3, InsertEnters DEF LateInsert, LateIsNew, Types
<1>4. CASE \E id \in CarIds, available \in BOOLEAN : UpdateCarAvailability(id, available)
    BY <1>4, HidingEntersNothing
<1>5. \/ cars' = cars \/ (\E w \in Workers : InsertCar(w)) \/ LateInsert
      \/ \E id \in CarIds, available \in BOOLEAN : UpdateCarAvailability(id, available)
    BY DEF Next, vars, Create, ReceiveCreateCar, RejectInvalidCar, FindCar, List, StartScan,
           RefuseScan, FindCars, CountCars, NextPage, Failure, CommandFails, LostInsert, Crash,
           ListingFails
<1>6. QED BY <1>1, <1>2, <1>3, <1>4, <1>5

\* For any number of clients and cars, and with failures: the catalogue holds one car
\* per VIN and plate and keeps it, because an insert that is pending or late has an
\* id that is not stored and the unique indexes decide in one command.
THEOREM CatalogImplementsRegistry == Spec => ImplementsRegistry
<1>1. Init => Catalog!Init
    <2>1. SUFFICES ASSUME Init PROVE Entries = [id \in CarIds |->
              IF id \in DOMAIN Seed THEN Identity(Seed[id]) ELSE None]
        BY DEF Catalog!Init
    <2>2. cars = [id \in CarIds |-> IF id \in DOMAIN Seed THEN Seed[id] ELSE None]
        BY <2>1 DEF Init
    <2>3. \A id \in CarIds : (cars[id] = None) <=> (id \notin DOMAIN Seed)
        BY <2>2, CatalogAssumptions
    <2>4. QED BY <2>2, <2>3 DEF Entries
<1>2. Inv /\ [Next]_vars => [Catalog!Next]_Entries BY StepImplementsRegistry
<1>3. QED BY <1>1, <1>2, InvAlways, PTL DEF Spec, ImplementsRegistry, Catalog!Spec
-----------------------------------------------------------------------------
(* Types, of requests in flight and of scans too.                          *)

\* What is stored are cars of a finite set of ids, and listings are made of them.
LEMMA ListingTypes ==
    ASSUME Types
    PROVE  /\ IsFiniteSet(Stored) /\ Stored \subseteq CarIds
           /\ \A id \in Stored : cars[id] \in Car
           /\ \A filter : /\ Matching(filter) \subseteq Stored
                          /\ IsFiniteSet(Matching(filter))
                          /\ Cardinality(Matching(filter)) \in Nat
<1>1. Stored \subseteq CarIds BY DEF Stored
<1>2. IsFiniteSet(Stored) BY <1>1, FS_Subset, CatalogAssumptions
<1>3. \A id \in Stored : cars[id] \in Car BY DEF Types, Stored
<1>4. SUFFICES ASSUME NEW filter
               PROVE  /\ Matching(filter) \subseteq Stored
                      /\ IsFiniteSet(Matching(filter))
                      /\ Cardinality(Matching(filter)) \in Nat
    BY <1>1, <1>2, <1>3
<1>5. Matching(filter) \subseteq Stored BY DEF Matching
<1>6. QED BY <1>2, <1>5, FS_Subset, FS_CardinalityType

\* The parts of a scan are replaced within their sets.
LEMMA ScanType ==
    ASSUME Types, scan \in Scan, [Next]_vars PROVE scan' \in Scan
<1> USE CatalogAssumptions
<1>1. \A filter \in Filters, limit \in 1 .. MaxLimit, at \in {"find", "refused"} :
          NewScan(at, filter, limit) \in Scan
    BY ListingTypes DEF NewScan, Scan
<1>2. RepeatCall \in Scan BY DEF RepeatCall, Scan
<1>3. ASSUME NEW filter, NEW rawLimit, NEW rawOffset, StartScan(filter, rawLimit, rawOffset)
      PROVE  scan' \in Scan
    <2>1. PICK limit \in ParseQueryInt(rawLimit, DefaultLimit, 1, MaxLimit) :
              scan' = NewScan("find", filter, limit)
        BY <1>3 DEF StartScan
    <2>2. limit \in 1 .. MaxLimit BY <2>1 DEF ParseQueryInt
    <2>3. filter \in Filters BY <1>3 DEF StartScan
    <2>4. QED BY <1>1, <2>1, <2>2, <2>3
<1>4. ASSUME NEW filter, NEW rawLimit, NEW rawOffset, RefuseScan(filter, rawLimit, rawOffset)
      PROVE  scan' \in Scan
    <2>1. scan' = [NewScan("refused", "available", DefaultLimit) EXCEPT !.listed = {}]
        BY <1>4 DEF RefuseScan
    <2>2. NewScan("refused", "available", DefaultLimit) \in Scan BY <1>1 DEF Filters
    <2>3. QED BY <2>1, <2>2 DEF Scan
<1>5. ASSUME FindCars PROVE scan' \in Scan
    <2>1. PICK page \in Pages(scan.filter, scan.limit, scan.offset) :
              scan' = [scan EXCEPT !.at = "count", !.page = page]
        BY <1>5 DEF FindCars
    <2>2. page \subseteq CarIds BY <2>1, ListingTypes DEF Pages, Newest
    <2>3. QED BY <2>1, <2>2 DEF Scan
<1>6. ASSUME CountCars PROVE scan' \in Scan
    <2>1. scan' = [scan EXCEPT !.at = "answered", !.total = Cardinality(Matching(scan.filter)),
                               !.seen = scan.seen \cup scan.page]
        BY <1>6 DEF CountCars
    <2>2. Cardinality(Matching(scan.filter)) \in Nat BY ListingTypes
    <2>3. QED BY <2>1, <2>2 DEF Scan
<1>7. ASSUME NextPage PROVE scan' \in Scan
    <2>1. scan.offset + scan.limit \in Nat BY DEF Scan
    <2>2. CASE Cardinality(scan.page) = scan.limit BY <1>7, <2>1, <2>2 DEF NextPage, Scan
    <2>3. CASE Cardinality(scan.page) # scan.limit BY <1>7, <2>3 DEF NextPage, Scan
    <2>4. QED BY <2>2, <2>3
<1>8. ASSUME NEW id \in CarIds, NEW value \in BOOLEAN, UpdateCarAvailability(id, value)
      PROVE  scan' \in Scan
    BY <1>8 DEF UpdateCarAvailability, Scan
<1>9. ASSUME Failure PROVE scan' \in Scan
    BY <1>2, <1>9 DEF Failure, CommandFails, LateInsert, LostInsert, Crash, ListingFails
<1>10. ASSUME NEW w \in Workers, Create(w) PROVE scan' \in Scan
    BY <1>10 DEF Create, ReceiveCreateCar, RejectInvalidCar, InsertCar, FindCar
<1>11. QED BY <1>3, <1>4, <1>5, <1>6, <1>7, <1>8, <1>9, <1>10 DEF Next, List, vars

\* A request past its validation has an id and a car.
LEMMA RequestType ==
    ASSUME Inv, TypeOK, [Next]_vars
    PROVE  \A w \in Workers : pc'[w] # "ready" => req'[w] \in [id: CarIds, doc: Car]
<1> USE DEF Inv, TypeOK
<1>1. ASSUME NEW v \in Workers, ReceiveCreateCar(v)
      PROVE  \A w \in Workers : pc'[w] # "ready" => req'[w] \in [id: CarIds, doc: Car]
    <2>1. req'[v] \in [id: CarIds, doc: Car]
        <3>1. PICK id \in FreshIds(v), offer \in Offers, class \in Classes, created \in Stamps :
                req' = [req EXCEPT ![v] =
                           [id |-> id,
                            doc |-> [vin |-> offer[1], plate |-> offer[2], class |-> class,
                                     available |-> TRUE, created |-> created]]]
            BY <1>1 DEF ReceiveCreateCar
        <3>2. id \in CarIds /\ offer[1] \in Vins /\ offer[2] \in Plates
            BY CatalogAssumptions DEF FreshIds
        <3>3. QED BY <3>1, <3>2 DEF Car
    <2>2. \A w \in Workers \ {v} : pc'[w] = pc[w] /\ req'[w] = req[w]
        BY <1>1 DEF ReceiveCreateCar
    <2>3. QED BY <2>1, <2>2
<1>2. ASSUME NEW v \in Workers,
             RejectInvalidCar(v) \/ InsertCar(v) \/ FindCar(v) \/ CommandFails(v)
      PROVE  \A w \in Workers : pc'[w] # "ready" => req'[w] \in [id: CarIds, doc: Car]
    BY <1>2 DEF RejectInvalidCar, InsertCar, FindCar, CommandFails, Goto, Answer
<1>3. ASSUME Crash
      PROVE  \A w \in Workers : pc'[w] # "ready" => req'[w] \in [id: CarIds, doc: Car]
    BY <1>3 DEF Crash
<1>4. \/ UNCHANGED <<pc, req>> \/ Crash
      \/ \E v \in Workers : \/ ReceiveCreateCar(v) \/ RejectInvalidCar(v) \/ InsertCar(v)
                            \/ FindCar(v) \/ CommandFails(v)
    BY DEF Next, vars, Create, List, StartScan, RefuseScan, FindCars, CountCars, NextPage,
           UpdateCarAvailability, Failure, LateInsert, LostInsert, ListingFails
<1>5. QED BY <1>1, <1>2, <1>3, <1>4

\* With the invariant of CreateCar, the types are kept by every step.
LEMMA TypeAlways == Spec => [](Inv /\ TypeOK)
<1>1. Init => TypeOK
    <2>1. SUFFICES ASSUME Init PROVE TypeOK OBVIOUS
    <2>2. Types BY <2>1, InvInit DEF Inv
    <2>3. scan \in Scan
        BY <2>1, <2>2, ListingTypes, CatalogAssumptions DEF Init, NewScan, Scan, Filters
    <2>4. QED BY <2>1, <2>2, <2>3 DEF Init, TypeOK, Types
<1>2. Inv /\ Inv' /\ TypeOK /\ [Next]_vars => TypeOK'
    BY ScanType, RequestType DEF Inv, Types, TypeOK
<1>3. QED BY <1>1, <1>2, InvAlways, PTL DEF Spec

\* Every variable stays in its set, in every behaviour.
THEOREM TypeCorrect == Spec => []TypeOK
BY TypeAlways, PTL

-----------------------------------------------------------------------------
(* What a client sees of a listing it reads page by page.                  *)

\* The cars of the listing that are newer than a car.
Newer(id) == {c \in Matching(scan.filter) : cars[c].created > cars[id].created}

\* No other stored car has the created_at of this one.
Unique(id) == \A other \in Stored \ {id} : cars[other].created # cars[id].created

\* The cars that were listed when the scan began, are not in `done', and are alone
\* with their created_at.
Unmet(done) == {id \in scan.listed \ done : Unique(id)}

\* Of those, the ones a client that goes on at `offset' will not meet: they have
\* left the listing, or moved up to a place before that offset.
Lost(done, offset) ==
    {id \in Unmet(done) :
        id \in Matching(scan.filter) => Cardinality(Newer(id)) < offset}

\* As many cars may be lost as were hidden.
Few(S) == Cardinality(S) <= IF scan.filter = "available" THEN scan.hides ELSE 0

\* A client that asks for a page, again if need be, or has got it, has lost few of
\* the cars it has still to meet; when the page is the last one, few are left.
ScanInv ==
    LET met == scan.seen \cup scan.page
        next == scan.offset + Cardinality(scan.page)
    IN  /\ scan.listed \subseteq Stored
        /\ scan.at \in {"find", "count"} => Few(Lost(scan.seen, scan.offset))
        /\ scan.at \in {"count", "answered"} =>
               /\ Cardinality(scan.page) <= scan.limit
               /\ Few(Lost(met, next))
               /\ Cardinality(scan.page) < scan.limit => Few(Unmet(met))
        /\ scan.at = "answered" => scan.page \subseteq scan.seen
        /\ scan.at = "ended" => Few(Unmet(scan.seen))

\* A page that was found, and not counted yet, is still covered by its listing.
CountInv ==
    scan.at = "count" /\ scan.filter \in Classes /\ scan.page # {} =>
        scan.offset + Cardinality(scan.page) <= Cardinality(Matching(scan.filter))

-----------------------------------------------------------------------------
(* Counting.                                                               *)

\* A subset of a finite set is no larger.
LEMMA SubsetCount ==
    ASSUME NEW S, IsFiniteSet(S), NEW T, T \subseteq S
    PROVE  /\ IsFiniteSet(T) /\ Cardinality(T) \in Nat /\ Cardinality(S) \in Nat
           /\ Cardinality(T) <= Cardinality(S)
BY FS_Subset, FS_CardinalityType

\* Disjoint sets count for the sum.
LEMMA DisjointCount ==
    ASSUME NEW S, IsFiniteSet(S), NEW T, IsFiniteSet(T), S \cap T = {}
    PROVE  Cardinality(S \cup T) = Cardinality(S) + Cardinality(T)
<1>1. Cardinality(S \cap T) = 0 BY FS_EmptySet
<1>2. Cardinality(S) \in Nat /\ Cardinality(T) \in Nat BY FS_CardinalityType
<1>3. Cardinality(S \cup T) = Cardinality(S) + Cardinality(T) - Cardinality(S \cap T)
    BY FS_Union
<1>4. QED BY <1>1, <1>2, <1>3

\* A set with at most one element that another has not is larger by one at most.
LEMMA OneMoreCount ==
    ASSUME NEW S, IsFiniteSet(S), NEW T, IsFiniteSet(T),
           \A a, b \in S \ T : a = b
    PROVE  Cardinality(S) <= Cardinality(T) + 1
<1>1. Cardinality(T) \in Nat BY FS_CardinalityType
<1>2. CASE S \subseteq T BY <1>1, <1>2, SubsetCount
<1>3. CASE ~(S \subseteq T)
    <2>1. PICK x : x \in S \ T BY <1>3
    <2>2. S \subseteq T \cup {x} BY <2>1
    <2>3. IsFiniteSet(T \cup {x}) /\ Cardinality(T \cup {x}) = Cardinality(T) + 1
        BY <2>1, FS_AddElement
    <2>4. QED BY <1>1, <2>2, <2>3, SubsetCount
<1>4. QED BY <1>2, <1>3

\* The n newest of a finite set.
LEMMA NewestFacts ==
    ASSUME NEW S, IsFiniteSet(S), NEW n \in Nat, NEW T \in Newest(S, n)
    PROVE  /\ T \subseteq S /\ IsFiniteSet(T) /\ Cardinality(T) \in Nat
           /\ Cardinality(T) <= n
           /\ Cardinality(T) < n => T = S
           /\ \A t \in T, s \in S \ T : cars[t].created >= cars[s].created
<1>1. /\ T \subseteq S /\ Cardinality(T) = Smaller(n, Cardinality(S))
      /\ \A t \in T, s \in S \ T : cars[t].created >= cars[s].created
    BY DEF Newest
<1>2. /\ IsFiniteSet(T) /\ Cardinality(T) \in Nat /\ Cardinality(S) \in Nat
      /\ Cardinality(S) = Cardinality(T) => S = T
    BY <1>1, FS_Subset, FS_CardinalityType
<1>3. QED BY <1>1, <1>2 DEF Smaller

\* The cars of S that were skipped for a page: none of them, nor of the page, is
\* older than one that is left.
Skipped(S, limit, offset, page, skipped) ==
    /\ IsFiniteSet(skipped) /\ Cardinality(skipped) \in Nat
    /\ Cardinality(skipped) <= offset
    /\ Cardinality(skipped) < offset => skipped = S
    /\ Cardinality(page) < limit => skipped \cup page = S
    /\ \A t \in skipped, s \in S \ skipped : cars[t].created >= cars[s].created
    /\ \A t \in page, s \in S \ (skipped \cup page) : cars[t].created >= cars[s].created

\* A page follows the cars that were skipped for it.
LEMMA PageFacts ==
    ASSUME Types, NEW filter, NEW limit \in Nat, NEW offset \in Nat,
           NEW page \in Pages(filter, limit, offset)
    PROVE  /\ page \subseteq Matching(filter) /\ IsFiniteSet(page) /\ Cardinality(page) \in Nat
           /\ Cardinality(page) <= limit
           /\ \E skipped \in SUBSET (Matching(filter) \ page) :
                  Skipped(Matching(filter), limit, offset, page, skipped)
<1> DEFINE M == Matching(filter)
<1>1. PICK skipped \in Newest(M, offset) : page \in Newest(M \ skipped, limit)
    BY DEF Pages
<1>2. IsFiniteSet(M) BY ListingTypes
<1> HIDE DEF M
<1>3. /\ skipped \subseteq M /\ IsFiniteSet(skipped) /\ Cardinality(skipped) \in Nat
      /\ Cardinality(skipped) <= offset
      /\ Cardinality(skipped) < offset => skipped = M
      /\ \A t \in skipped, s \in M \ skipped : cars[t].created >= cars[s].created
    BY <1>1, <1>2, NewestFacts
<1>4. IsFiniteSet(M \ skipped) BY <1>2, SubsetCount
<1>5. /\ page \subseteq M \ skipped /\ IsFiniteSet(page) /\ Cardinality(page) \in Nat
      /\ Cardinality(page) <= limit
      /\ Cardinality(page) < limit => page = M \ skipped
      /\ \A t \in page, s \in (M \ skipped) \ page : cars[t].created >= cars[s].created
    BY <1>1, <1>4, NewestFacts
<1>6. skipped \in SUBSET (M \ page) BY <1>3, <1>5
<1>7. Cardinality(page) < limit => skipped \cup page = M BY <1>3, <1>5
<1>8. \A t \in page, s \in M \ (skipped \cup page) : cars[t].created >= cars[s].created
    BY <1>5
<1>9. QED BY <1>3, <1>5, <1>6, <1>7, <1>8 DEF M, Skipped

\* A page is of its listing, and no longer than asked for.
LEMMA PageType ==
    ASSUME Types, NEW filter, NEW limit \in Nat, NEW offset \in Nat,
           NEW page \in Pages(filter, limit, offset)
    PROVE  /\ page \subseteq Matching(filter) /\ IsFiniteSet(page) /\ Cardinality(page) \in Nat
           /\ Cardinality(page) <= limit
BY PageFacts

\* A page that is not empty lies within its listing, after those that were skipped.
LEMMA PageCovered ==
    ASSUME Types, NEW filter, NEW limit \in Nat, NEW offset \in Nat,
           NEW page \in Pages(filter, limit, offset), page # {}
    PROVE  offset + Cardinality(page) <= Cardinality(Matching(filter))
<1> DEFINE M == Matching(filter)
<1>1. PICK skipped \in SUBSET (M \ page) : Skipped(M, limit, offset, page, skipped)
    BY PageFacts
<1>2. page \subseteq M /\ IsFiniteSet(page) /\ Cardinality(page) \in Nat /\ IsFiniteSet(M)
    BY PageFacts, ListingTypes
<1> HIDE DEF M
<1>3. Cardinality(skipped) = offset /\ IsFiniteSet(skipped) BY <1>1, <1>2 DEF Skipped
<1>4. Cardinality(skipped \cup page) = offset + Cardinality(page)
    BY <1>1, <1>2, <1>3, DisjointCount
<1>5. skipped \cup page \subseteq M BY <1>1, <1>2
<1>6. Cardinality(skipped \cup page) <= Cardinality(M) BY <1>2, <1>5, SubsetCount
<1>7. QED BY <1>4, <1>6 DEF M

-----------------------------------------------------------------------------
(* What the steps of others do to a scan.                                  *)

\* Stored cars stay, with what listings are made of and sorted by, and the client
\* of the scan is where it was.
CarsStay ==
    /\ Stored \subseteq Stored'
    /\ \A i \in Stored : cars'[i].created = cars[i].created /\ cars'[i].class = cars[i].class
    /\ \E hides \in Nat : scan' = [scan EXCEPT !.hides = hides]

\* A car does not become unique, nor unmet again.
LEMMA UnmetShrinks ==
    ASSUME CarsStay, scan \in Scan, scan.listed \subseteq Stored, NEW done
    PROVE  Unmet(done)' \subseteq Unmet(done)
<1>1. scan'.listed = scan.listed BY DEF CarsStay, Scan
<1>2. SUFFICES ASSUME NEW id \in scan.listed, Unique(id)' PROVE Unique(id)
    BY <1>1 DEF Unmet
<1>3. QED BY <1>2 DEF Unique, CarsStay

\* Where a listing only grows, no car is newly lost.
LEMMA LostShrinks ==
    ASSUME Types, CarsStay, scan \in Scan, scan.listed \subseteq Stored,
           Matching(scan.filter) \subseteq Matching(scan.filter)',
           NEW done, NEW offset \in Nat
    PROVE  Lost(done, offset)' \subseteq Lost(done, offset)
<1>1. scan'.listed = scan.listed /\ scan'.filter = scan.filter BY DEF CarsStay, Scan
<1>2. SUFFICES ASSUME NEW id \in Lost(done, offset)' PROVE id \in Lost(done, offset)
    OBVIOUS
<1>3. id \in Unmet(done)' /\ id \in Unmet(done) BY <1>2, UnmetShrinks DEF Lost
<1>4. CASE id \notin Matching(scan.filter) BY <1>3, <1>4 DEF Lost
<1>5. CASE id \in Matching(scan.filter)
    <2>1. Newer(id) \subseteq Newer(id)'
        BY <1>1, <1>5, ListingTypes DEF Newer, CarsStay
    <2>2. IsFiniteSet(Newer(id)')
        <3>1. Newer(id)' \subseteq CarIds BY DEF Newer, Matching, Stored
        <3>2. QED BY <3>1, SubsetCount, CatalogAssumptions
    <2>3. Cardinality(Newer(id)') < offset BY <1>1, <1>2, <1>5 DEF Lost
    <2>4. Cardinality(Newer(id)) < offset
        BY <2>1, <2>2, <2>3, SubsetCount
    <2>5. QED BY <1>3, <2>4 DEF Lost
<1>6. QED BY <1>4, <1>5

\* A car that is one of the newer cars of another has fewer newer cars itself.
LEMMA NewerFewer ==
    ASSUME Types, NEW a \in Matching(scan.filter), NEW b \in Matching(scan.filter),
           cars[a].created > cars[b].created
    PROVE  /\ Cardinality(Newer(a)) \in Nat /\ Cardinality(Newer(b)) \in Nat
           /\ Cardinality(Newer(a)) < Cardinality(Newer(b))
<1> DEFINE M == Matching(scan.filter)
<1>1. /\ IsFiniteSet(M)
      /\ \A c \in M : cars[c].created \in Nat
    BY ListingTypes, CatalogAssumptions DEF Car
<1>2. Newer(a) \subseteq M /\ Newer(b) \subseteq M BY DEF Newer
<1>3. IsFiniteSet(Newer(a)) /\ IsFiniteSet(Newer(b)) BY <1>1, <1>2, SubsetCount
<1>4. a \notin Newer(a) BY <1>1 DEF Newer
<1>5. Newer(a) \cup {a} \subseteq Newer(b)
    <2>1. a \in Newer(b) BY DEF Newer
    <2>2. ASSUME NEW c \in Newer(a) PROVE c \in Newer(b)
        BY <1>1, <2>2 DEF Newer
    <2>3. QED BY <2>1, <2>2
<1>6. Cardinality(Newer(a) \cup {a}) = Cardinality(Newer(a)) + 1 BY <1>3, <1>4, FS_AddElement
<1>7. QED BY <1>3, <1>5, <1>6, SubsetCount

\* One car taken off a listing costs a client one car at most: itself, if it was
\* still to come, or else the one that moves up to the last place already passed.
LEMMA LostOneMore ==
    ASSUME Types, CarsStay, scan \in Scan, Stored' = Stored,
           scan.listed \subseteq Stored,
           NEW x, Matching(scan.filter)' = Matching(scan.filter) \ {x},
           NEW done, NEW offset \in Nat
    PROVE  Cardinality(Lost(done, offset)') <= Cardinality(Lost(done, offset)) + 1
<1> DEFINE M == Matching(scan.filter)
<1>1. scan'.listed = scan.listed /\ scan'.filter = scan.filter BY DEF CarsStay, Scan
<1>2. IsFiniteSet(M) /\ M \subseteq Stored /\ \A c \in Stored : cars[c].created \in Nat
    BY ListingTypes, CatalogAssumptions DEF Car
<1>3. IsFiniteSet(Lost(done, offset)) /\ IsFiniteSet(Lost(done, offset)')
    <2>1. IsFiniteSet(scan.listed) BY SubsetCount, CatalogAssumptions DEF Scan
    <2>2. Lost(done, offset) \subseteq scan.listed /\ Lost(done, offset)' \subseteq scan.listed
        BY <1>1 DEF Lost, Unmet
    <2>3. QED BY <2>1, <2>2, SubsetCount
<1>4. ASSUME NEW a \in Lost(done, offset)' \ Lost(done, offset)
      PROVE  /\ a \in M /\ Unique(a)
             /\ Cardinality(Newer(a)) \in Nat /\ Cardinality(Newer(a)) >= offset
             /\ a # x => /\ x \in M /\ cars[x].created > cars[a].created
                         /\ Cardinality(Newer(a)) = offset
    <2>1. a \in Unmet(done)' /\ a \in Unmet(done) BY <1>4, UnmetShrinks DEF Lost
    <2>2. a \in M /\ Unique(a) /\ ~(Cardinality(Newer(a)) < offset)
        BY <1>4, <2>1 DEF Lost, Unmet
    <2>3. IsFiniteSet(Newer(a)) /\ Cardinality(Newer(a)) \in Nat
        BY <1>2, SubsetCount DEF Newer
    <2>4. ASSUME a # x
          PROVE  /\ x \in M /\ cars[x].created > cars[a].created
                 /\ Cardinality(Newer(a)) = offset
        <3>1. Cardinality(Newer(a)') < offset BY <1>1, <1>4, <2>2, <2>4 DEF Lost
        <3>2. Newer(a)' = Newer(a) \ {x} BY <1>1, <1>2, <2>2 DEF Newer, CarsStay
        <3>3. Cardinality(Newer(a) \ {x}) =
                  IF x \in Newer(a) THEN Cardinality(Newer(a)) - 1 ELSE Cardinality(Newer(a))
            BY <2>3, FS_RemoveElement
        <3>4. x \in Newer(a) /\ Cardinality(Newer(a)) = offset
            BY <2>2, <2>3, <3>1, <3>2, <3>3
        <3>5. QED BY <3>4 DEF Newer
    <2>5. QED BY <2>2, <2>3, <2>4
<1>5. ASSUME NEW a \in Lost(done, offset)' \ Lost(done, offset),
             NEW b \in Lost(done, offset)' \ Lost(done, offset),
             a # b, cars[a].created >= cars[b].created
      PROVE  FALSE
    <2>1. a \in M /\ b \in M /\ Unique(a) BY <1>4
    <2>2. cars[a].created > cars[b].created BY <1>2, <1>5, <2>1 DEF Unique
    <2>3. Cardinality(Newer(a)) < Cardinality(Newer(b)) BY <2>1, <2>2, NewerFewer
    <2>4. Cardinality(Newer(a)) \in Nat /\ Cardinality(Newer(a)) >= offset
          /\ Cardinality(Newer(b)) \in Nat
        BY <1>4
    <2>5. b = x BY <1>4, <2>3, <2>4
    <2>6. cars[x].created > cars[a].created BY <1>4, <1>5, <2>5
    <2>7. QED BY <1>2, <2>1, <2>2, <2>5, <2>6
<1>6. \A a, b \in Lost(done, offset)' \ Lost(done, offset) : a = b
    <2>1. SUFFICES ASSUME NEW a \in Lost(done, offset)' \ Lost(done, offset),
                          NEW b \in Lost(done, offset)' \ Lost(done, offset), a # b
                   PROVE  FALSE
        OBVIOUS
    <2>2. cars[a].created \in Nat /\ cars[b].created \in Nat BY <1>2, <1>4
    <2>3. cars[a].created >= cars[b].created \/ cars[b].created >= cars[a].created BY <2>2
    <2>4. QED BY <1>5, <2>1, <2>3
<1>7. QED BY <1>3, <1>6, OneMoreCount

\* Steps that leave the client where it was leave it with few cars lost.
LEMMA ScanKept ==
    ASSUME scan \in Scan, ScanInv, CarsStay,
           \A done : Few(Unmet(done)) => Few(Unmet(done))',
           \A done : \A offset \in Nat : Few(Lost(done, offset)) => Few(Lost(done, offset))'
    PROVE  ScanInv'
<1>1. /\ scan'.at = scan.at /\ scan'.limit = scan.limit /\ scan'.offset = scan.offset
      /\ scan'.listed = scan.listed /\ scan'.seen = scan.seen /\ scan'.page = scan.page
    BY DEF CarsStay, Scan
<1>2. scan.offset \in Nat /\ scan.offset + Cardinality(scan.page) \in Nat
    BY SubsetCount, CatalogAssumptions DEF Scan
<1>3. Stored \subseteq Stored' BY DEF CarsStay
<1>4. QED BY <1>1, <1>2, <1>3 DEF ScanInv

\* Cars that are created, or released, take nothing from a scan.
LEMMA GrowKeepsScan ==
    ASSUME TypeOK, ScanInv, CountInv, CarsStay, scan' = scan,
           Matching(scan.filter) \subseteq Matching(scan.filter)'
    PROVE  ScanInv' /\ CountInv'
<1>1. Types /\ scan \in Scan /\ scan.listed \subseteq Stored BY DEF TypeOK, Types, ScanInv
<1>2. \A S, T : IsFiniteSet(S) /\ T \subseteq S /\ Few(S) => Few(T)'
    BY <1>1, SubsetCount DEF Few, Scan
<1>3. \A done : Few(Unmet(done)) => Few(Unmet(done))'
    <2>1. SUFFICES ASSUME NEW done, Few(Unmet(done)) PROVE Few(Unmet(done))' OBVIOUS
    <2>2. Unmet(done)' \subseteq Unmet(done) BY <1>1, UnmetShrinks
    <2>3. IsFiniteSet(Unmet(done)) BY <1>1, SubsetCount, CatalogAssumptions DEF Unmet, Scan
    <2>4. QED BY <2>1, <2>2, <2>3, <1>2
<1>4. \A done : \A offset \in Nat : Few(Lost(done, offset)) => Few(Lost(done, offset))'
    <2>1. SUFFICES ASSUME NEW done, NEW offset \in Nat, Few(Lost(done, offset))
                   PROVE  Few(Lost(done, offset))'
        OBVIOUS
    <2>2. Lost(done, offset)' \subseteq Lost(done, offset) BY <1>1, LostShrinks
    <2>3. IsFiniteSet(Lost(done, offset))
        BY <1>1, SubsetCount, CatalogAssumptions DEF Lost, Unmet, Scan
    <2>4. QED BY <2>1, <2>2, <2>3, <1>2
<1>5. ScanInv' BY <1>1, <1>3, <1>4, ScanKept
<1>6. CountInv'
    <2>1. Matching(scan.filter) \subseteq Matching(scan.filter)' OBVIOUS
    <2>2. IsFiniteSet(Matching(scan.filter)')
        BY SubsetCount, CatalogAssumptions DEF Matching, Stored
    <2>3. Cardinality(Matching(scan.filter)) <= Cardinality(Matching(scan.filter)')
        BY <2>1, <2>2, SubsetCount
    <2>4. /\ Cardinality(Matching(scan.filter)) \in Nat /\ Cardinality(scan.page) \in Nat
          /\ scan.offset \in Nat /\ Cardinality(Matching(scan.filter)') \in Nat
        BY <1>1, <2>2, ListingTypes, SubsetCount, CatalogAssumptions DEF Scan
    <2>5. QED BY <2>3, <2>4 DEF CountInv
<1>7. QED BY <1>5, <1>6

\* What an update of the availability does to the listings.
LEMMA AvailabilityUpdated ==
    ASSUME TypeOK, NEW id \in CarIds, NEW value \in BOOLEAN, UpdateCarAvailability(id, value)
    PROVE  /\ CarsStay /\ Stored' = Stored
           /\ \A class \in Classes : Matching(class)' = Matching(class)
           /\ value => /\ Matching("available") \subseteq Matching("available")'
                       /\ scan' = scan
           /\ ~value => /\ Matching("available")' = Matching("available") \ {id}
                        /\ scan' = [scan EXCEPT !.hides = @ + 1]
<1>1. /\ id \in Stored /\ cars' = [cars EXCEPT ![id].available = value]
      /\ scan' = [scan EXCEPT !.hides = IF value THEN @ ELSE @ + 1]
    BY DEF UpdateCarAvailability
<1>2. Types /\ scan \in Scan /\ cars[id] \in Car /\ Stored \subseteq CarIds
    BY <1>1, ListingTypes DEF TypeOK, Types
<1>3. /\ cars'[id] = [cars[id] EXCEPT !.available = value] /\ cars'[id] \in Car
      /\ \A i \in CarIds \ {id} : cars'[i] = cars[i]
    BY <1>1, <1>2 DEF Types, Car
<1>4. Stored' = Stored BY <1>1, <1>3, CatalogAssumptions DEF Stored
<1>5. \A i \in Stored : /\ cars'[i].created = cars[i].created
                        /\ cars'[i].class = cars[i].class
                        /\ cars'[i].available = IF i = id THEN value ELSE cars[i].available
    BY <1>2, <1>3 DEF Car
<1>6. CarsStay BY <1>1, <1>2, <1>4, <1>5 DEF CarsStay, Scan
<1>7. \A class \in Classes : Matching(class)' = Matching(class)
    BY <1>4, <1>5, CatalogAssumptions DEF Matching
<1>8. value => Matching("available") \subseteq Matching("available")' /\ scan' = scan
    BY <1>1, <1>2, <1>4, <1>5 DEF Matching, Scan
<1>9. ~value => /\ Matching("available")' = Matching("available") \ {id}
                /\ scan' = [scan EXCEPT !.hides = @ + 1]
    BY <1>1, <1>4, <1>5 DEF Matching
<1>10. QED BY <1>4, <1>6, <1>7, <1>8, <1>9

\* A car that a rental hides or releases.
LEMMA AvailabilityKeepsScan ==
    ASSUME TypeOK, ScanInv, CountInv, NEW id \in CarIds, NEW value \in BOOLEAN,
           UpdateCarAvailability(id, value)
    PROVE  ScanInv' /\ CountInv'
<1>1. /\ Types /\ scan \in Scan /\ scan.listed \subseteq Stored
      /\ CarsStay /\ Stored' = Stored
      /\ \A class \in Classes : Matching(class)' = Matching(class)
    BY AvailabilityUpdated DEF TypeOK, Types, ScanInv
<1>2. CASE value
    <2>1. scan' = scan /\ Matching("available") \subseteq Matching("available")'
        BY <1>2, AvailabilityUpdated
    <2>2. Matching(scan.filter) \subseteq Matching(scan.filter)'
        BY <1>1, <2>1 DEF Scan, Filters
    <2>3. QED BY <1>1, <2>1, <2>2, GrowKeepsScan
<1>3. CASE ~value
    <2>1. /\ Matching("available")' = Matching("available") \ {id}
          /\ scan' = [scan EXCEPT !.hides = @ + 1]
        BY <1>3, AvailabilityUpdated
    <2>2. /\ scan'.filter = scan.filter /\ scan'.hides = scan.hides + 1 /\ scan.hides \in Nat
          /\ scan.filter \in Classes \cup {"available"}
        BY <1>1, <2>1 DEF Scan, Filters
    <2>3. \A done : IsFiniteSet(Unmet(done)) /\ Unmet(done)' \subseteq Unmet(done)
        BY <1>1, UnmetShrinks, SubsetCount, CatalogAssumptions DEF Unmet, Scan
    <2>4. \A done : Few(Unmet(done)) => Few(Unmet(done))'
        <3>1. SUFFICES ASSUME NEW done, Few(Unmet(done)) PROVE Few(Unmet(done))' OBVIOUS
        <3>2. /\ Cardinality(Unmet(done)') <= Cardinality(Unmet(done))
              /\ Cardinality(Unmet(done)') \in Nat /\ Cardinality(Unmet(done)) \in Nat
            BY <2>3, SubsetCount
        <3>3. QED BY <2>2, <3>1, <3>2 DEF Few
    <2>5. \A done : \A offset \in Nat : Few(Lost(done, offset)) => Few(Lost(done, offset))'
        <3>1. SUFFICES ASSUME NEW done, NEW offset \in Nat, Few(Lost(done, offset))
                       PROVE  Few(Lost(done, offset))'
            OBVIOUS
        <3>2. /\ IsFiniteSet(Lost(done, offset)) /\ Cardinality(Lost(done, offset)) \in Nat
            BY <1>1, SubsetCount, CatalogAssumptions DEF Lost, Unmet, Scan
        <3>3. CASE scan.filter \in Classes
            <4>1. Lost(done, offset)' \subseteq Lost(done, offset)
                <5>1. Matching(scan.filter) \subseteq Matching(scan.filter)'
                    BY <1>1, <2>2, <3>3
                <5>2. QED BY <1>1, <5>1, LostShrinks
            <4>2. /\ Cardinality(Lost(done, offset)') <= Cardinality(Lost(done, offset))
                  /\ Cardinality(Lost(done, offset)') \in Nat
                BY <3>2, <4>1, SubsetCount
            <4>3. scan.filter # "available" BY <3>3, CatalogAssumptions
            <4>4. QED BY <2>2, <3>1, <3>2, <4>2, <4>3 DEF Few
        <3>4. CASE scan.filter = "available"
            <4>1. Matching(scan.filter)' = Matching(scan.filter) \ {id} BY <2>1, <2>2, <3>4
            <4>2. Cardinality(Lost(done, offset)') <= Cardinality(Lost(done, offset)) + 1
                BY <1>1, <4>1, LostOneMore
            <4>3. Cardinality(Lost(done, offset)') \in Nat
                <5>1. Lost(done, offset)' \subseteq scan'.listed BY DEF Lost, Unmet
                <5>2. scan'.listed \subseteq CarIds BY <1>1, <2>1 DEF Scan
                <5>3. QED BY <5>1, <5>2, SubsetCount, CatalogAssumptions
            <4>4. QED BY <2>2, <3>1, <3>2, <3>4, <4>2, <4>3 DEF Few
        <3>5. QED BY <2>2, <3>3, <3>4
    <2>6. ScanInv' BY <1>1, <2>4, <2>5, ScanKept
    <2>7. CountInv' BY <1>1, <2>1 DEF CountInv, Scan
    <2>8. QED BY <2>6, <2>7
<1>4. QED BY <1>2, <1>3

\* Commands on cars that clients create, and all that does not touch the cars.
LEMMA CreationKeepsScan ==
    ASSUME Inv, TypeOK, ScanInv, CountInv, scan' = scan,
           \/ cars' = cars
           \/ \E w \in Workers : InsertCar(w)
           \/ LateInsert
    PROVE  ScanInv' /\ CountInv'
<1>1. Types /\ scan \in Scan /\ KeysDiffer BY DEF Inv, TypeOK
<1>2. \A i \in Stored : i \in Stored' /\ cars'[i] = cars[i]
    <2>1. ASSUME cars' = cars PROVE \A i \in Stored : i \in Stored' /\ cars'[i] = cars[i]
        BY <2>1 DEF Stored
    <2>2. ASSUME NEW w \in Workers, InsertCar(w)
          PROVE  \A i \in Stored : i \in Stored' /\ cars'[i] = cars[i]
        <3>1. /\ req[w].id \in CarIds /\ req[w].doc \in Car /\ req[w].id \notin Stored
              /\ Insert(req[w].id, req[w].doc)
            BY <2>2 DEF InsertCar, Inv, PendingIsNew
        <3>2. QED BY <1>1, <3>1, InsertNew
    <2>3. ASSUME LateInsert PROVE \A i \in Stored : i \in Stored' /\ cars'[i] = cars[i]
        <3>1. PICK m \in late : Insert(m.id, m.doc) BY <2>3 DEF LateInsert
        <3>2. m.id \in CarIds /\ m.doc \in Car /\ m.id \notin Stored
            BY <1>1 DEF Inv, Types, LateIsNew
        <3>3. QED BY <1>1, <3>1, <3>2, InsertNew
    <2>4. QED BY <2>1, <2>2, <2>3
<1>3. CarsStay
    <2>1. scan' = [scan EXCEPT !.hides = scan.hides] /\ scan.hides \in Nat BY <1>1 DEF Scan
    <2>2. QED BY <1>2, <2>1 DEF CarsStay
<1>4. Matching(scan.filter) \subseteq Matching(scan.filter)' BY <1>2 DEF Matching
<1>5. QED BY <1>3, <1>4, GrowKeepsScan

-----------------------------------------------------------------------------
(* What the steps of the client do to its scan.                            *)

\* A step of the client leaves every car to it that was left.
LEMMA ClientStays ==
    ASSUME cars' = cars, scan'.listed = scan.listed, scan'.filter = scan.filter,
           scan'.hides = scan.hides
    PROVE  /\ Stored' = Stored
           /\ \A done : Few(Unmet(done)) => Few(Unmet(done))'
           /\ \A done : \A offset \in Nat : Few(Lost(done, offset)) => Few(Lost(done, offset))'
<1>1. Stored' = Stored BY DEF Stored
<1>2. \A done : Unmet(done)' = Unmet(done) BY <1>1 DEF Unmet, Unique
<1>3. \A done : \A offset \in Nat : Lost(done, offset)' = Lost(done, offset)
    <2>1. Matching(scan.filter)' = Matching(scan.filter) BY <1>1 DEF Matching
    <2>2. QED BY <1>2, <2>1 DEF Lost, Newer
<1>4. QED BY <1>1, <1>2, <1>3 DEF Few

\* A page meets the cars that were still to come at its offset: one that it has not,
\* and that is alone with its created_at, comes after it; none does if it is the last.
LEMMA PageMeets ==
    ASSUME Types, scan \in Scan,
           NEW page \in Pages(scan.filter, scan.limit, scan.offset)
    PROVE  /\ Lost(scan.seen \cup page, scan.offset + Cardinality(page))
                  \subseteq Lost(scan.seen, scan.offset)
           /\ Cardinality(page) < scan.limit =>
                  Unmet(scan.seen \cup page) \subseteq Lost(scan.seen, scan.offset)
<1> DEFINE M == Matching(scan.filter)
<1>1. scan.limit \in Nat /\ scan.offset \in Nat BY CatalogAssumptions DEF Scan
<1>2. /\ page \subseteq Matching(scan.filter)
      /\ IsFiniteSet(page) /\ Cardinality(page) \in Nat
    BY <1>1, PageType
<1>3. PICK skipped \in SUBSET (M \ page) :
          Skipped(M, scan.limit, scan.offset, page, skipped)
    BY <1>1, PageFacts
<1>4. IsFiniteSet(M) /\ M \subseteq Stored /\ \A c \in Stored : cars[c].created \in Nat
    BY ListingTypes, CatalogAssumptions DEF Car
<1>5. ASSUME NEW id \in Unmet(scan.seen \cup page), id \notin Lost(scan.seen, scan.offset)
      PROVE  /\ id \in M \ (skipped \cup page) /\ Unique(id)
             /\ Cardinality(Newer(id)) >= scan.offset + Cardinality(page)
    <2>1. id \in Unmet(scan.seen) /\ id \notin page /\ Unique(id) BY <1>5 DEF Unmet
    <2>2. id \in M /\ ~(Cardinality(Newer(id)) < scan.offset) BY <1>5, <2>1 DEF Lost
    <2>3. Newer(id) \subseteq M /\ IsFiniteSet(Newer(id)) /\ Cardinality(Newer(id)) \in Nat
        BY <1>4, SubsetCount DEF Newer
    <2>4. id \notin skipped
        <3>1. SUFFICES ASSUME id \in skipped PROVE FALSE OBVIOUS
        <3>2. Newer(id) \subseteq skipped \ {id}
            BY <1>3, <1>4, <2>2, <3>1 DEF Newer, Skipped
        <3>3. Cardinality(skipped \ {id}) = Cardinality(skipped) - 1
            BY <1>3, <3>1, FS_RemoveElement DEF Skipped
        <3>4. Cardinality(Newer(id)) <= Cardinality(skipped \ {id})
            BY <1>3, <3>2, SubsetCount DEF Skipped
        <3>5. QED BY <1>1, <1>3, <2>2, <2>3, <3>3, <3>4 DEF Skipped
    <2>5. skipped \cup page \subseteq Newer(id)
        <3>1. ASSUME NEW t \in skipped \cup page PROVE t \in Newer(id)
            <4>1. t \in M /\ t # id /\ cars[t].created >= cars[id].created
                BY <1>2, <1>3, <2>1, <2>2, <2>4 DEF Skipped
            <4>2. cars[t].created # cars[id].created BY <1>4, <2>1, <4>1 DEF Unique
            <4>3. QED BY <1>4, <2>2, <4>1, <4>2 DEF Newer
        <3>2. QED BY <3>1
    <2>6. Cardinality(skipped) = scan.offset BY <1>1, <1>3, <2>2, <2>4 DEF Skipped
    <2>7. Cardinality(skipped \cup page) = scan.offset + Cardinality(page)
        BY <1>2, <1>3, <2>6, DisjointCount DEF Skipped
    <2>8. Cardinality(skipped \cup page) <= Cardinality(Newer(id))
        BY <2>3, <2>5, SubsetCount
    <2>9. QED BY <2>1, <2>2, <2>4, <2>7, <2>8
<1>6. ASSUME NEW id \in Lost(scan.seen \cup page, scan.offset + Cardinality(page))
      PROVE  id \in Lost(scan.seen, scan.offset)
    <2>1. SUFFICES ASSUME id \notin Lost(scan.seen, scan.offset) PROVE FALSE OBVIOUS
    <2>2. id \in Unmet(scan.seen \cup page) BY <1>6 DEF Lost
    <2>3. id \in M /\ Cardinality(Newer(id)) >= scan.offset + Cardinality(page)
        BY <1>5, <2>1, <2>2
    <2>4. Cardinality(Newer(id)) \in Nat BY <1>4, SubsetCount DEF Newer
    <2>5. Cardinality(Newer(id)) < scan.offset + Cardinality(page) BY <1>6, <2>3 DEF Lost
    <2>6. QED BY <1>1, <1>2, <2>3, <2>4, <2>5
<1>7. ASSUME Cardinality(page) < scan.limit, NEW id \in Unmet(scan.seen \cup page)
      PROVE  id \in Lost(scan.seen, scan.offset)
    BY <1>3, <1>5, <1>7 DEF Skipped
<1>8. QED BY <1>6, <1>7

\* The page that a client gets.
LEMMA FindKeepsScan ==
    ASSUME TypeOK, ScanInv, FindCars PROVE ScanInv' /\ CountInv' /\ TotalCoversPage'
<1>1. Types /\ scan \in Scan /\ cars' = cars /\ scan.listed \subseteq Stored
    BY DEF TypeOK, Types, FindCars, ScanInv
<1>2. PICK page \in Pages(scan.filter, scan.limit, scan.offset) :
          scan' = [scan EXCEPT !.at = "count", !.page = page]
    BY DEF FindCars
<1>3. /\ scan'.at = "count" /\ scan'.page = page
      /\ scan'.limit = scan.limit /\ scan'.offset = scan.offset /\ scan'.filter = scan.filter
      /\ scan'.listed = scan.listed /\ scan'.seen = scan.seen /\ scan'.hides = scan.hides
      /\ scan.hides \in Nat /\ scan.limit \in Nat /\ scan.offset \in Nat
    BY <1>1, <1>2, CatalogAssumptions DEF Scan
<1>4. /\ IsFiniteSet(Lost(scan.seen, scan.offset)) /\ Few(Lost(scan.seen, scan.offset))
    BY <1>1, SubsetCount, CatalogAssumptions DEF Lost, Unmet, Scan, ScanInv, FindCars
<1>5. \A S : S \subseteq Lost(scan.seen, scan.offset) => Few(S)
    BY <1>3, <1>4, SubsetCount DEF Few
<1>6. /\ Few(Lost(scan.seen \cup page, scan.offset + Cardinality(page)))
      /\ Cardinality(page) < scan.limit => Few(Unmet(scan.seen \cup page))
    BY <1>1, <1>5, PageMeets
<1>7. Cardinality(page) \in Nat /\ Cardinality(page) <= scan.limit
    BY <1>1, <1>3, PageType
<1>8. ScanInv'
    <2>1. Few(Lost(scan.seen, scan.offset))' BY <1>1, <1>3, <1>4, ClientStays
    <2>2. Few(Lost(scan.seen \cup scan.page, scan.offset + Cardinality(scan.page)))'
        BY <1>1, <1>3, <1>6, <1>7, ClientStays
    <2>3. (Cardinality(scan.page) < scan.limit => Few(Unmet(scan.seen \cup scan.page)))'
        BY <1>1, <1>3, <1>6, ClientStays
    <2>4. (scan.listed \subseteq Stored)' BY <1>1, <1>3, ClientStays
    <2>5. QED BY <1>3, <1>7, <2>1, <2>2, <2>3, <2>4 DEF ScanInv
<1>9. CountInv'
    <2>1. Matching(scan.filter)' = Matching(scan.filter) BY <1>1, <1>3 DEF Matching, Stored
    <2>2. page # {} => scan.offset + Cardinality(page) <= Cardinality(Matching(scan.filter))
        BY <1>1, <1>3, PageCovered
    <2>3. QED BY <1>3, <2>1, <2>2 DEF CountInv
<1>10. QED BY <1>3, <1>8, <1>9 DEF TotalCoversPage

\* The total that a client gets, and the page with it.
LEMMA CountKeepsScan ==
    ASSUME TypeOK, ScanInv, CountInv, CountCars
    PROVE  ScanInv' /\ CountInv' /\ TotalCoversPage'
<1>1. /\ scan \in Scan /\ cars' = cars /\ scan.at = "count"
      /\ scan' = [scan EXCEPT !.at = "answered",
                              !.total = Cardinality(Matching(scan.filter)),
                              !.seen = scan.seen \cup scan.page]
    BY DEF TypeOK, CountCars
<1>2. /\ scan'.at = "answered" /\ scan'.seen = scan.seen \cup scan.page
      /\ scan'.total = Cardinality(Matching(scan.filter)) /\ scan'.page = scan.page
      /\ scan'.limit = scan.limit /\ scan'.offset = scan.offset /\ scan'.filter = scan.filter
      /\ scan'.listed = scan.listed /\ scan'.hides = scan.hides
    BY <1>1 DEF Scan
<1>3. scan.offset \in Nat /\ Cardinality(scan.page) \in Nat
    BY <1>1, SubsetCount, CatalogAssumptions DEF Scan
<1>4. ScanInv'
    <2>1. Few(Lost(scan.seen \cup scan.page, scan.offset + Cardinality(scan.page)))'
        <3>1. scan.seen \cup scan.page = scan'.seen \cup scan'.page BY <1>2
        <3>2. Few(Lost(scan.seen \cup scan.page, scan.offset + Cardinality(scan.page)))
            BY <1>1 DEF ScanInv
        <3>3. scan.offset + Cardinality(scan.page) \in Nat BY <1>3
        <3>4. QED BY <1>1, <1>2, <3>1, <3>2, <3>3, ClientStays
    <2>2. (Cardinality(scan.page) < scan.limit => Few(Unmet(scan.seen \cup scan.page)))'
        <3>1. scan.seen \cup scan.page = scan'.seen \cup scan'.page BY <1>2
        <3>2. Cardinality(scan.page) < scan.limit => Few(Unmet(scan.seen \cup scan.page))
            BY <1>1 DEF ScanInv
        <3>3. QED BY <1>1, <1>2, <3>1, <3>2, ClientStays
    <2>3. (scan.listed \subseteq Stored)' BY <1>1, <1>2, ClientStays DEF ScanInv
    <2>4. Cardinality(scan'.page) <= scan'.limit BY <1>1, <1>2 DEF ScanInv
    <2>5. QED BY <1>2, <2>1, <2>2, <2>3, <2>4 DEF ScanInv
<1>5. CountInv' BY <1>2 DEF CountInv
<1>6. TotalCoversPage' BY <1>1, <1>2 DEF CountInv, TotalCoversPage
<1>7. QED BY <1>4, <1>5, <1>6

\* The next page, or the end.
LEMMA NextPageKeepsScan ==
    ASSUME TypeOK, ScanInv, NextPage PROVE ScanInv' /\ CountInv' /\ TotalCoversPage'
<1>1. /\ Types /\ scan \in Scan /\ cars' = cars /\ scan.at = "answered"
      /\ scan.page \subseteq scan.seen
      /\ Few(Lost(scan.seen \cup scan.page, scan.offset + Cardinality(scan.page)))
      /\ Cardinality(scan.page) < scan.limit => Few(Unmet(scan.seen \cup scan.page))
      /\ scan.listed \subseteq Stored
    BY DEF TypeOK, Types, NextPage, ScanInv
<1>2. scan.seen \cup scan.page = scan.seen BY <1>1
<1>3. /\ scan.offset \in Nat /\ scan.limit \in Nat /\ Cardinality(scan.page) \in Nat
    BY <1>1, SubsetCount, CatalogAssumptions DEF Scan
<1>4. /\ scan'.listed = scan.listed /\ scan'.filter = scan.filter
      /\ scan'.hides = scan.hides /\ scan'.seen = scan.seen
    <2>1. CASE Cardinality(scan.page) = scan.limit BY <1>1, <2>1 DEF NextPage, Scan
    <2>2. CASE Cardinality(scan.page) # scan.limit BY <1>1, <2>2 DEF NextPage, Scan
    <2>3. QED BY <2>1, <2>2
<1>5. (scan.listed \subseteq Stored)' BY <1>1, <1>4, ClientStays
<1>6. CASE Cardinality(scan.page) = scan.limit
    <2>1. scan'.at = "find" /\ scan'.offset = scan.offset + Cardinality(scan.page)
        BY <1>1, <1>6 DEF NextPage, Scan
    <2>2. Few(Lost(scan.seen, scan.offset + Cardinality(scan.page))) BY <1>1, <1>2
    <2>3. scan.offset + Cardinality(scan.page) \in Nat BY <1>3
    <2>4. Few(Lost(scan.seen, scan.offset))' BY <1>1, <1>4, <2>1, <2>2, <2>3, ClientStays
    <2>5. QED BY <1>5, <2>1, <2>4 DEF ScanInv, CountInv, TotalCoversPage
<1>7. CASE Cardinality(scan.page) # scan.limit
    <2>1. scan'.at = "ended" BY <1>1, <1>7 DEF NextPage, Scan
    <2>2. Cardinality(scan.page) < scan.limit BY <1>1, <1>3, <1>7 DEF ScanInv
    <2>3. Few(Unmet(scan.seen)) BY <1>1, <1>2, <2>2
    <2>4. Few(Unmet(scan.seen))' BY <1>1, <1>4, <2>3, ClientStays
    <2>5. QED BY <1>5, <2>1, <2>4 DEF ScanInv, CountInv, TotalCoversPage
<1>8. QED BY <1>6, <1>7

\* A scan begins with all that is listed still to come.
LEMMA StartKeepsScan ==
    ASSUME TypeOK, NEW filter, NEW rawLimit, NEW rawOffset,
           StartScan(filter, rawLimit, rawOffset) \/ RefuseScan(filter, rawLimit, rawOffset)
    PROVE  ScanInv' /\ CountInv' /\ TotalCoversPage'
<1>1. /\ Types /\ cars' = cars /\ Stored' = Stored
    BY DEF TypeOK, Types, StartScan, RefuseScan, Stored
<1>2. CASE StartScan(filter, rawLimit, rawOffset)
    <2>1. /\ scan'.at = "find" /\ scan'.offset = 0 /\ scan'.seen = {} /\ scan'.hides = 0
          /\ scan'.listed = Matching(filter) /\ scan'.filter = filter
        BY <1>2 DEF StartScan, NewScan
    <2>2. Matching(filter)' = Matching(filter) BY <1>1 DEF Matching
    <2>3. (scan.listed \subseteq Stored)' BY <1>1, <2>1, ListingTypes
    <2>4. Lost(scan.seen, scan.offset)' = {}
        <3>1. SUFFICES ASSUME NEW id \in Lost(scan.seen, scan.offset)' PROVE FALSE OBVIOUS
        <3>2. id \in Matching(scan.filter)' BY <2>1, <2>2, <3>1 DEF Lost, Unmet
        <3>3. Cardinality(Newer(id)') < 0 BY <2>1, <3>1, <3>2 DEF Lost
        <3>4. Newer(id)' \subseteq CarIds BY DEF Newer, Matching, Stored
        <3>5. QED BY <3>3, <3>4, SubsetCount, CatalogAssumptions
    <2>5. Few(Lost(scan.seen, scan.offset))' BY <2>1, <2>4, FS_EmptySet DEF Few
    <2>6. QED BY <2>1, <2>3, <2>5 DEF ScanInv, CountInv, TotalCoversPage
<1>3. CASE RefuseScan(filter, rawLimit, rawOffset)
    <2>1. scan'.at = "refused" /\ scan'.listed = {} BY <1>3 DEF RefuseScan, NewScan
    <2>2. QED BY <2>1 DEF ScanInv, CountInv, TotalCoversPage
<1>4. QED BY <1>2, <1>3

\* A call that is repeated asks for the same page of the same scan.
LEMMA RepeatKeepsScan ==
    ASSUME Inv, TypeOK, ScanInv, CountInv, TotalCoversPage, cars' = cars, scan' = RepeatCall
    PROVE  ScanInv' /\ CountInv' /\ TotalCoversPage'
<1>1. scan \in Scan /\ scan.offset \in Nat BY DEF TypeOK, Scan
<1>2. CASE scan.at = "count"
    <2>1. /\ scan'.at = "find" /\ scan'.offset = scan.offset /\ scan'.seen = scan.seen
          /\ scan'.filter = scan.filter /\ scan'.listed = scan.listed
          /\ scan'.hides = scan.hides
        BY <1>1, <1>2 DEF RepeatCall, Scan
    <2>2. Few(Lost(scan.seen, scan.offset)) /\ scan.listed \subseteq Stored
        BY <1>2 DEF ScanInv
    <2>3. Few(Lost(scan.seen, scan.offset))' BY <1>1, <2>1, <2>2, ClientStays
    <2>4. (scan.listed \subseteq Stored)' BY <2>1, <2>2, ClientStays
    <2>5. QED BY <2>1, <2>3, <2>4 DEF ScanInv, CountInv, TotalCoversPage
<1>3. CASE scan.at # "count"
    <2>1. scan' = scan BY <1>3 DEF RepeatCall
    <2>2. TotalCoversPage' BY <2>1 DEF TotalCoversPage
    <2>3. QED BY <2>1, <2>2, CreationKeepsScan
<1>4. QED BY <1>2, <1>3

\* What has been said of listings.
ListInv == ScanInv /\ CountInv /\ TotalCoversPage

\* Every step keeps it.
LEMMA StepKeepsScan ==
    ASSUME Inv, TypeOK, ListInv, [Next]_vars PROVE ListInv'
<1> USE DEF ListInv
<1>1. ASSUME scan' = scan,
             \/ cars' = cars
             \/ \E w \in Workers : InsertCar(w)
             \/ LateInsert
      PROVE  ListInv'
    <2>1. TotalCoversPage' BY <1>1 DEF TotalCoversPage
    <2>2. QED BY <1>1, <2>1, CreationKeepsScan
<1>2. ASSUME NEW w \in Workers, Create(w) \/ CommandFails(w) PROVE ListInv'
    BY <1>1, <1>2 DEF Create, ReceiveCreateCar, RejectInvalidCar, InsertCar, FindCar, CommandFails
<1>3. ASSUME List PROVE ListInv'
    BY <1>3, StartKeepsScan, FindKeepsScan, CountKeepsScan, NextPageKeepsScan DEF List
<1>4. ASSUME NEW id \in CarIds, NEW value \in BOOLEAN, UpdateCarAvailability(id, value)
      PROVE  ListInv'
    <2>1. /\ scan'.at = scan.at /\ scan'.filter = scan.filter /\ scan'.page = scan.page
          /\ scan'.offset = scan.offset /\ scan'.total = scan.total
        BY <1>4 DEF UpdateCarAvailability, TypeOK, Scan
    <2>2. TotalCoversPage' BY <2>1 DEF TotalCoversPage
    <2>3. QED BY <1>4, <2>2, AvailabilityKeepsScan
<1>5. ASSUME LateInsert \/ LostInsert PROVE ListInv'
    BY <1>1, <1>5 DEF LateInsert, LostInsert
<1>6. ASSUME Crash \/ ListingFails PROVE ListInv'
    BY <1>6, RepeatKeepsScan DEF Crash, ListingFails
<1>7. ASSUME UNCHANGED vars PROVE ListInv' BY <1>1, <1>7 DEF vars
<1>8. QED BY <1>2, <1>3, <1>4, <1>5, <1>6, <1>7 DEF Next, Failure

\* A client that reads a listing page by page misses few cars, and is told of no
\* fewer than it has seen.
LEMMA ListInvAlways == Spec => [](TypeOK /\ ListInv)
<1>1. Init => ListInv
    BY DEF Init, NewScan, ListInv, ScanInv, CountInv, TotalCoversPage, Matching
<1>2. Inv /\ TypeOK /\ ListInv /\ [Next]_vars => ListInv' BY StepKeepsScan
<1>3. QED BY <1>1, <1>2, TypeAlways, PTL DEF Spec

\* A client that reads GET /cars page by page sees every car of a class that was
\* listed when it began, and of the available ones misses no more than rentals hid
\* meanwhile: for any number of cars, clients, pages and steps in between, through
\* failures of the driver and restarts of the process.
THEOREM PagesMissOnlyHidden == Spec => []ScanMissesOnlyHidden
<1>1. ListInv => ScanMissesOnlyHidden
    BY DEF ListInv, ScanInv, ScanMissesOnlyHidden, Missed, Unmet, Unique, Few
<1>2. QED BY <1>1, ListInvAlways, PTL

\* The total that comes with a page of a class, counted by a second command, is not
\* below the cars the pages have shown.
THEOREM TotalsCoverPages == Spec => []TotalCoversPage
BY ListInvAlways, PTL DEF ListInv

=============================================================================
