------------------------ MODULE RentalQueriesProofs ------------------------
(***************************************************************************)
(* What a client may conclude from the lists it reads, for any number of   *)
(* workers and rentals: stored rentals are permanent (RentalBookingProofs) *)
(* and only ever move from the active list to the history.                 *)
(***************************************************************************)
EXTENDS RentalQueries, RentalBookingProofs

QueryType ==
    /\ query \in [at: {"ready", "UserExists", "Find"},
                  call: {"GetRentalById", "GetActiveRentals", "GetRentalHistory"},
                  id: UserRefs \cup RentalIds,
                  code: {"none", "OK", "NOT_FOUND", "INTERNAL"},
                  found: SUBSET RentalIds, total: {0}]
    /\ shown \in [user: UserRefs \cup RentalIds \cup {None}, stored: SUBSET RentalIds,
                  active: SUBSET RentalIds, completed: SUBSET RentalIds]

\* What the client was shown, compared with what is stored now.
ShownInv ==
    /\ \A id \in shown.stored : /\ id \in Stored
                                /\ rentals[id].user = shown.user
                                /\ id \in shown.active \/ id \notin Active
    /\ shown.completed \subseteq Stored \ Active

QueryInv == QueryType /\ ShownInv /\ ListsMissNothing /\ CompletedForGood

-----------------------------------------------------------------------------

\* A stored rental that is not active is in its user's history.
LEMMA FinishedIsHistory ==
    ASSUME TypeOK, NEW id \in Stored \ Active
    PROVE  id \in GetRentalHistoryByUserId(rentals[id].user)
BY DEF TypeOK, Stored, Active, Rental, GetRentalHistoryByUserId, RentalsOf

\* What clients were shown stays true whatever the workers do.
LEMMA BookingKeepsQueryInv ==
    ASSUME TypeOK, TypeOK', QueryInv, Permanent, UNCHANGED queryVars PROVE QueryInv'
<1> USE DEF QueryInv, queryVars
<1>1. \A id \in Stored : /\ id \in Stored' /\ rentals'[id].user = rentals[id].user
                         /\ id \in Active' => id \in Active
    <2>1. SUFFICES ASSUME NEW id \in Stored
                   PROVE  /\ id \in Stored' /\ rentals'[id].user = rentals[id].user
                          /\ id \in Active' => id \in Active
        OBVIOUS
    <2>2. rentals[id] \in Rental /\ id \in RentalIds BY StoredType
    <2>3. CASE rentals'[id] = rentals[id] BY <2>3 DEF Stored, Active
    <2>4. CASE rentals'[id] = [rentals[id] EXCEPT !.status = "completed"]
        <3>1. [rentals[id] EXCEPT !.status = "completed"] \in Rental BY <2>2 DEF Rental
        <3>2. /\ rentals'[id] # None /\ rentals'[id].user = rentals[id].user
              /\ rentals'[id].status # "active"
            BY <2>2, <2>4, <3>1, BookingAssumptions DEF Rental
        <3>3. QED BY <2>2, <3>2 DEF Stored, Active
    <2>5. QED BY <2>3, <2>4 DEF Permanent
<1>2. QueryType' BY DEF QueryType
<1>3. ShownInv' BY <1>1 DEF ShownInv
<1>4. ListsMissNothing' BY DEF ListsMissNothing, Answered
<1>5. CompletedForGood' BY <1>1 DEF CompletedForGood, Answered, ShownInv
<1>6. QED BY <1>2, <1>3, <1>4, <1>5

\* A call begins, or goes on without a list.
LEMMA NoListKeepsQueryInv ==
    ASSUME TypeOK, QueryInv, UNCHANGED vars, Ask \/ QueryUserExists \/ QueryFails PROVE QueryInv'
<1> USE DEF QueryInv, QueryType
<1>1. CASE Ask
    <2>1. shown' = shown /\ query' \in
              [at: {"UserExists", "Find"},
               call: {"GetRentalById", "GetActiveRentals", "GetRentalHistory"},
               id: UserRefs \cup RentalIds, code: {"none"}, found: {{}}, total: {0}]
        BY <1>1 DEF Ask, NewQuery, UserRefs
    <2>2. QED BY <2>1 DEF vars, ShownInv, Stored, Active, ListsMissNothing, CompletedForGood,
                          Answered
<1>2. CASE QueryUserExists \/ QueryFails
    <2>1. /\ shown' = shown
          /\ query' = [query EXCEPT !.at = "Find"]
             \/ \E code \in {"NOT_FOUND", "INTERNAL"} : Reply(code, {})
        BY <1>2 DEF QueryUserExists, QueryFails
    <2>2. /\ shown' = shown
          /\ query'.at = "Find" \/ query'.code \in {"NOT_FOUND", "INTERNAL"}
        BY <2>1 DEF Reply
    <2>3. QueryType' BY <2>1 DEF Reply
    <2>4. QED BY <2>1, <2>2, <2>3 DEF vars, ShownInv, Stored, Active, ListsMissNothing,
                                 CompletedForGood, Answered
<1>3. QED BY <1>1, <1>2

\* The three finds that are answered OK, or NOT_FOUND.
LEMMA FindKeepsQueryInv ==
    ASSUME TypeOK, QueryInv, UNCHANGED vars, FindById \/ FindActive \/ FindHistory PROVE QueryInv'
<1> USE DEF QueryInv
<1>1. Stored' = Stored /\ Active' = Active /\ rentals' = rentals BY DEF vars, Stored, Active
<1>2. Stored \subseteq RentalIds /\ Active \subseteq Stored BY DEF Stored, Active
<1>3. CASE FindById
    <2>1. /\ query'.call = "GetRentalById"
          /\ shown' = shown \/ /\ query.id \in Stored
                               /\ shown' = [shown EXCEPT !.completed = @ \cup ({query.id} \ Active)]
        BY <1>3 DEF FindById, Reply, QueryType
    <2>2. QueryType'
        <3>1. \E code \in {"OK", "NOT_FOUND"}, found \in SUBSET RentalIds : Reply(code, found)
            BY <1>2, <1>3 DEF FindById
        <3>2. PICK code \in {"OK", "NOT_FOUND"}, found \in SUBSET RentalIds :
                  query' = [query EXCEPT !.at = "ready", !.code = code, !.found = found,
                                         !.total = 0]
            BY <3>1 DEF Reply
        <3>3. shown.completed \cup ({query.id} \ Active) \in SUBSET RentalIds
                  \/ query.id \notin Stored
            BY <1>2 DEF QueryType
        <3>4. PICK done \in SUBSET RentalIds :
                  shown' = shown \/ shown' = [shown EXCEPT !.completed = done]
            BY <2>1, <3>3 DEF QueryType
        <3>5. QED BY <3>2, <3>4 DEF QueryType
    <2>3. ShownInv' BY <1>1, <2>1 DEF ShownInv, QueryType
    <2>4. QED BY <2>1, <2>2, <2>3 DEF ListsMissNothing, CompletedForGood, Answered
<1>4. CASE FindActive
    <2> DEFINE list == GetActiveRentalsByUserId(query.id)
    <2>1. list \subseteq Active /\ list \subseteq RentalIds
        BY <1>2 DEF GetActiveRentalsByUserId
    <2>2. /\ query' = [query EXCEPT !.at = "ready", !.code = "OK", !.found = list, !.total = 0]
          /\ shown' = [shown EXCEPT !.user = query.id, !.stored = RentalsOf(query.id),
                                    !.active = list]
          /\ query.call = "GetActiveRentals"
        BY <1>4 DEF FindActive, Reply
    <2> HIDE DEF list
    <2>3. QueryType'
        <3>1. RentalsOf(query.id) \subseteq RentalIds BY <1>2 DEF RentalsOf
        <3>2. QED BY <2>1, <2>2, <3>1 DEF QueryType
    <2>4. ShownInv'
        <3>1. /\ shown'.user = query.id /\ shown'.stored = RentalsOf(query.id)
              /\ shown'.active = list /\ shown'.completed = shown.completed
            BY <2>2 DEF QueryType
        <3>2. \A id \in RentalsOf(query.id) : id \in list \/ id \notin Active
            BY DEF list, GetActiveRentalsByUserId
        <3>3. \A id \in RentalsOf(query.id) : id \in Stored /\ rentals[id].user = query.id
            BY DEF RentalsOf
        <3>4. QED BY <1>1, <3>1, <3>2, <3>3 DEF ShownInv
    <2>5. query'.call = "GetActiveRentals" /\ query'.found = list
          /\ shown'.completed = shown.completed
        BY <2>2 DEF QueryType
    <2>6. list \cap shown.completed = {} BY <2>1 DEF ShownInv
    <2>7. QED BY <2>3, <2>4, <2>5, <2>6 DEF ListsMissNothing, CompletedForGood, Answered
<1>5. CASE FindHistory
    <2> DEFINE list == GetRentalHistoryByUserId(query.id)
    <2>1. list \subseteq Stored \ Active /\ list \subseteq RentalIds
        BY <1>2 DEF GetRentalHistoryByUserId, RentalsOf, Active
    <2>2. \A id \in Stored \ Active : rentals[id].user = query.id => id \in list
        BY FinishedIsHistory
    <2>3. /\ query' = [query EXCEPT !.at = "ready", !.code = "OK", !.found = list, !.total = 0]
          /\ shown' = [shown EXCEPT !.completed = @ \cup list]
          /\ query.call = "GetRentalHistory"
        BY <1>5 DEF FindHistory, Reply
    <2> HIDE DEF list
    <2>4. QueryType' BY <2>1, <2>3 DEF QueryType
    <2>5. /\ query'.call = "GetRentalHistory" /\ query'.id = query.id /\ query'.found = list
          /\ shown'.user = shown.user /\ shown'.stored = shown.stored
          /\ shown'.active = shown.active /\ shown'.completed = shown.completed \cup list
        BY <2>3 DEF QueryType
    <2>6. ShownInv' BY <1>1, <2>1, <2>5 DEF ShownInv
    <2>7. ListsMissNothing' BY <2>2, <2>5 DEF ListsMissNothing, ShownInv
    <2>8. CompletedForGood' BY <1>1, <2>2, <2>5 DEF CompletedForGood, ShownInv, Answered
    <2>9. QED BY <2>4, <2>6, <2>7, <2>8
<1>6. QED BY <1>3, <1>4, <1>5

\* The workers' invariant, and the client's.
LEMMA QueryInvAlways == QuerySpec => []QueryInv
<1>1. QueryInit => Init /\ QueryInv
    BY DEF QueryInit, QueryInv, QueryType, NewQuery, UserRefs, ShownInit, ShownInv,
           ListsMissNothing, CompletedForGood, Answered
<1>2. [QueryNext]_<<vars, queryVars>> => [Next]_vars
    BY DEF QueryNext, Query, vars
<1>3. ASSUME Inv, QueryInv, [QueryNext]_<<vars, queryVars>> PROVE QueryInv'
    <2>1. TypeOK /\ Permanent /\ TypeOK'
        BY <1>2, <1>3, StepIsPermanent, InvStep DEF Inv, Shape
    <2>2. CASE UNCHANGED queryVars BY <1>3, <2>1, <2>2, BookingKeepsQueryInv
    <2>3. CASE Query /\ UNCHANGED vars
        BY <1>3, <2>1, <2>3, NoListKeepsQueryInv, FindKeepsQueryInv DEF Query
    <2>4. QED BY <1>3, <2>2, <2>3 DEF QueryNext
<1>4. QED BY <1>1, <1>2, <1>3, InvAlways, PTL DEF QuerySpec, SafetySpec

\* A client that reads the active rentals of a user, then the history, misses none.
THEOREM NoRentalIsMissed == QuerySpec => []ListsMissNothing
<1>1. QueryInv => ListsMissNothing BY DEF QueryInv
<1>2. QED BY <1>1, QueryInvAlways, PTL

\* A rental shown as completed stays in the history and out of the active list.
THEOREM CompletedStaysCompleted == QuerySpec => []CompletedForGood
<1>1. QueryInv => CompletedForGood BY DEF QueryInv
<1>2. QED BY <1>1, QueryInvAlways, PTL
=============================================================================
