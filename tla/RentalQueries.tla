--------------------------- MODULE RentalQueries ---------------------------
(***************************************************************************)
(* RentalService::GetRentalById, GetActiveRentalsByUserId and              *)
(* GetRentalHistoryByUserId, called one after the other, in any order, by  *)
(* a client on a thread of its own while RentalBooking's workers book and  *)
(* complete.  A list takes two commands, and two lists are not read at the *)
(* same time: a rental that is completed in between moves from one to the  *)
(* other.  A find is one command; the rentals of one user fit its first    *)
(* batch.                                                                  *)
(***************************************************************************)
EXTENDS RentalProperties

VARIABLES query,   \* the call the client makes, or made last, and its answer
          shown    \* history: what the client was shown, see ShownInit

queryVars == <<query, shown>>

\* Nothing the server does for another request stops or starts a query.
ASSUME QueriesAssumptions == ~Faulty

-----------------------------------------------------------------------------

RentalsOf(user) == {id \in Stored : rentals[id].user = user}

GetActiveRentalsByUserId(user) == RentalsOf(user) \cap Active

\* Mutant: the filter names one of the two final states only.
CancelledOnly(user) == {id \in RentalsOf(user) : rentals[id].status = "cancelled"}

GetRentalHistoryByUserId(user) ==
    {id \in RentalsOf(user) : rentals[id].status \in {"completed", "cancelled"}}

\* The answer of a call; `total' is the size of the list after it was moved from.
Reply(code, found) ==
    query' = [query EXCEPT !.at = "ready", !.code = code, !.found = found, !.total = 0]

\* A call and its argument, the id of a rental or of a user, and no answer yet.
NewQuery(call, at, id) ==
    [at |-> at, call |-> call, id |-> id, code |-> "none", found |-> {}, total |-> 0]

Ask ==
    /\ query.at = "ready"
    /\ \/ \E id \in RentalIds \cup {UnknownId} :
              query' = NewQuery("GetRentalById", "Find", id)
       \/ \E call \in {"GetActiveRentals", "GetRentalHistory"}, user \in UserRefs :
              query' = NewQuery(call, "UserExists", user)
    /\ UNCHANGED shown

QueryUserExists ==
    /\ query.at = "UserExists"
    /\ IF query.id \in Users THEN query' = [query EXCEPT !.at = "Find"]
                               ELSE Reply("NOT_FOUND", {})
    /\ UNCHANGED shown

FindById ==
    /\ query.at = "Find" /\ query.call = "GetRentalById"
    /\ IF query.id \in Stored
       THEN /\ Reply("OK", {query.id})
            /\ shown' = [shown EXCEPT !.completed = @ \cup ({query.id} \ Active)]
       ELSE Reply("NOT_FOUND", {}) /\ UNCHANGED shown

\* Mutant: the list is that of GetAllRentalsByUserId.
FindActiveOfAll ==
    /\ query.at = "Find" /\ query.call = "GetActiveRentals"
    /\ Reply("OK", RentalsOf(query.id))
    /\ shown' = [shown EXCEPT !.user = query.id, !.stored = RentalsOf(query.id),
                              !.active = RentalsOf(query.id)]

FindActive ==
    /\ query.at = "Find" /\ query.call = "GetActiveRentals"
    /\ Reply("OK", GetActiveRentalsByUserId(query.id))
    /\ shown' = [shown EXCEPT !.user = query.id, !.stored = RentalsOf(query.id),
                              !.active = GetActiveRentalsByUserId(query.id)]

FindHistory ==
    /\ query.at = "Find" /\ query.call = "GetRentalHistory"
    /\ Reply("OK", GetRentalHistoryByUserId(query.id))
    /\ shown' = [shown EXCEPT !.completed = @ \cup GetRentalHistoryByUserId(query.id)]

\* A command of the query raises an exception, or its answer is lost.
QueryFails ==
    /\ query.at # "ready"
    /\ Reply("INTERNAL", {})
    /\ UNCHANGED shown

-----------------------------------------------------------------------------

\* `stored' and `active': the rentals that `user' had when the client last read the
\* list of active rentals, and those that were on it; `completed': the rentals the
\* client has been shown as completed.
ShownInit == shown = [user |-> None, stored |-> {}, active |-> {}, completed |-> {}]

QueryInit ==
    /\ Init
    /\ query = NewQuery("GetRentalById", "ready", UnknownId)
    /\ ShownInit

Query == Ask \/ QueryUserExists \/ FindById \/ FindActive \/ FindHistory \/ QueryFails

QueryNext == \/ Next /\ UNCHANGED queryVars
             \/ Query /\ UNCHANGED vars

QuerySpec == QueryInit /\ [][QueryNext]_<<vars, queryVars>>

-----------------------------------------------------------------------------

Answered(call) == query.at = "ready" /\ query.call = call /\ query.code = "OK"

\* A client that reads a user's active rentals and then the history misses none that
\* was stored when it began, however many are completed meanwhile: a rental moves from
\* the first list to the second, never back.  (The other order does miss some.)
ListsMissNothing ==
    Answered("GetRentalHistory") /\ query.id = shown.user
        => shown.stored \subseteq shown.active \cup query.found

\* What a client was once shown as completed, by its id or in a history, is never again
\* on a list of active rentals, nor missing from its user's history.
CompletedForGood ==
    /\ Answered("GetActiveRentals") => query.found \cap shown.completed = {}
    /\ Answered("GetRentalHistory") =>
           {id \in shown.completed : rentals[id].user = query.id} \subseteq query.found
=============================================================================
