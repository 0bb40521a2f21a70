----------------------------- MODULE UserSearch -----------------------------
(***************************************************************************)
(* UserService::SearchUsers, called by a client who reads the users that   *)
(* match a mask page by page, while Accounts' clients register more.  Each *)
(* call reads all matching users anew and cuts the page out of them.       *)
(*                                                                         *)
(* No index has the names, so MongoDB finds the users in the order they    *)
(* were stored.  The page's bounds are ints: IntMax stands for 2^31 - 1.   *)
(***************************************************************************)
EXTENDS Accounts, FiniteSets

CONSTANTS Matching,  \* logins of the users whose first or last name has the mask
          Limits,    \* the limits a client may choose
          IntMax

VARIABLES order,     \* how many users there were when a user was stored, with it
          scan       \* the client's progress

searchVars == <<order, scan>>

Search == [at: {"ready", "search", "failed"}, limit: Limits \cup {1}, offset: Nat,
           met: SUBSET UserIds,      \* history: the users on the pages so far,
           expected: SUBSET UserIds] \* and those that matched when it began

ASSUME SearchAssumptions ==
    /\ IsFiniteSet(UserIds)
    /\ IntMax \in Nat \ {0} /\ Limits \subseteq 1 .. IntMax

-----------------------------------------------------------------------------

\* MongoStorage::SearchUsers, as a set; First says how it is ordered.
Found == {id \in Stored : users[id].login \in Matching}

Smaller(m, n) == IF m <= n THEN m ELSE n

\* Mutant: the users come newest first.
Last(S, n) ==
    {T \in SUBSET S : /\ Cardinality(T) = Smaller(n, Cardinality(S))
                      /\ \A t \in T, s \in S \ T : order[t] > order[s]}

\* The n first users of S.
First(S, n) ==
    {T \in SUBSET S : /\ Cardinality(T) = Smaller(n, Cardinality(S))
                      /\ \A t \in T, s \in S \ T : order[t] < order[s]}

\* Mutant: an offset at the end is not told from one before it.
BeyondLast(offset) == offset > Cardinality(Found)

\* The page begins at or after the end of the list.
BeyondEnd(offset) == offset >= Cardinality(Found)

\* offset + limit does not fit an int; the wrapped sum is negative, and the vector
\* that would end there is not constructed: std::length_error leaves the service.
Overflows(offset, limit) == offset + limit > IntMax

\* The page ends at std::min(offset + limit, total).
Pages(offset, limit) ==
    UNION {First(Found \ skipped, limit) : skipped \in First(Found, offset)}

-----------------------------------------------------------------------------

\* The client: what it has read so far, and who was there when it began.
NewSearch(at, limit, expected) ==
    [at |-> at, limit |-> limit, offset |-> 0, met |-> {}, expected |-> expected]

StartSearch ==
    /\ scan.at = "ready"
    /\ \E limit \in Limits : scan' = NewSearch("search", limit, Found)
    /\ UNCHANGED order

\* It goes on where its last page ended, until a page is empty.
SearchUsers ==
    /\ scan.at = "search"
    /\ \/ /\ BeyondEnd(scan.offset)
          /\ scan' = [scan EXCEPT !.at = "ready"]
       \/ /\ ~BeyondEnd(scan.offset) /\ Overflows(scan.offset, scan.limit)
          /\ scan' = [scan EXCEPT !.at = "failed"]
       \/ /\ ~BeyondEnd(scan.offset) /\ ~Overflows(scan.offset, scan.limit)
          /\ \E page \in Pages(scan.offset, scan.limit) :
                 scan' = [scan EXCEPT !.offset = @ + Cardinality(page), !.met = @ \cup page]
    /\ UNCHANGED order

-----------------------------------------------------------------------------

SearchInit ==
    /\ Init
    /\ order \in [UserIds -> 0 .. Cardinality(Stored)]
    /\ \A id \in UserIds : id \in Stored <=> order[id] # 0
    /\ \A i, j \in Stored : order[i] = order[j] => i = j
    /\ scan = NewSearch("ready", 1, {})

\* A user that is stored comes after those that were.
Accounted ==
    /\ Next
    /\ order' = [id \in UserIds |-> IF id \in Stored' \ Stored THEN Cardinality(Stored')
                                                               ELSE order[id]]
    /\ UNCHANGED scan

SearchNext == Accounted \/ ((StartSearch \/ SearchUsers) /\ UNCHANGED vars)

SearchSpec == SearchInit /\ [][SearchNext]_<<vars, searchVars>>

-----------------------------------------------------------------------------

\* A client who reads on until a page is empty has read every user that matched when
\* it began, and no user twice (it would have met fewer than were on its pages),
\* although the list is read anew for each page.
SearchMeetsEveryoneOnce ==
    /\ Cardinality(scan.met) = scan.offset
    /\ scan.at = "ready" => scan.expected \subseteq scan.met

\* A search with the largest limit, to read everyone at once, fails only when a user
\* has registered since its first page: the sum of offset and limit overflows then.
SearchFailsOnlyIfGrown ==
    scan.at = "failed" => Cardinality(Found) > Cardinality(scan.expected)
=============================================================================
