------------------------------ MODULE Registry ------------------------------
(***************************************************************************)
(* What a collection guarded by unique indexes promises those who create   *)
(* documents in it, with no requests, commands or failures in sight: a     *)
(* document is entered in one step, only where no other one has its key,   *)
(* and stays as it was entered.  Accounts implements it with the users,    *)
(* CarCatalog with the cars less their field `available'.                  *)
(***************************************************************************)
CONSTANTS Ids,           \* _id values of the collection
          Docs,          \* documents
          Conflict(_, _),\* whether two documents agree in a unique key
          Initial,       \* the collection at the start
          None           \* what the collection holds for an unused _id

VARIABLE entries         \* the collection: _id |-> document, or None

Entered == {id \in Ids : entries[id] # None}

Init == entries = Initial

Enter(id, doc) ==
    /\ entries[id] = None
    /\ \A other \in Entered : ~Conflict(entries[other], doc)
    /\ entries' = [entries EXCEPT ![id] = doc]

\* The document is named by its place in the next state, not enumerated: Next is
\* there to be implemented.
Next == \E id \in Ids : entries'[id] \in Docs /\ Enter(id, entries'[id])

Spec == Init /\ [][Next]_entries
=============================================================================
