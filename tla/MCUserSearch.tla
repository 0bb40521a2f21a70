---------------------------- MODULE MCUserSearch ----------------------------
(* UserSearch with two clients who want one login, and a user from before.  *)
EXTENDS UserSearch, TLC

CONSTANTS c1, c2, i0

Rivals  == (c1 :> [login |-> 1, email |-> 1, password |-> 1])
        @@ (c2 :> [login |-> 1, email |-> 2, password |-> 2])

OneUser == [id \in UserIds |-> IF id = i0 THEN [login |-> 2, email |-> 3, password |-> 1]
                                          ELSE None]

Symmetry == Permutations(UserIds \ {i0})
=============================================================================
