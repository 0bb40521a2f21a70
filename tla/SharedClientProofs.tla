------------------------- MODULE SharedClientProofs -------------------------
(***************************************************************************)
(* Replies change hands only between lookups that overlap, and once none   *)
(* of them waits any more the connection is in order again.  So a lock     *)
(* around each command is enough for what the other modules take for       *)
(* granted, whatever the number of worker threads.                         *)
(***************************************************************************)
EXTENDS SharedClient, FiniteSets, FiniteSetTheorems, TLAPS

\* A lookup that waited for its reply while no other did has got its own reply.
AloneIsAnswered ==
    \A t \in Threads \ overlapped : found[t] # None => found[t] = Reply(asked[t])

\* Every thread that waits has one command on the wire; if it waits alone, its own.
Inv ==
    /\ pc \in [Threads -> {"ready", "Send", "Read"}]
    /\ asked \in [Threads -> Logins]
    /\ DOMAIN found = Threads
    /\ wire \in Seq(Logins)
    /\ Len(wire) = Cardinality(Waiting)
    /\ \A t \in Waiting \ overlapped : Waiting = {t} /\ wire = <<asked[t]>>
    /\ \A t \in Threads : pc[t] # "ready" => found[t] = None
    /\ AloneIsAnswered

-----------------------------------------------------------------------------

\* Nobody uses the client at first.
LEMMA InvInit == Init => Inv
<1> SUFFICES ASSUME Init PROVE Inv
    OBVIOUS
<1>1. Waiting = {} BY DEF Init, Waiting
<1>2. Cardinality({}) = 0 BY FS_EmptySet
<1>3. QED BY <1>1, <1>2 DEF Init, Inv, AloneIsAnswered

\* A new lookup is on its own so far.
LEMMA AskStep ==
    ASSUME Inv, NEW t \in Threads, GetUserByLogin(t) PROVE Inv'
<1>1. Waiting' = Waiting /\ t \notin Waiting BY DEF GetUserByLogin, Inv, Waiting
<1>2. ASSUME NEW s \in Waiting' \ overlapped' PROVE Waiting' = {s} /\ wire' = <<asked'[s]>>
    BY <1>1, <1>2 DEF GetUserByLogin, Inv
<1>3. AloneIsAnswered' BY DEF GetUserByLogin, Inv, AloneIsAnswered
<1>4. Len(wire') = Cardinality(Waiting') BY <1>1 DEF GetUserByLogin, Inv
<1>5. QED BY <1>2, <1>3, <1>4 DEF GetUserByLogin, Inv

\* A command that is sent while another waits makes both overlap.
LEMMA SendStep ==
    ASSUME IsFiniteSet(Threads), Inv, NEW t \in Threads, Send(t) PROVE Inv'
<1>1. Waiting' = Waiting \cup {t} /\ t \notin Waiting BY DEF Send, Inv, Waiting
<1>2. IsFiniteSet(Waiting) BY FS_Subset DEF Waiting
<1>3. Cardinality(Waiting \cup {t}) = Cardinality(Waiting) + 1 BY <1>1, <1>2, FS_AddElement
<1>4. wire' = Append(wire, asked[t]) /\ wire' \in Seq(Logins) /\ Len(wire') = Len(wire) + 1
    <2>1. wire' = Append(wire, asked[t]) /\ asked[t] \in Logins /\ wire \in Seq(Logins)
        BY DEF Send, Inv
    <2>2. QED BY <2>1
<1>5. Len(wire') = Cardinality(Waiting') BY <1>1, <1>3, <1>4 DEF Inv
<1>6. ASSUME NEW s \in Waiting' \ overlapped' PROVE Waiting' = {s} /\ wire' = <<asked'[s]>>
    <2>1. Waiting = {} /\ s = t BY <1>1, <1>6 DEF Send
    <2>2. wire = << >> BY <2>1, FS_EmptySet DEF Inv
    <2>3. wire' = <<asked[t]>> BY <1>4, <2>2
    <2>4. QED BY <1>1, <2>1, <2>3 DEF Send
<1>7. AloneIsAnswered' BY DEF Send, Inv, AloneIsAnswered
<1>8. QED BY <1>4, <1>5, <1>6, <1>7 DEF Send, Inv

\* A reply that is read is the reader's, if it waited alone.
LEMMA ReadStep ==
    ASSUME IsFiniteSet(Threads), Inv, NEW t \in Threads, Read(t) PROVE Inv'
<1>1. Waiting' = Waiting \ {t} /\ t \in Waiting BY DEF Read, Inv, Waiting
<1>2. IsFiniteSet(Waiting) BY FS_Subset DEF Waiting
<1>3. /\ Cardinality(Waiting \ {t}) = Cardinality(Waiting) - 1
      /\ Cardinality(Waiting) \in Nat
    BY <1>1, <1>2, FS_RemoveElement, FS_CardinalityType
<1>4. Cardinality(Waiting \ {t}) \in Nat BY <1>2, FS_Subset, FS_CardinalityType
<1>5. wire # << >> BY <1>3, <1>4 DEF Inv
<1>6. wire' \in Seq(Logins) /\ Len(wire') = Len(wire) - 1 BY <1>5 DEF Read, Inv
<1>7. Len(wire') = Cardinality(Waiting') BY <1>1, <1>3, <1>6 DEF Inv
<1>8. ASSUME NEW s \in Waiting' \ overlapped' PROVE FALSE BY <1>1, <1>8 DEF Read, Inv
<1>9. t \notin overlapped => found'[t] = Reply(asked[t])
    <2>1. SUFFICES ASSUME t \notin overlapped PROVE wire = <<asked[t]>>
        BY DEF Read, Inv
    <2>2. QED BY <1>1, <2>1 DEF Inv
<1>10. AloneIsAnswered' BY <1>9 DEF Read, Inv, AloneIsAnswered
<1>11. QED BY <1>6, <1>7, <1>8, <1>10 DEF Read, Inv

\* Whatever the number of worker threads, only lookups that overlap get each other's
\* replies, and those that come after them their own again.
THEOREM OnlyOverlapsExchange ==
    ASSUME IsFiniteSet(Threads) PROVE Spec => []AloneIsAnswered
<1>1. ASSUME Inv, [Next]_clientVars PROVE Inv'
    <2>1. CASE UNCHANGED clientVars
        BY <1>1, <2>1 DEF clientVars, Inv, AloneIsAnswered, Waiting
    <2>2. CASE Next BY <1>1, <2>2, AskStep, SendStep, ReadStep DEF Next
    <2>3. QED BY <1>1, <2>1, <2>2
<1>2. Inv => AloneIsAnswered BY DEF Inv
<1>3. QED BY <1>1, <1>2, InvInit, PTL DEF Spec
=============================================================================
