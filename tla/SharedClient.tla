---------------------------- MODULE SharedClient ----------------------------
(***************************************************************************)
(* The connection under MongoStorage: one mongocxx::client for the whole   *)
(* process, made by MongoStorageComponent and used by the handlers of all  *)
(* worker threads without a lock.  A mongocxx::client must not be used by  *)
(* two threads at a time: it has one socket, MongoDB answers the commands  *)
(* that come over a socket in their order, and a thread takes the next     *)
(* reply for its own.  Of what may come of such a use (a torn message, a   *)
(* dead process) this module has only that replies change hands.           *)
(*                                                                         *)
(* The command is the find_one of GetUserByLogin.  The other modules take  *)
(* it that every command gets its own reply, as it does if this is so.     *)
(***************************************************************************)
EXTENDS Sequences

CONSTANTS Threads,    \* worker threads of the task processor
          Logins,     \* logins requests ask for
          Registered, \* those that a user has
          NotFound, None

VARIABLES pc, asked, found,
          wire,       \* commands sent, whose replies nobody has read
          overlapped  \* history: threads whose lookup, the one in progress or the last,
                      \* awaited its reply while another lookup did

clientVars == <<pc, asked, found, wire, overlapped>>

Waiting == {t \in Threads : pc[t] = "Read"}

GetUserByLogin(t) ==
    /\ pc[t] = "ready"
    /\ \E login \in Logins : asked' = [asked EXCEPT ![t] = login]
    /\ pc' = [pc EXCEPT ![t] = "Send"]
    /\ found' = [found EXCEPT ![t] = None]
    /\ overlapped' = overlapped \ {t}
    /\ UNCHANGED wire

Send(t) ==
    /\ pc[t] = "Send"
    /\ wire' = Append(wire, asked[t])
    /\ pc' = [pc EXCEPT ![t] = "Read"]
    /\ overlapped' = IF Waiting = {} THEN overlapped ELSE overlapped \cup Waiting \cup {t}
    /\ UNCHANGED <<asked, found>>

\* What MongoDB replies to the query for a login.
Reply(login) == IF login \in Registered THEN login ELSE NotFound

Read(t) ==
    /\ pc[t] = "Read"
    /\ found' = [found EXCEPT ![t] = Reply(Head(wire))]
    /\ wire' = Tail(wire)
    /\ pc' = [pc EXCEPT ![t] = "ready"]
    /\ UNCHANGED <<asked, overlapped>>

Init ==
    /\ pc = [t \in Threads |-> "ready"]
    /\ asked \in [Threads -> Logins]
    /\ found = [t \in Threads |-> None]
    /\ wire = << >>
    /\ overlapped = {}

Next == \E t \in Threads : GetUserByLogin(t) \/ Send(t) \/ Read(t)

Spec == Init /\ [][Next]_clientVars

\* Each request is answered with the user it asks for: GET /users/by-login/{login} of a
\* registered login is answered with that login (test_basic.py:207-215).
FoundIsAsked == \A t \in Threads : found[t] # None => found[t] = Reply(asked[t])
=============================================================================
