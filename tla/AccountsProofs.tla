--------------------------- MODULE AccountsProofs ---------------------------
(***************************************************************************)
(* What the run of Accounts and UserSearch checks, for any number of       *)
(* clients and accounts, with failures.                                    *)
(***************************************************************************)
EXTENDS UserSearch, FiniteSetTheorems, TLAPS

\* The answer to a request comes with its last command.
Sequence(c) ==
    /\ pc[c] # "ready" => answer[c] = "none"
    /\ pc[c] \in {"InsertUser", "FindUser"} => req[c].op = "create"
    /\ pc[c] = "Login" => req[c].op = "login"
    /\ pc[c] = "GetUserByLogin" => req[c].op = "lookup"

\* An insert that is about to be executed is of an id of its own.
Pending(c) ==
    pc[c] = "InsertUser" =>
        req[c].id \notin Stored /\ \A m \in late : m.id # req[c].id

\* What the answers to a creation were given for.
Created(c) ==
    /\ pc[c] = "FindUser" \/ (req[c].op = "create" /\ answer[c] = "OK") =>
           req[c].id \in Stored /\ users[req[c].id] = Account[c]
    /\ req[c].op = "create" /\ answer[c] = "CONFLICT" =>
           Duplicates(Account[c]) \ {req[c].id} # {}
    /\ c \in registered => Duplicates(Account[c]) # {}

\* RegisteredIsKnown, of one client.
Known(c) ==
    /\ c \in registered
    /\ answer[c] \in {"NOT_FOUND", "INVALID_CREDENTIALS"}
    /\ req[c].login = Account[c].login
    /\ req[c].op = "login" => req[c].password = Account[c].password
    => \E id \in Stored : SameKey(users[id], Account[c]) /\ users[id] # Account[c]

\* TokenMatchesPassword, of one client.
Granted(c) ==
    req[c].op = "login" /\ answer[c] = "OK" =>
        /\ token[c] \in Stored
        /\ users[token[c]].login = req[c].login
        /\ users[token[c]].password = req[c].password

ClientInv(c) == Sequence(c) /\ Pending(c) /\ Created(c) /\ Known(c) /\ Granted(c)

\* Requests do not share ids.
IdsDiffer == \A c, d \in Clients : c # d /\ req[c].id = req[d].id => req[c].id = None

\* A late insert is of an id of its own.
LateIsNew == \A m \in late : m.id \notin Stored /\ \A n \in late : n.id = m.id => n = m

Inv == TypeOK /\ IdsDiffer /\ LateIsNew /\ \A c \in Clients : ClientInv(c)

-----------------------------------------------------------------------------

\* Nobody has been told anything at first.
LEMMA InvInit == Init => Inv
<1> SUFFICES ASSUME Init PROVE Inv OBVIOUS
<1> USE AccountsAssumptions
<1>1. TypeOK BY DEF Init, Malformed, TypeOK, Requests, Answers
<1>2. IdsDiffer /\ LateIsNew BY DEF Init, Malformed, IdsDiffer, LateIsNew
<1>3. ASSUME NEW c \in Clients PROVE ClientInv(c)
    BY DEF Init, Malformed, ClientInv, Sequence, Pending, Created, Known, Granted
<1>4. QED BY <1>1, <1>2, <1>3 DEF Inv

\* The collection only grows.
Grows == \A i \in Stored : i \in Stored' /\ users'[i] = users[i]

\* What an insert of a new id does to the collection.
LEMMA InsertNew ==
    ASSUME TypeOK, NEW id \in UserIds, NEW doc \in User, id \notin Stored, Insert(id, doc)
    PROVE  /\ users' \in [UserIds -> User \cup {None}]
           /\ Grows
           /\ \A i \in Stored' : i = id \/ i \in Stored
           /\ Duplicates(doc) = {} => id \in Stored' /\ users'[id] = doc
<1> USE AccountsAssumptions
<1>1. CASE Duplicates(doc) # {}
    <2>1. users' = users BY <1>1 DEF Insert
    <2>2. QED BY <1>1, <2>1 DEF TypeOK, Grows, Stored
<1>2. CASE Duplicates(doc) = {}
    <2>1. users' = [users EXCEPT ![id] = doc] BY <1>2 DEF Insert
    <2>2. users' \in [UserIds -> User \cup {None}] /\ doc # None BY <2>1 DEF TypeOK
    <2>3. \A i \in UserIds : users'[i] = IF i = id THEN doc ELSE users[i] BY <2>1 DEF TypeOK
    <2>4. QED BY <2>2, <2>3 DEF Grows, Stored
<1>3. QED BY <1>1, <1>2

\* A document that had duplicates keeps them.
LEMMA DuplicatesGrow ==
    ASSUME Grows, NEW doc PROVE Duplicates(doc) \subseteq Duplicates(doc)'
    BY DEF Grows, Duplicates

\* What a client was told stays true while the collection grows around it.
LEMMA ClientKept ==
    ASSUME Grows, NEW c \in Clients, ClientInv(c),
           pc'[c] = pc[c], req'[c] = req[c], answer'[c] = answer[c], token'[c] = token[c],
           c \in registered' <=> c \in registered,
           pc[c] = "InsertUser" =>
               req[c].id \notin Stored' /\ \A m \in late' : m.id # req[c].id
    PROVE  ClientInv(c)'
<1>1. Sequence(c)' BY DEF ClientInv, Sequence
<1>2. Pending(c)' BY DEF Pending
<1>3. Created(c)' BY DuplicatesGrow DEF ClientInv, Created, Grows
<1>4. Known(c)' BY DEF ClientInv, Known, Grows
<1>5. Granted(c)' BY DEF ClientInv, Granted, Grows
<1>6. QED BY <1>1, <1>2, <1>3, <1>4, <1>5 DEF ClientInv

-----------------------------------------------------------------------------
(* Steps of a client: what they leave alone, and what they do to it.       *)

\* The other clients are as before, if the collection and the late inserts are.
LEMMA OthersKept ==
    ASSUME Inv, NEW c \in Clients, users' = users, late' = late,
           \A d \in Clients \ {c} :
               /\ pc'[d] = pc[d] /\ req'[d] = req[d] /\ answer'[d] = answer[d]
               /\ token'[d] = token[d] /\ (d \in registered' <=> d \in registered)
    PROVE  LateIsNew' /\ \A d \in Clients \ {c} : ClientInv(d)'
<1>1. Stored' = Stored /\ Grows BY DEF Stored, Grows
<1>2. LateIsNew' BY <1>1 DEF Inv, LateIsNew
<1>3. QED BY <1>1, <1>2, ClientKept DEF Inv, ClientInv, Pending

\* A request begins; its client has no answer to it yet.
LEMMA ReceiveKeepsInv ==
    ASSUME Inv, NEW c \in Clients, NEW request \in Requests, NEW first, Receive(c, request, first),
           \/ /\ first = "InsertUser" /\ request.op = "create" /\ request.id \in FreshIds(c)
           \/ first = "Login" /\ request.op = "login" /\ request.id = None
           \/ first = "GetUserByLogin" /\ request.op = "lookup" /\ request.id = None
    PROVE  Inv'
<1> USE DEF Inv
<1>1. /\ pc' = [pc EXCEPT ![c] = first] /\ req' = [req EXCEPT ![c] = request]
      /\ answer' = [answer EXCEPT ![c] = "none"]
      /\ users' = users /\ late' = late /\ token' = token /\ registered' = registered
    BY DEF Receive
<1>2. pc'[c] = first /\ req'[c] = request /\ answer'[c] = "none" BY <1>1 DEF TypeOK
<1>3. \A d \in Clients \ {c} : pc'[d] = pc[d] /\ req'[d] = req[d] /\ answer'[d] = answer[d]
    BY <1>1 DEF TypeOK
<1>4. TypeOK'
    <2>1. first = "InsertUser" => request.id \in UserIds BY DEF FreshIds
    <2>2. QED BY <1>1, <1>2, <1>3, <2>1 DEF TypeOK, Answers
<1>5. IdsDiffer' BY <1>2, <1>3 DEF IdsDiffer, FreshIds
<1>6. LateIsNew' /\ \A d \in Clients \ {c} : ClientInv(d)' BY <1>1, <1>3, OthersKept
<1>7. Stored' = Stored BY <1>1 DEF Stored
<1>8. ClientInv(c)'
    <2>1. Sequence(c)' BY <1>2 DEF Sequence
    <2>2. Pending(c)' BY <1>1, <1>2, <1>7 DEF Pending, FreshIds
    <2>3. Created(c)' BY <1>1, <1>2, <1>7 DEF ClientInv, Created, Duplicates
    <2>4. Known(c)' /\ Granted(c)' BY <1>2 DEF Known, Granted
    <2>5. QED BY <2>1, <2>2, <2>3, <2>4 DEF ClientInv
<1>9. QED BY <1>4, <1>5, <1>6, <1>8

\* A request that is refused has no id.
LEMMA RejectKeepsInv ==
    ASSUME Inv, NEW c \in Clients, NEW op \in {"create", "login", "lookup"}, Reject(c, op)
    PROVE  Inv'
<1> USE AccountsAssumptions DEF Inv, Malformed
<1> DEFINE rejected == Malformed(op)
<1>1. /\ req' = [req EXCEPT ![c] = rejected] /\ answer' = [answer EXCEPT ![c] = "VALIDATION_ERROR"]
      /\ users' = users /\ late' = late /\ token' = token /\ registered' = registered
      /\ pc' = pc /\ pc[c] = "ready"
    BY DEF Reject
<1>2. req'[c] = rejected /\ answer'[c] = "VALIDATION_ERROR" BY <1>1 DEF TypeOK
<1>3. \A d \in Clients \ {c} : req'[d] = req[d] /\ answer'[d] = answer[d] BY <1>1 DEF TypeOK
<1>4. TypeOK' BY <1>1 DEF TypeOK, Requests, Answers
<1>5. IdsDiffer' BY <1>2, <1>3 DEF IdsDiffer
<1>6. LateIsNew' /\ \A d \in Clients \ {c} : ClientInv(d)' BY <1>1, <1>3, OthersKept
<1>7. Stored' = Stored BY <1>1 DEF Stored
<1>8. ClientInv(c)'
    BY <1>1, <1>2, <1>7 DEF ClientInv, Sequence, Pending, Created, Duplicates, Known, Granted
<1>9. QED BY <1>4, <1>5, <1>6, <1>8

\* The insert is executed: the account is stored, or its key is taken.
LEMMA InsertKeepsInv ==
    ASSUME Inv, NEW c \in Clients, InsertUser(c) PROVE Inv'
<1> USE AccountsAssumptions DEF Inv
<1> DEFINE id == req[c].id
           doc == Account[c]
<1>1. /\ pc[c] = "InsertUser" /\ Insert(id, doc)
      /\ late' = late /\ req' = req /\ token' = token
    BY DEF InsertUser
<1>2. /\ id \in UserIds /\ doc \in User /\ id \notin Stored /\ req[c].op = "create"
      /\ \A m \in late : m.id # id
    BY <1>1 DEF TypeOK, ClientInv, Pending, Sequence
<1>3. /\ users' \in [UserIds -> User \cup {None}] /\ Grows
      /\ \A i \in Stored' : i = id \/ i \in Stored
      /\ Duplicates(doc) = {} => id \in Stored' /\ users'[id] = doc
    BY <1>1, <1>2, InsertNew
<1>4. LateIsNew' BY <1>1, <1>2, <1>3 DEF LateIsNew
<1>5. IdsDiffer' BY <1>1 DEF IdsDiffer
<1>6. \A d \in Clients \ {c} : pc[d] = "InsertUser" => req[d].id # id /\ req[d].id \notin Stored'
    BY <1>2, <1>3 DEF IdsDiffer, ClientInv, Pending
<1>7. CASE Duplicates(doc) = {}
    <2>1. pc' = [pc EXCEPT ![c] = "FindUser"] /\ answer' = answer /\ registered' = registered
        BY <1>7 DEF InsertUser, Goto
    <2>2. TypeOK' BY <1>1, <1>3, <2>1 DEF TypeOK
    <2>3. \A d \in Clients \ {c} : ClientInv(d)'
        BY <1>1, <1>3, <1>6, <2>1, ClientKept DEF TypeOK, ClientInv, Pending
    <2>4. pc'[c] = "FindUser" /\ answer'[c] = "none" BY <1>1, <2>1 DEF TypeOK, ClientInv, Sequence
    <2>5. Created(c)' BY <1>1, <1>3, <1>7, <2>1, <2>4, DuplicatesGrow DEF ClientInv, Created
    <2>6. Sequence(c)' /\ Pending(c)' /\ Known(c)' /\ Granted(c)'
        BY <1>1, <1>2, <2>4 DEF Sequence, Pending, Known, Granted
    <2>7. QED BY <1>4, <1>5, <2>2, <2>3, <2>5, <2>6 DEF ClientInv
<1>8. CASE Duplicates(doc) # {}
    <2>1. /\ pc' = [pc EXCEPT ![c] = "ready"] /\ answer' = [answer EXCEPT ![c] = "CONFLICT"]
          /\ registered' = registered \cup {c}
        BY <1>2, <1>8 DEF InsertUser, Answer
    <2>2. TypeOK' BY <1>1, <1>3, <2>1 DEF TypeOK, Answers
    <2>3. \A d \in Clients \ {c} : ClientInv(d)'
        BY <1>1, <1>3, <1>6, <2>1, ClientKept DEF TypeOK, ClientInv, Pending
    <2>4. pc'[c] = "ready" /\ answer'[c] = "CONFLICT" BY <2>1 DEF TypeOK
    <2>5. Duplicates(doc)' \ {id} # {}
        BY <1>2, <1>3, <1>8, DuplicatesGrow DEF Duplicates
    <2>6. Created(c)' BY <1>1, <2>4, <2>5 DEF Created
    <2>7. Sequence(c)' /\ Pending(c)' /\ Known(c)' /\ Granted(c)'
        BY <1>1, <1>2, <2>4 DEF Sequence, Pending, Known, Granted
    <2>8. QED BY <1>4, <1>5, <2>2, <2>3, <2>6, <2>7 DEF ClientInv
<1>9. QED BY <1>7, <1>8

\* A command that only reads: the client's answer, and its token, are what may change.
LEMMA ReadKeepsInv ==
    ASSUME Inv, NEW c \in Clients, NEW code \in Answers,
           users' = users, late' = late, req' = req, Answer(c, code),
           token' \in [Clients -> UserIds \cup {None}],
           \A d \in Clients \ {c} : token'[d] = token[d],
           code \in {"OK", "CONFLICT"} /\ req[c].op = "create" => Created(c)',
           Known(c)', Granted(c)'
    PROVE  Inv'
<1> USE DEF Inv
<1>1. /\ pc' = [pc EXCEPT ![c] = "ready"] /\ answer' = [answer EXCEPT ![c] = code]
      /\ registered' = IF req[c].op = "create" /\ code \in {"OK", "CONFLICT"}
                       THEN registered \cup {c} ELSE registered
    BY DEF Answer
<1>2. pc'[c] = "ready" /\ answer'[c] = code BY <1>1 DEF TypeOK
<1>3. TypeOK' BY <1>1 DEF TypeOK
<1>4. IdsDiffer' BY DEF IdsDiffer
<1>5. LateIsNew' /\ \A d \in Clients \ {c} : ClientInv(d)'
    BY <1>1, OthersKept DEF TypeOK
<1>6. Stored' = Stored BY DEF Stored
<1>7. Created(c)'
    <2>1. CASE code \in {"OK", "CONFLICT"} /\ req[c].op = "create" BY <2>1
    <2>2. CASE ~(code \in {"OK", "CONFLICT"} /\ req[c].op = "create")
        BY <1>1, <1>2, <1>6, <2>2 DEF ClientInv, Created, Duplicates
    <2>3. QED BY <2>1, <2>2
<1>8. Sequence(c)' /\ Pending(c)' BY <1>2 DEF Sequence, Pending
<1>9. QED BY <1>3, <1>4, <1>5, <1>7, <1>8 DEF ClientInv

\* The account that was inserted is found.
LEMMA FindKeepsInv ==
    ASSUME Inv, NEW c \in Clients, FindUser(c) PROVE Inv'
<1> USE DEF Inv
<1>1. pc[c] = "FindUser" /\ users' = users /\ late' = late /\ req' = req /\ token' = token
    BY DEF FindUser
<1>2. req[c].op = "create" /\ req[c].id \in Stored /\ users[req[c].id] = Account[c]
    BY <1>1 DEF ClientInv, Sequence, Created
<1>3. Answer(c, "OK") BY <1>2 DEF FindUser
<1>4. answer'[c] = "OK" BY <1>3 DEF Answer, TypeOK
<1>5. Stored' = Stored BY <1>1 DEF Stored
<1>6. Created(c)'
    BY <1>1, <1>2, <1>4, <1>5 DEF Created, Duplicates, SameKey
<1>7. Known(c)' /\ Granted(c)' BY <1>1, <1>2, <1>4 DEF Known, Granted
<1>8. token' \in [Clients -> UserIds \cup {None}] BY <1>1 DEF TypeOK
<1>9. QED BY <1>1, <1>3, <1>6, <1>7, <1>8, ReadKeepsInv DEF Answers

\* A token is given for the account with the login and the password.
LEMMA LoginKeepsInv ==
    ASSUME Inv, NEW c \in Clients, Login(c) PROVE Inv'
<1> USE DEF Inv
<1>1. pc[c] = "Login" /\ users' = users /\ late' = late /\ req' = req BY DEF Login
<1>2. req[c].op = "login" BY <1>1 DEF ClientInv, Sequence
<1>3. Stored' = Stored /\ (c \in registered => \E id \in Stored : SameKey(users[id], Account[c]))
    BY <1>1 DEF Stored, ClientInv, Created, Duplicates
<1>4. CASE WithLogin(req[c].login) = {} /\ Answer(c, "NOT_FOUND") /\ UNCHANGED token
    <2>1. answer'[c] = "NOT_FOUND" /\ registered' = registered
        BY <1>4 DEF Answer, TypeOK
    <2>2. Known(c)' BY <1>1, <1>3, <1>4, <2>1 DEF Known, WithLogin
    <2>3. Granted(c)' BY <2>1 DEF Granted
    <2>4. QED BY <1>1, <1>2, <1>4, <2>2, <2>3, ReadKeepsInv DEF Answers, TypeOK
<1>5. ASSUME NEW id \in WithLogin(req[c].login), users[id].password = req[c].password,
             Answer(c, "OK"), token' = [token EXCEPT ![c] = id]
      PROVE  Inv'
    <2>1. answer'[c] = "OK" /\ id \in UserIds BY <1>5 DEF Answer, TypeOK, WithLogin, Stored
    <2>2. Known(c)' BY <2>1 DEF Known
    <2>3. Granted(c)' BY <1>1, <1>3, <1>5 DEF Granted, WithLogin, TypeOK
    <2>4. /\ token' \in [Clients -> UserIds \cup {None}]
          /\ \A d \in Clients \ {c} : token'[d] = token[d]
        BY <1>5, <2>1 DEF TypeOK
    <2>5. QED BY <1>1, <1>2, <1>5, <2>2, <2>3, <2>4, ReadKeepsInv DEF Answers
<1>6. ASSUME NEW id \in WithLogin(req[c].login), users[id].password # req[c].password,
             Answer(c, "INVALID_CREDENTIALS"), token' = token
      PROVE  Inv'
    <2>1. answer'[c] = "INVALID_CREDENTIALS" /\ registered' = registered
        BY <1>6 DEF Answer, TypeOK
    <2>2. Known(c)' BY <1>1, <1>2, <1>3, <1>6, <2>1 DEF Known, WithLogin, SameKey
    <2>3. Granted(c)' BY <2>1 DEF Granted
    <2>4. QED BY <1>1, <1>2, <1>6, <2>2, <2>3, ReadKeepsInv DEF Answers, TypeOK
<1>7. QED BY <1>4, <1>5, <1>6 DEF Login

\* NOT_FOUND is said of a login that nobody has.
LEMMA LookupKeepsInv ==
    ASSUME Inv, NEW c \in Clients, GetUserByLogin(c) PROVE Inv'
<1> USE DEF Inv
<1>1. /\ pc[c] = "GetUserByLogin" /\ users' = users /\ late' = late /\ req' = req /\ token' = token
    BY DEF GetUserByLogin
<1>2. req[c].op = "lookup" BY <1>1 DEF ClientInv, Sequence
<1>3. PICK code \in {"OK", "NOT_FOUND"} :
          Answer(c, code) /\ (code = "NOT_FOUND" => WithLogin(req[c].login) = {})
    BY DEF GetUserByLogin
<1>4. answer'[c] = code /\ registered' = registered BY <1>2, <1>3 DEF Answer, TypeOK
<1>5. Stored' = Stored /\ (c \in registered => \E id \in Stored : SameKey(users[id], Account[c]))
    BY <1>1 DEF Stored, ClientInv, Created, Duplicates
<1>6. Known(c)' BY <1>1, <1>3, <1>4, <1>5 DEF Known, WithLogin
<1>7. Granted(c)' BY <1>1, <1>2 DEF Granted
<1>8. QED BY <1>1, <1>2, <1>3, <1>6, <1>7, ReadKeepsInv DEF Answers, TypeOK

-----------------------------------------------------------------------------
(* Failures.                                                               *)

\* A command fails; an insert may still come, of an id that is its own.
LEMMA CommandFailsKeepsInv ==
    ASSUME Inv, NEW c \in Clients, CommandFails(c) PROVE Inv'
<1> USE AccountsAssumptions DEF Inv
<1> DEFINE abandoned == [id |-> req[c].id, doc |-> Account[c]]
<1>1. /\ pc' = [pc EXCEPT ![c] = "ready"] /\ answer' = [answer EXCEPT ![c] = "INTERNAL"]
      /\ registered' = registered
      /\ late' = IF pc[c] = "InsertUser" THEN late \cup {abandoned} ELSE late
      /\ users' = users /\ req' = req /\ token' = token
    BY DEF CommandFails, FailureAnswer, Answer
<1>2. pc'[c] = "ready" /\ answer'[c] = "INTERNAL" BY <1>1 DEF TypeOK
<1>3. \A d \in Clients \ {c} : pc'[d] = pc[d] /\ answer'[d] = answer[d] BY <1>1 DEF TypeOK
<1>4. Stored' = Stored /\ Grows BY <1>1 DEF Stored, Grows
<1>5. pc[c] = "InsertUser" =>
          /\ abandoned \in [id: UserIds, doc: User] /\ req[c].id \notin Stored
          /\ \A m \in late : m.id # req[c].id
          /\ \A d \in Clients \ {c} : req[d].id # req[c].id
    BY DEF TypeOK, ClientInv, Pending, IdsDiffer
<1>6. TypeOK' BY <1>1, <1>5 DEF TypeOK, Answers
<1>7. IdsDiffer' BY <1>1 DEF IdsDiffer
<1>8. LateIsNew' BY <1>1, <1>4, <1>5 DEF LateIsNew
<1>9. ASSUME NEW d \in Clients \ {c} PROVE ClientInv(d)'
    <2>1. pc[d] = "InsertUser" => req[d].id \notin Stored' /\ \A m \in late' : m.id # req[d].id
        BY <1>1, <1>4, <1>5 DEF ClientInv, Pending
    <2>2. QED BY <1>1, <1>3, <1>4, <2>1, ClientKept
<1>10. ClientInv(c)'
    BY <1>1, <1>2, <1>4 DEF ClientInv, Sequence, Pending, Created, Duplicates, Known, Granted
<1>11. QED BY <1>6, <1>7, <1>8, <1>9, <1>10

\* A late insert is executed and spends its id.
LEMMA LateInsertKeepsInv ==
    ASSUME Inv, LateInsert PROVE Inv'
<1> USE DEF Inv
<1>1. PICK m \in late : /\ Insert(m.id, m.doc) /\ late' = late \ {m}
                        /\ UNCHANGED <<pc, req, answer, token, registered>>
    BY DEF LateInsert
<1>2. m.id \in UserIds /\ m.doc \in User /\ m.id \notin Stored BY <1>1 DEF TypeOK, LateIsNew
<1>3. /\ users' \in [UserIds -> User \cup {None}] /\ Grows
      /\ \A i \in Stored' : i = m.id \/ i \in Stored
    BY <1>1, <1>2, InsertNew
<1>4. TypeOK' BY <1>1, <1>3 DEF TypeOK
<1>5. IdsDiffer' BY <1>1 DEF IdsDiffer
<1>6. LateIsNew' BY <1>1, <1>3 DEF LateIsNew
<1>7. ASSUME NEW c \in Clients PROVE ClientInv(c)'
    <2>1. pc[c] = "InsertUser" => req[c].id \notin Stored' /\ \A n \in late' : n.id # req[c].id
        BY <1>1, <1>3 DEF ClientInv, Pending
    <2>2. QED BY <1>1, <1>3, <2>1, ClientKept
<1>8. QED BY <1>4, <1>5, <1>6, <1>7

\* A late insert that is lost takes nothing away.
LEMMA LostInsertKeepsInv ==
    ASSUME Inv, LostInsert PROVE Inv'
<1> USE DEF Inv
<1>1. late' \subseteq late /\ UNCHANGED <<users, pc, req, answer, token, registered>>
    BY DEF LostInsert
<1>2. Stored' = Stored /\ Grows BY <1>1 DEF Stored, Grows
<1>3. TypeOK' BY <1>1 DEF TypeOK
<1>4. IdsDiffer' /\ LateIsNew' BY <1>1, <1>2 DEF IdsDiffer, LateIsNew
<1>5. ASSUME NEW c \in Clients PROVE ClientInv(c)'
    BY <1>1, <1>2, ClientKept DEF ClientInv, Pending
<1>6. QED BY <1>3, <1>4, <1>5

\* At a crash every pending insert becomes a late one.
LEMMA CrashKeepsInv ==
    ASSUME Inv, Crash PROVE Inv'
<1> USE AccountsAssumptions DEF Inv
<1> DEFINE pending == {c \in Clients : pc[c] = "InsertUser"}
           abandoned(c) == [id |-> req[c].id, doc |-> Account[c]]
<1>1. /\ pc' = [c \in Clients |-> "ready"] /\ late' = late \cup {abandoned(c) : c \in pending}
      /\ UNCHANGED <<users, req, answer, token, registered>>
    BY DEF Crash
<1>2. Stored' = Stored /\ Grows BY <1>1 DEF Stored, Grows
<1>3. \A c \in pending : /\ abandoned(c) \in [id: UserIds, doc: User] /\ req[c].id \notin Stored
                         /\ \A m \in late : m.id # req[c].id
                         /\ \A d \in pending \ {c} : req[d].id # req[c].id
    BY DEF TypeOK, ClientInv, Pending, IdsDiffer
<1>4. TypeOK' BY <1>1, <1>3 DEF TypeOK
<1>5. IdsDiffer' BY <1>1 DEF IdsDiffer
<1>6. LateIsNew'
    <2>1. SUFFICES ASSUME NEW m \in late'
                   PROVE  m.id \notin Stored /\ \A n \in late' : n.id = m.id => n = m
        BY <1>2 DEF LateIsNew
    <2>2. CASE m \in late BY <1>1, <1>3, <2>2 DEF LateIsNew
    <2>3. CASE m \in {abandoned(c) : c \in pending} BY <1>1, <1>3, <2>3
    <2>4. QED BY <1>1, <2>2, <2>3
<1>7. ASSUME NEW c \in Clients PROVE ClientInv(c)'
    <2>1. pc'[c] = "ready" BY <1>1
    <2>2. QED BY <1>1, <1>2, <2>1
          DEF ClientInv, Sequence, Pending, Created, Duplicates, Known, Granted
<1>8. QED BY <1>4, <1>5, <1>6, <1>7

-----------------------------------------------------------------------------

\* The invariant holds in every behaviour.
LEMMA InvAlways == Spec => []Inv
<1>1. ASSUME Inv, [Next]_vars PROVE Inv'
    <2> USE AccountsAssumptions
    <2>1. ASSUME NEW c \in Clients, ReceiveCreateUser(c) PROVE Inv'
        <3>1. PICK id \in FreshIds(c) :
                Receive(c, [op |-> "create", id |-> id, login |-> Account[c].login,
                            password |-> Account[c].password], "InsertUser")
            BY <2>1 DEF ReceiveCreateUser
        <3>2. [op |-> "create", id |-> id, login |-> Account[c].login,
               password |-> Account[c].password] \in Requests
            BY DEF Requests, FreshIds, User
        <3>3. QED BY <1>1, <3>1, <3>2, ReceiveKeepsInv
    <2>2. ASSUME NEW c \in Clients, ReceiveLogin(c) PROVE Inv'
        BY <1>1, <2>2, ReceiveKeepsInv DEF ReceiveLogin, Requests
    <2>3. ASSUME NEW c \in Clients, ReceiveGetUserByLogin(c) PROVE Inv'
        BY <1>1, <2>3, ReceiveKeepsInv DEF ReceiveGetUserByLogin, Requests
    <2>4. CASE \E c \in Clients : CreateUser(c)
        BY <1>1, <2>1, <2>4, RejectKeepsInv, InsertKeepsInv, FindKeepsInv
        DEF CreateUser, RejectInvalidUser
    <2>5. CASE \E c \in Clients : Read(c)
        BY <1>1, <2>2, <2>3, <2>5, RejectKeepsInv, LoginKeepsInv, LookupKeepsInv
        DEF Read, RejectInvalidLogin, RejectEmptyLogin
    <2>6. CASE Failure
        BY <1>1, <2>6, CommandFailsKeepsInv, LateInsertKeepsInv, LostInsertKeepsInv, CrashKeepsInv
        DEF Failure
    <2>7. CASE UNCHANGED vars
        <3>1. Stored' = Stored /\ Grows BY <2>7 DEF vars, Stored, Grows
        <3>2. TypeOK' /\ IdsDiffer' /\ LateIsNew'
            BY <1>1, <2>7, <3>1 DEF vars, Inv, TypeOK, IdsDiffer, LateIsNew
        <3>3. \A c \in Clients : ClientInv(c)'
            BY <1>1, <2>7, <3>1, ClientKept DEF vars, Inv, ClientInv, Pending
        <3>4. QED BY <3>2, <3>3 DEF Inv
    <2>8. QED BY <1>1, <2>4, <2>5, <2>6, <2>7 DEF Next
<1>2. QED BY <1>1, InvInit, PTL DEF Spec

\* Every variable of Accounts stays in its set, whatever clients ask for.
THEOREM AccountsTypeCorrect == Spec => []TypeOK
<1>1. Inv => TypeOK BY DEF Inv
<1>2. QED BY <1>1, InvAlways, PTL

\* For any number of clients, with failures: who is told that login or email are
\* taken is told the truth, of an account other than one the request has made.
THEOREM ConflictsAreTrue == Spec => []ConflictMeansTaken
<1>1. Inv => ConflictMeansTaken BY DEF Inv, ClientInv, Created, ConflictMeansTaken
<1>2. QED BY <1>1, InvAlways, PTL

\* For any number of clients, with failures: what CreateUser has told a client can
\* be relied on when the client logs in or is looked up.
THEOREM RegistrationLasts == Spec => []RegisteredIsKnown
<1>1. Inv => RegisteredIsKnown BY DEF Inv, TypeOK, ClientInv, Known, RegisteredIsKnown
<1>2. QED BY <1>1, InvAlways, PTL

\* For any number of clients, with failures: Login gives tokens of the account whose
\* login and password it was given only, and that account does not change.
THEOREM TokensMatchPasswords == Spec => []TokenMatchesPassword
<1>1. Inv => TokenMatchesPassword BY DEF Inv, ClientInv, Granted, TokenMatchesPassword
<1>2. QED BY <1>1, InvAlways, PTL

-----------------------------------------------------------------------------
(* The accounts as a registry.                                             *)

\* An insert of a new id enters its account, or nothing.
LEMMA InsertEnters ==
    ASSUME TypeOK, NEW id \in UserIds, NEW doc \in User, id \notin Stored, Insert(id, doc)
    PROVE  Directory!Next \/ users' = users
<1>1. CASE Duplicates(doc) # {} BY <1>1 DEF Insert
<1>2. CASE Duplicates(doc) = {}
    <2>1. users' = [users EXCEPT ![id] = doc] /\ users'[id] = doc BY <1>2 DEF Insert, TypeOK
    <2>2. Directory!Enter(id, users'[id])
        BY <1>2, <2>1 DEF Directory!Enter, Directory!Entered, Stored, Duplicates
    <2>3. QED BY <2>1, <2>2 DEF Directory!Next
<1>3. QED BY <1>1, <1>2

\* Only an insert that is executed changes the registry.
LEMMA StepImplementsRegistry ==
    ASSUME Inv, [Next]_vars PROVE Directory!Next \/ users' = users
<1> USE AccountsAssumptions DEF Inv
<1>1. CASE users' = users BY <1>1
<1>2. ASSUME NEW c \in Clients, InsertUser(c) PROVE Directory!Next \/ users' = users
    <2>1. /\ Insert(req[c].id, Account[c]) /\ req[c].id \in UserIds /\ Account[c] \in User
          /\ req[c].id \notin Stored
        BY <1>2 DEF InsertUser, TypeOK, ClientInv, Pending
    <2>2. QED BY <2>1, InsertEnters
<1>3. CASE LateInsert BY <1>3, InsertEnters DEF LateInsert, LateIsNew, TypeOK
<1>4. users' = users \/ (\E c \in Clients : InsertUser(c)) \/ LateInsert
    BY DEF Next, vars, CreateUser, Read, Failure, ReceiveCreateUser, RejectInvalidUser, FindUser,
           RejectInvalidLogin, RejectEmptyLogin, Reject, ReceiveLogin, Login,
           ReceiveGetUserByLogin, GetUserByLogin, Receive, CommandFails, LostInsert, Crash
<1>5. QED BY <1>1, <1>2, <1>3, <1>4

\* For any number of clients, with failures: one account per login and email, entered
\* once and kept, because an insert that is pending or late has an id that is not
\* stored and the unique indexes decide in one command.
THEOREM AccountsImplementRegistry == Spec => ImplementsRegistry
<1>1. Init => Directory!Init BY DEF Init, Directory!Init
<1>2. Inv /\ [Next]_vars => [Directory!Next]_users BY StepImplementsRegistry
<1>3. QED BY <1>1, <1>2, InvAlways, PTL DEF Spec, ImplementsRegistry, Directory!Spec

-----------------------------------------------------------------------------
(* A client who reads the users page by page.                              *)

\* The order in which users were stored.
Ordered ==
    /\ order \in [UserIds -> Nat]
    /\ \A id \in Stored : order[id] <= Cardinality(Stored)
    /\ \A i, j \in Stored : order[i] = order[j] => i = j

\* Those of S in T come before the others.
Begins(T, S) == T \subseteq S /\ \A t \in T, s \in S \ T : order[t] < order[s]

\* What a client has met while it reads on is the beginning of the list, of which it
\* has asked for no less than a page, unless it had met everyone it expected.
SearchInv ==
    /\ scan \in Search
    /\ SearchMeetsEveryoneOnce
    /\ scan.at = "search" =>
           /\ scan.limit \in Limits
           /\ Begins(scan.met, Found) /\ scan.expected \subseteq Found
           /\ \/ scan.offset = 0
              \/ scan.limit <= scan.offset
              \/ Cardinality(scan.expected) <= scan.offset
    /\ scan.at = "failed" => scan.expected \subseteq Found

\* A subset of a finite set is no larger, and the same set if it is as large.
LEMMA SubsetCount ==
    ASSUME NEW S, IsFiniteSet(S), NEW T, T \subseteq S
    PROVE  /\ IsFiniteSet(T) /\ Cardinality(T) \in Nat /\ Cardinality(S) \in Nat
           /\ Cardinality(T) <= Cardinality(S)
           /\ Cardinality(T) = Cardinality(S) => T = S
BY FS_Subset, FS_CardinalityType

\* The users found are stored, and both are finitely many.
LEMMA FoundFinite ==
    /\ IsFiniteSet(Stored) /\ Cardinality(Stored) \in Nat /\ Stored \subseteq UserIds
    /\ IsFiniteSet(Found) /\ Cardinality(Found) \in Nat /\ Found \subseteq Stored
BY SubsetCount, SearchAssumptions DEF Stored, Found

\* A search is a step of no account.
LEMMA SearchAccounts == SearchSpec => []Inv
<1>1. SearchInit => Init BY DEF SearchInit
<1>2. [SearchNext]_<<vars, searchVars>> => [Next]_vars
    BY DEF SearchNext, Accounted, vars
<1>3. QED BY <1>1, <1>2, InvAlways, PTL DEF SearchSpec, Spec

\* A step of the accounts stores one user at most, and changes none.
LEMMA OneStored ==
    ASSUME Inv, [Next]_vars
    PROVE  Grows /\ \A i, j \in Stored' \ Stored : i = j
<1> USE AccountsAssumptions DEF Inv
<1>1. CASE users' = users BY <1>1 DEF Grows, Stored
<1>2. ASSUME NEW c \in Clients, InsertUser(c)
      PROVE  Grows /\ \A i, j \in Stored' \ Stored : i = j
    <2>1. /\ Insert(req[c].id, Account[c]) /\ req[c].id \in UserIds /\ Account[c] \in User
          /\ req[c].id \notin Stored
        BY <1>2 DEF InsertUser, TypeOK, ClientInv, Pending
    <2>2. QED BY <2>1, InsertNew
<1>3. CASE LateInsert
    <2>1. PICK m \in late : Insert(m.id, m.doc) BY <1>3 DEF LateInsert
    <2>2. m.id \in UserIds /\ m.doc \in User /\ m.id \notin Stored BY DEF LateIsNew, TypeOK
    <2>3. QED BY <2>1, <2>2, InsertNew
<1>4. users' = users \/ (\E c \in Clients : InsertUser(c)) \/ LateInsert
    BY DEF Next, vars, CreateUser, Read, Failure, ReceiveCreateUser, RejectInvalidUser, FindUser,
           RejectInvalidLogin, RejectEmptyLogin, Reject, ReceiveLogin, Login,
           ReceiveGetUserByLogin, GetUserByLogin, Receive, CommandFails, LostInsert, Crash
<1>5. QED BY <1>1, <1>2, <1>3, <1>4

\* A user that is stored comes last, and no user is taken from the list.
LEMMA StoredLast ==
    ASSUME Inv, Ordered, Accounted
    PROVE  /\ Ordered'
           /\ Found \subseteq Found'
           /\ \A id \in Found' : id \in Stored => id \in Found
           /\ \A id \in Stored : order'[id] = order[id]
           /\ \A old \in Stored, new \in Stored' \ Stored : order'[old] < order'[new]
<1>1. Grows /\ \A i, j \in Stored' \ Stored : i = j BY OneStored DEF Accounted
<1>2. order' = [id \in UserIds |-> IF id \in Stored' \ Stored THEN Cardinality(Stored')
                                                              ELSE order[id]]
    BY DEF Accounted
<1>3. Stored \subseteq Stored' /\ \A id \in Stored : users'[id] = users[id] BY <1>1 DEF Grows
<1>4. Stored' \subseteq UserIds /\ IsFiniteSet(Stored') /\ Cardinality(Stored') \in Nat
    <2>1. Stored' \subseteq UserIds BY DEF Stored
    <2>2. QED BY <2>1, SubsetCount, SearchAssumptions
<1>5. /\ Cardinality(Stored) \in Nat /\ Cardinality(Stored) <= Cardinality(Stored')
      /\ Stored' # Stored => Cardinality(Stored) < Cardinality(Stored')
    BY <1>3, <1>4, SubsetCount
<1>6. /\ \A id \in Stored : order'[id] = order[id] /\ order[id] \in Nat
      /\ \A id \in Stored' \ Stored : order'[id] = Cardinality(Stored')
    BY <1>2, <1>4, FoundFinite DEF Ordered
<1>7. \A old \in Stored, new \in Stored' \ Stored : order'[old] < order'[new]
    BY <1>4, <1>5, <1>6 DEF Ordered
<1>8. Ordered'
    <2>1. order' \in [UserIds -> Nat] BY <1>2, <1>4 DEF Ordered
    <2>2. \A id \in Stored' : order'[id] <= Cardinality(Stored')
        BY <1>4, <1>5, <1>6 DEF Ordered
    <2>3. ASSUME NEW i \in Stored', NEW j \in Stored', order'[i] = order'[j] PROVE i = j
        <3>1. CASE i \in Stored /\ j \in Stored BY <1>6, <2>3, <3>1 DEF Ordered
        <3>2. CASE i \notin Stored /\ j \notin Stored BY <1>1, <3>2
        <3>3. CASE i \in Stored /\ j \notin Stored
            <4>1. order'[i] < order'[j] BY <1>7, <3>3
            <4>2. QED BY <2>1, <2>3, <4>1, <1>4
        <3>4. CASE i \notin Stored /\ j \in Stored
            <4>1. order'[j] < order'[i] BY <1>7, <3>4
            <4>2. QED BY <2>1, <2>3, <4>1, <1>4
        <3>5. QED BY <3>1, <3>2, <3>3, <3>4
    <2>4. QED BY <2>1, <2>2, <2>3 DEF Ordered
<1>9. Found \subseteq Found' /\ \A id \in Found' : id \in Stored => id \in Found
    BY <1>3 DEF Found
<1>10. QED BY <1>6, <1>7, <1>8, <1>9

\* The users a client has met are still the beginning of the list.
LEMMA AccountedKeepsSearch ==
    ASSUME Inv, Ordered, SearchInv, Accounted
    PROVE  Ordered' /\ SearchInv' /\ (SearchFailsOnlyIfGrown => SearchFailsOnlyIfGrown')
<1>1. scan' = scan BY DEF Accounted
<1>2. /\ Ordered' /\ Found \subseteq Found'
      /\ \A id \in Found' : id \in Stored => id \in Found
      /\ \A id \in Stored : order'[id] = order[id]
      /\ \A old \in Stored, new \in Stored' \ Stored : order'[old] < order'[new]
    BY StoredLast
<1>3. ASSUME Begins(scan.met, Found) PROVE Begins(scan.met, Found)'
    <2>1. scan.met \subseteq Found' BY <1>2, <1>3 DEF Begins
    <2>2. ASSUME NEW t \in scan.met, NEW s \in Found' \ scan.met PROVE order'[t] < order'[s]
        <3>1. t \in Stored /\ t \in Found BY <1>3, FoundFinite DEF Begins
        <3>2. CASE s \in Stored BY <1>2, <1>3, <2>2, <3>1, <3>2 DEF Begins
        <3>3. CASE s \notin Stored
            <4>1. s \in Stored' BY DEF Found
            <4>2. QED BY <1>2, <3>1, <3>3, <4>1
        <3>4. QED BY <3>2, <3>3
    <2>3. QED BY <1>1, <2>1, <2>2 DEF Begins
<1>4. SearchInv'
    BY <1>1, <1>2, <1>3 DEF SearchInv, SearchMeetsEveryoneOnce
<1>5. SearchFailsOnlyIfGrown => SearchFailsOnlyIfGrown'
    <2>1. IsFiniteSet(Found')
        <3>1. Found' \subseteq UserIds BY DEF Found, Stored
        <3>2. QED BY <3>1, SubsetCount, SearchAssumptions
    <2>2. Cardinality(Found) \in Nat /\ Cardinality(Found') \in Nat
          /\ Cardinality(Found) <= Cardinality(Found')
        BY <1>2, <2>1, SubsetCount
    <2>3. Cardinality(scan.expected) \in Nat
        BY SubsetCount, SearchAssumptions DEF SearchInv, Search
    <2>4. QED BY <1>1, <2>2, <2>3 DEF SearchFailsOnlyIfGrown
<1>6. QED BY <1>2, <1>4, <1>5

-----------------------------------------------------------------------------
(* A page.                                                                 *)

\* The n first users of S.
LEMMA FirstFacts ==
    ASSUME NEW S, IsFiniteSet(S), NEW n \in Nat, NEW T \in First(S, n)
    PROVE  /\ Begins(T, S) /\ IsFiniteSet(T) /\ Cardinality(T) \in Nat
           /\ Cardinality(T) <= n /\ (Cardinality(T) < n => T = S)
           /\ n <= Cardinality(S) => Cardinality(T) = n
<1>1. Begins(T, S) /\ T \subseteq S /\ Cardinality(T) = Smaller(n, Cardinality(S))
    BY DEF First, Begins
<1>2. /\ IsFiniteSet(T) /\ Cardinality(T) \in Nat /\ Cardinality(S) \in Nat
      /\ Cardinality(T) = Cardinality(S) => T = S
    BY <1>1, SubsetCount
<1>3. QED BY <1>1, <1>2 DEF Smaller

\* Of one size there is one beginning.
LEMMA OneBeginning ==
    ASSUME Ordered, NEW S, S \subseteq Stored, NEW T, NEW U,
           Begins(T, S), Begins(U, S), Cardinality(T) = Cardinality(U)
    PROVE  T = U
<1>1. T \subseteq S /\ U \subseteq S /\ \A id \in S : order[id] \in Nat
    BY FoundFinite DEF Begins, Ordered
<1>2. T \subseteq U \/ U \subseteq T
    <2>1. SUFFICES ASSUME NEW t \in T \ U, NEW u \in U \ T PROVE FALSE OBVIOUS
    <2>2. order[t] < order[u] /\ order[u] < order[t] BY <1>1 DEF Begins
    <2>3. QED BY <1>1, <2>2
<1>3. IsFiniteSet(T) /\ IsFiniteSet(U)
    BY <1>1, FoundFinite, SubsetCount
<1>4. QED BY <1>2, <1>3, SubsetCount

\* The page is the part of the list that follows what the client has met.
LEMMA PageFollows ==
    ASSUME Ordered, SearchInv, scan.at = "search", ~BeyondEnd(scan.offset),
           NEW page \in Pages(scan.offset, scan.limit)
    PROVE  /\ Begins(scan.met \cup page, Found)
           /\ IsFiniteSet(page) /\ Cardinality(page) \in Nat
           /\ Cardinality(scan.met \cup page) = scan.offset + Cardinality(page)
           /\ Cardinality(page) < scan.limit => scan.met \cup page = Found
<1>1. /\ scan.offset \in Nat /\ scan.limit \in Nat /\ scan.offset < Cardinality(Found)
      /\ Begins(scan.met, Found) /\ Cardinality(scan.met) = scan.offset
    <2>1. /\ scan.offset \in Nat /\ scan.limit \in 1 .. IntMax
          /\ Begins(scan.met, Found) /\ Cardinality(scan.met) = scan.offset
        BY SearchAssumptions DEF SearchInv, Search, SearchMeetsEveryoneOnce
    <2>2. QED BY <2>1, FoundFinite, SearchAssumptions DEF BeyondEnd
<1>2. PICK skipped \in First(Found, scan.offset) :
          page \in First(Found \ skipped, scan.limit)
    BY DEF Pages
<1>3. Begins(skipped, Found) /\ Cardinality(skipped) = scan.offset
    BY <1>1, <1>2, FoundFinite, FirstFacts
<1>4. skipped = scan.met BY <1>1, <1>3, FoundFinite, OneBeginning
<1>5. IsFiniteSet(Found \ scan.met) /\ IsFiniteSet(scan.met) /\ scan.met \subseteq Found
    BY <1>1, FoundFinite, SubsetCount DEF Begins
<1>6. /\ Begins(page, Found \ scan.met) /\ IsFiniteSet(page) /\ Cardinality(page) \in Nat
      /\ Cardinality(page) < scan.limit => page = Found \ scan.met
    BY <1>1, <1>2, <1>4, <1>5, FirstFacts
<1>7. Begins(scan.met \cup page, Found) BY <1>1, <1>6 DEF Begins
<1>8. Cardinality(scan.met \cup page) = scan.offset + Cardinality(page)
    <2>1. scan.met \cap page = {} BY <1>6 DEF Begins
    <2>2. Cardinality(scan.met \cap page) = 0 BY <2>1, FS_EmptySet
    <2>3. Cardinality(scan.met \cup page) =
              Cardinality(scan.met) + Cardinality(page) - Cardinality(scan.met \cap page)
        BY <1>5, <1>6, FS_Union
    <2>4. QED BY <1>1, <1>6, <2>2, <2>3
<1>9. Cardinality(page) < scan.limit => scan.met \cup page = Found BY <1>5, <1>6
<1>10. QED BY <1>6, <1>7, <1>8, <1>9

\* A page adds to what the client has met.
LEMMA PageKeepsSearch ==
    ASSUME Ordered, SearchInv, scan.at = "search", ~BeyondEnd(scan.offset),
           NEW page \in Pages(scan.offset, scan.limit),
           scan' = [scan EXCEPT !.offset = scan.offset + Cardinality(page),
                                !.met = scan.met \cup page],
           UNCHANGED <<users, order>>
    PROVE  SearchInv'
<1>1. /\ Begins(scan.met \cup page, Found)
      /\ IsFiniteSet(page) /\ Cardinality(page) \in Nat
      /\ Cardinality(scan.met \cup page) = scan.offset + Cardinality(page)
      /\ Cardinality(page) < scan.limit => scan.met \cup page = Found
    BY PageFollows
<1>2. /\ scan \in Search /\ scan.offset \in Nat /\ scan.limit \in Nat /\ scan.limit \in Limits
      /\ scan.expected \subseteq Found
    BY SearchAssumptions DEF SearchInv, Search
<1>3. scan.met \cup page \subseteq UserIds BY <1>1, FoundFinite DEF Begins
<1>4. scan.offset + Cardinality(page) \in Nat BY <1>1, <1>2
<1>5. /\ scan'.at = "search" /\ scan'.limit = scan.limit /\ scan'.expected = scan.expected
      /\ scan'.offset = scan.offset + Cardinality(page) /\ scan'.met = scan.met \cup page
      /\ scan' \in Search
    BY <1>2, <1>3, <1>4 DEF Search
<1>6. Found' = Found BY DEF Found, Stored
<1>7. Begins(scan.met, Found)' BY <1>1, <1>5, <1>6 DEF Begins
<1>8. scan.limit <= scan'.offset \/ Cardinality(scan.expected) <= scan'.offset
    <2>1. CASE Cardinality(page) < scan.limit
        <3>1. Cardinality(scan.expected) <= Cardinality(Found) BY <1>2, FoundFinite, SubsetCount
        <3>2. QED BY <1>1, <1>5, <2>1, <3>1
    <2>2. CASE ~(Cardinality(page) < scan.limit) BY <1>1, <1>2, <1>5, <2>2
    <2>3. QED BY <2>1, <2>2
<1>9. QED BY <1>1, <1>2, <1>5, <1>6, <1>7, <1>8 DEF SearchInv, SearchMeetsEveryoneOnce

\* The other steps of the client.
LEMMA ClientKeepsSearch ==
    ASSUME Ordered, SearchInv, StartSearch \/ SearchUsers, UNCHANGED vars
    PROVE  Ordered' /\ SearchInv'
<1>1. UNCHANGED <<users, order>> /\ Stored' = Stored /\ Found' = Found
    BY DEF StartSearch, SearchUsers, vars, Stored, Found
<1>2. Ordered' BY <1>1 DEF Ordered
<1>3. ASSUME StartSearch PROVE SearchInv'
    <2>1. PICK limit \in Limits : scan' = NewSearch("search", limit, Found)
        BY <1>3 DEF StartSearch
    <2>2. /\ scan'.at = "search" /\ scan'.limit = limit /\ scan'.offset = 0
          /\ scan'.met = {} /\ scan'.expected = Found /\ scan' \in Search
        BY <2>1, FoundFinite DEF NewSearch, Search
    <2>3. Cardinality(scan.met)' = 0 BY <2>2, FS_EmptySet
    <2>4. QED BY <1>1, <2>2, <2>3 DEF SearchInv, SearchMeetsEveryoneOnce, Begins
<1>4. ASSUME scan.at = "search", BeyondEnd(scan.offset), scan' = [scan EXCEPT !.at = "ready"]
      PROVE  SearchInv'
    <2>1. scan.met \subseteq Found /\ Cardinality(scan.met) = scan.offset
        BY <1>4 DEF SearchInv, SearchMeetsEveryoneOnce, Begins
    <2>2. scan.met = Found BY <1>4, <2>1, FoundFinite, SubsetCount DEF BeyondEnd
    <2>3. /\ scan'.at = "ready" /\ scan'.met = scan.met /\ scan'.offset = scan.offset
          /\ scan'.expected = scan.expected /\ scan' \in Search
        BY <1>4 DEF SearchInv, Search
    <2>4. scan.expected \subseteq scan.met BY <1>4, <2>2 DEF SearchInv
    <2>5. QED BY <2>1, <2>3, <2>4 DEF SearchInv, SearchMeetsEveryoneOnce
<1>5. ASSUME scan.at = "search", scan' = [scan EXCEPT !.at = "failed"] PROVE SearchInv'
    <2>1. /\ scan'.at = "failed" /\ scan'.met = scan.met /\ scan'.offset = scan.offset
          /\ scan'.expected = scan.expected /\ scan' \in Search
        BY <1>5 DEF SearchInv, Search
    <2>2. QED BY <1>1, <1>5, <2>1 DEF SearchInv, SearchMeetsEveryoneOnce
<1>6. ASSUME SearchUsers PROVE SearchInv'
    <2>1. ASSUME ~BeyondEnd(scan.offset),
                 NEW page \in Pages(scan.offset, scan.limit),
                 scan' = [scan EXCEPT !.offset = scan.offset + Cardinality(page),
                                      !.met = scan.met \cup page]
          PROVE  SearchInv'
        BY <1>1, <1>6, <2>1, PageKeepsSearch DEF SearchUsers
    <2>2. QED BY <1>4, <1>5, <1>6, <2>1 DEF SearchUsers
<1>7. QED BY <1>2, <1>3, <1>6

\* What a client who reads the users page by page has met.
LEMMA SearchInvAlways == SearchSpec => [](Ordered /\ SearchInv)
<1>1. SearchInit => Ordered /\ SearchInv
    <2>1. SUFFICES ASSUME SearchInit PROVE Ordered /\ SearchInv OBVIOUS
    <2>2. /\ order \in [UserIds -> 0 .. Cardinality(Stored)]
          /\ \A i, j \in Stored : order[i] = order[j] => i = j
          /\ scan = NewSearch("ready", 1, {})
        BY <2>1 DEF SearchInit
    <2>3. Ordered BY <2>2, FoundFinite DEF Ordered
    <2>4. SearchInv
        BY <2>2, FS_EmptySet DEF SearchInv, NewSearch, Search, SearchMeetsEveryoneOnce
    <2>5. QED BY <2>3, <2>4
<1>2. Inv /\ Ordered /\ SearchInv /\ [SearchNext]_<<vars, searchVars>> => (Ordered /\ SearchInv)'
    <2>1. SUFFICES ASSUME Inv, Ordered, SearchInv, [SearchNext]_<<vars, searchVars>>
                   PROVE  Ordered' /\ SearchInv'
        OBVIOUS
    <2>2. CASE Accounted BY <2>1, <2>2, AccountedKeepsSearch
    <2>3. CASE (StartSearch \/ SearchUsers) /\ UNCHANGED vars
        BY <2>1, <2>3, ClientKeepsSearch
    <2>4. CASE UNCHANGED <<vars, searchVars>>
        BY <2>1, <2>4 DEF vars, searchVars, Ordered, Stored, Found, SearchInv, Begins,
                          SearchMeetsEveryoneOnce
    <2>5. QED BY <2>1, <2>2, <2>3, <2>4 DEF SearchNext
<1>3. QED BY <1>1, <1>2, SearchAccounts, PTL DEF SearchSpec

\* For any number of users, of registrations between two pages, and any limit: who
\* reads on until a page is empty has met everyone who matched at the beginning, and
\* nobody twice, because users come in the order in which they were stored.
THEOREM SearchMeetsEveryone == SearchSpec => []SearchMeetsEveryoneOnce
<1>1. SearchInv => SearchMeetsEveryoneOnce BY DEF SearchInv
<1>2. QED BY <1>1, SearchInvAlways, PTL

\* While an int can count the users twice, the sum of offset and limit overflows in no
\* search but one that new users have prolonged, however large its limit is.
THEOREM OverflowNeedsGrowth ==
    ASSUME 2 * Cardinality(UserIds) <= IntMax
    PROVE  SearchSpec => []SearchFailsOnlyIfGrown
<1>1. SearchInit => SearchFailsOnlyIfGrown
    BY DEF SearchInit, NewSearch, SearchFailsOnlyIfGrown
<1>2. ASSUME Inv, Ordered, SearchInv, SearchFailsOnlyIfGrown,
             [SearchNext]_<<vars, searchVars>>
      PROVE  SearchFailsOnlyIfGrown'
    <2>1. CASE Accounted BY <1>2, <2>1, AccountedKeepsSearch
    <2>2. CASE SearchUsers /\ UNCHANGED vars
        <3>1. /\ scan \in Search /\ scan.at = "search" /\ Found' = Found
            BY <1>2, <2>2 DEF SearchInv, SearchUsers, vars, Found, Stored
        <3>2. SUFFICES ASSUME scan'.at = "failed"
                       PROVE  Cardinality(Found) > Cardinality(scan'.expected)
            BY <3>1 DEF SearchFailsOnlyIfGrown
        <3>3. /\ ~BeyondEnd(scan.offset) /\ Overflows(scan.offset, scan.limit)
              /\ scan'.expected = scan.expected
            BY <2>2, <3>1, <3>2 DEF SearchUsers, Search
        <3>4. /\ scan.offset \in Nat /\ scan.limit \in 1 .. IntMax
              /\ \/ scan.offset = 0 \/ scan.limit <= scan.offset
                 \/ Cardinality(scan.expected) <= scan.offset
            BY <1>2, <3>1, SearchAssumptions DEF SearchInv, Search
        <3>5. /\ Cardinality(Found) <= Cardinality(UserIds) /\ Cardinality(UserIds) \in Nat
              /\ Cardinality(Found) \in Nat /\ Cardinality(scan.expected) \in Nat
            BY <3>1, FoundFinite, SubsetCount, SearchAssumptions DEF Search
        <3>6. scan.offset < Cardinality(Found) /\ scan.offset + scan.limit > IntMax
            BY <3>3, <3>4, <3>5 DEF BeyondEnd, Overflows
        <3>7. QED BY <3>3, <3>4, <3>5, <3>6, SearchAssumptions
    <2>3. CASE StartSearch
        BY <2>3 DEF StartSearch, NewSearch, SearchFailsOnlyIfGrown
    <2>4. CASE UNCHANGED <<vars, searchVars>>
        BY <1>2, <2>4 DEF vars, searchVars, Stored, Found, SearchFailsOnlyIfGrown
    <2>5. QED BY <1>2, <2>1, <2>2, <2>3, <2>4 DEF SearchNext
<1>3. QED BY <1>1, <1>2, SearchAccounts, SearchInvAlways, PTL DEF SearchSpec

=============================================================================
