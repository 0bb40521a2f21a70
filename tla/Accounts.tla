------------------------------ MODULE Accounts ------------------------------
(***************************************************************************)
(* UserService on the users collection: clients who create their account   *)
(* (again, when they were given no answer or an error), log in and look    *)
(* logins up.                                                              *)
(*                                                                         *)
(* As in RentalBooking a handler is a sequence of Mongo commands, each of  *)
(* them atomic, and a write that failed or was interrupted may land later. *)
(* Two unique indexes guard the collection (init-mongo.js:214-215).        *)
(***************************************************************************)
EXTENDS Integers

CONSTANTS Clients,
          UserIds,     \* BOUND: the accounts that can ever be requested
          Logins, Emails, Passwords,
          Account,     \* the login, email and password each client chooses
          Loaded,      \* the users that the start-up script inserts (init-mongo.js)
          Faulty,      \* whether commands may fail and the process may die
          None

VARIABLES users,       \* the users collection: _id |-> document or None
          late,        \* inserts that outlived their caller
          pc, req, answer,
          token,       \* the subject of the last token a client was given
          registered   \* history: clients who have been told OK or CONFLICT

vars == <<users, late, pc, req, answer, token, registered>>

User == [login: Logins, email: Emails, password: Passwords]

Requests == [op: {"create", "login", "lookup"}, id: UserIds \cup {None},
             login: Logins \cup {None}, password: Passwords \cup {None}]

Answers == {"none", "OK", "VALIDATION_ERROR", "CONFLICT", "NOT_FOUND",
            "INVALID_CREDENTIALS", "INTERNAL"}

SameKey(a, b) == a.login = b.login \/ a.email = b.email

ASSUME AccountsAssumptions ==
    /\ None \notin UserIds /\ None \notin User
    /\ None \notin Logins /\ None \notin Passwords
    /\ Account \in [Clients -> User]
    /\ Loaded \in [UserIds -> User \cup {None}]
    /\ Faulty \in BOOLEAN

-----------------------------------------------------------------------------
(* The collection.                                                         *)

Stored == {id \in UserIds : users[id] # None}

\* The users whose login or email keeps the unique indexes from taking doc.
Duplicates(doc) == {id \in Stored : SameKey(users[id], doc)}

WithLogin(login) == {id \in Stored : users[id].login = login}

\* Mutant: the insert is an upsert by login.
InsertReplacing(id, doc) ==
    users' = [i \in UserIds |-> IF i \in WithLogin(doc.login) \/ (i = id /\ Duplicates(doc) = {})
                               THEN doc ELSE users[i]]

Insert(id, doc) ==
    users' = IF Duplicates(doc) = {} THEN [users EXCEPT ![id] = doc] ELSE users

-----------------------------------------------------------------------------
(* The handlers.                                                           *)

Goto(c, command) ==
    /\ pc' = [pc EXCEPT ![c] = command]
    /\ UNCHANGED <<answer, registered>>

Answer(c, code) ==
    /\ pc' = [pc EXCEPT ![c] = "ready"]
    /\ answer' = [answer EXCEPT ![c] = code]
    /\ registered' = IF req[c].op = "create" /\ code \in {"OK", "CONFLICT"}
                     THEN registered \cup {c} ELSE registered

Receive(c, request, first) ==
    /\ pc[c] = "ready"
    /\ pc' = [pc EXCEPT ![c] = first]
    /\ req' = [req EXCEPT ![c] = request]
    /\ answer' = [answer EXCEPT ![c] = "none"]
    /\ UNCHANGED <<users, late, token, registered>>

\* Ids no document, late insert or other request uses: the driver draws ObjectIds.
FreshIds(c) ==
    {id \in UserIds \ Stored : /\ \A m \in late : m.id # id
                               /\ \A d \in Clients \ {c} : req[d].id # id}

ReceiveCreateUser(c) ==
    \E id \in FreshIds(c) :
        Receive(c, [op |-> "create", id |-> id, login |-> Account[c].login,
                    password |-> Account[c].password], "InsertUser")

\* A request that is refused before anything is read from it.
Malformed(op) == [op |-> op, id |-> None, login |-> None, password |-> None]

Reject(c, op) ==
    /\ pc[c] = "ready"
    /\ answer' = [answer EXCEPT ![c] = "VALIDATION_ERROR"]
    /\ req' = [req EXCEPT ![c] = Malformed(op)]
    /\ UNCHANGED <<users, late, pc, token, registered>>

\* Mutant: the result of the validation is not looked at.
RejectInvalidUserIgnored(c) ==
    /\ pc[c] = "ready"
    /\ pc' = [pc EXCEPT ![c] = "InsertUser"]
    /\ req' = [req EXCEPT ![c] = Malformed("create")]
    /\ UNCHANGED <<users, late, answer, token, registered>>

\* domain::User::Create finds a field that is not well formed.
RejectInvalidUser(c) == Reject(c, "create")

\* Only E11000, the duplicate key, is answered with CONFLICT.
InsertUser(c) ==
    /\ pc[c] = "InsertUser"
    /\ IF Duplicates(Account[c]) = {} THEN Goto(c, "FindUser") ELSE Answer(c, "CONFLICT")
    /\ Insert(req[c].id, Account[c])
    /\ UNCHANGED <<late, req, token>>

FindUser(c) ==
    /\ pc[c] = "FindUser"
    /\ Answer(c, IF req[c].id \in Stored THEN "OK" ELSE "CONFLICT")
    /\ UNCHANGED <<users, late, req, token>>

ReceiveLogin(c) ==
    \E login \in Logins, password \in Passwords :
        Receive(c, [op |-> "login", id |-> None, login |-> login, password |-> password],
                "Login")

\* Mutant: the password is not verified.
LoginAnyAccount(c) ==
    /\ pc[c] = "Login"
    /\ \/ /\ WithLogin(req[c].login) = {}
          /\ Answer(c, "NOT_FOUND")
          /\ UNCHANGED token
       \/ \E id \in WithLogin(req[c].login) :
             /\ Answer(c, "OK")
             /\ token' = [token EXCEPT ![c] = id]
    /\ UNCHANGED <<users, late, req>>

Login(c) ==
    /\ pc[c] = "Login"
    /\ \/ /\ WithLogin(req[c].login) = {}
          /\ Answer(c, "NOT_FOUND")
          /\ UNCHANGED token
       \/ \E id \in WithLogin(req[c].login) :
             IF users[id].password = req[c].password
             THEN Answer(c, "OK") /\ token' = [token EXCEPT ![c] = id]
             ELSE Answer(c, "INVALID_CREDENTIALS") /\ UNCHANGED token
    /\ UNCHANGED <<users, late, req>>

ReceiveGetUserByLogin(c) ==
    \E login \in Logins :
        Receive(c, [op |-> "lookup", id |-> None, login |-> login, password |-> None],
                "GetUserByLogin")

\* The body is no JSON, or no LoginRequest.
RejectInvalidLogin(c) == Reject(c, "login")

\* The path has no login.
RejectEmptyLogin(c) == Reject(c, "lookup")

GetUserByLogin(c) ==
    /\ pc[c] = "GetUserByLogin"
    /\ Answer(c, IF WithLogin(req[c].login) = {} THEN "NOT_FOUND" ELSE "OK")
    /\ UNCHANGED <<users, late, req, token>>

-----------------------------------------------------------------------------
(* Failures.                                                               *)

\* Mutant: the storage turns every exception into nullopt, as for cars.
FailureAnswerNullopt(command) ==
    CASE command \in {"InsertUser", "FindUser"} -> "CONFLICT"
      [] OTHER -> "NOT_FOUND"

\* An exception of the driver leaves the storage, the service and the handler.
FailureAnswer(command) == "INTERNAL"

CommandFails(c) ==
    /\ Faulty /\ pc[c] # "ready"
    /\ late' = IF pc[c] = "InsertUser" THEN late \cup {[id |-> req[c].id, doc |-> Account[c]]}
                                       ELSE late
    /\ Answer(c, FailureAnswer(pc[c]))
    /\ UNCHANGED <<users, req, token>>

LateInsert == \E m \in late :
    /\ Insert(m.id, m.doc)
    /\ late' = late \ {m}
    /\ UNCHANGED <<pc, req, answer, token, registered>>

LostInsert == \E m \in late :
    /\ late' = late \ {m}
    /\ UNCHANGED <<users, pc, req, answer, token, registered>>

\* The process is killed and started again: nobody in flight gets an answer.
Crash ==
    /\ Faulty
    /\ pc' = [c \in Clients |-> "ready"]
    /\ late' = late \cup {[id |-> req[c].id, doc |-> Account[c]] :
                              c \in {d \in Clients : pc[d] = "InsertUser"}}
    /\ UNCHANGED <<users, req, answer, token, registered>>

-----------------------------------------------------------------------------

Init ==
    /\ users = Loaded
    /\ late = {}
    /\ pc = [c \in Clients |-> "ready"]
    /\ req = [c \in Clients |-> Malformed("create")]
    /\ answer = [c \in Clients |-> "none"]
    /\ token = [c \in Clients |-> None]
    /\ registered = {}

CreateUser(c) == ReceiveCreateUser(c) \/ RejectInvalidUser(c) \/ InsertUser(c) \/ FindUser(c)

Read(c) == \/ ReceiveLogin(c) \/ RejectInvalidLogin(c) \/ Login(c)
           \/ ReceiveGetUserByLogin(c) \/ RejectEmptyLogin(c) \/ GetUserByLogin(c)

Failure == (\E c \in Clients : CommandFails(c)) \/ LateInsert \/ LostInsert \/ Crash

Next == (\E c \in Clients : CreateUser(c) \/ Read(c)) \/ Failure

Spec == Init /\ [][Next]_vars

-----------------------------------------------------------------------------
(* Properties.                                                             *)

TypeOK ==
    /\ users \in [UserIds -> User \cup {None}]
    /\ late \subseteq [id: UserIds, doc: User]
    /\ pc \in [Clients -> {"ready", "InsertUser", "FindUser", "Login", "GetUserByLogin"}]
    /\ req \in [Clients -> Requests]
    /\ answer \in [Clients -> Answers]
    /\ \A c \in Clients : pc[c] = "InsertUser" => req[c].id \in UserIds
    /\ token \in [Clients -> UserIds \cup {None}]
    /\ registered \subseteq Clients

\* "User with this login or email already exists" is true when it is said, also
\* where commands fail: MongoStorage::CreateUser tells E11000 from the rest.
ConflictMeansTaken ==
    \A c \in Clients :
        req[c].op = "create" /\ answer[c] = "CONFLICT" =>
            Duplicates(Account[c]) \ {req[c].id} # {}

\* A client who was told that the account is created, or exists (after an error or
\* a crash ate the answer to an earlier attempt), has the account from then on: no
\* late or lost insert takes it away, and logging in or looking it up is refused
\* only where a rival's account has the login or the email.
RegisteredIsKnown ==
    \A c \in registered :
        /\ answer[c] \in {"NOT_FOUND", "INVALID_CREDENTIALS"}
        /\ req[c].login = Account[c].login
        /\ req[c].op = "login" => req[c].password = Account[c].password
        => \E id \in Stored : SameKey(users[id], Account[c]) /\ users[id] # Account[c]

\* A token is of the account with the login, and the password, that were given
\* for it, and the account is still the same while the client uses the token.
TokenMatchesPassword ==
    \A c \in Clients :
        req[c].op = "login" /\ answer[c] = "OK" =>
            /\ token[c] \in Stored
            /\ users[token[c]].login = req[c].login
            /\ users[token[c]].password = req[c].password

Directory == INSTANCE Registry WITH
    Ids <- UserIds, Docs <- User, Conflict <- SameKey,
    Initial <- Loaded, entries <- users

\* Whatever clients ask for and however late inserts land, the users are a
\* registry: of two rivals for a login or an email the first insert executed wins,
\* and an account, once stored, is never replaced or changed.
ImplementsRegistry == Directory!Spec
=============================================================================
