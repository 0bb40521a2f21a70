------------------------------- MODULE Tokens -------------------------------
(***************************************************************************)
(* JwtTokenGenerator, which signs the token a login is answered with, and  *)
(* JwtAuthChecker, which lets requests pass that carry one.  The server    *)
(* keeps no list of tokens: what it knows of one are the claims it reads   *)
(* back, in whole seconds, and what its clock shows at that time.          *)
(*                                                                         *)
(* Time is counted in ticks of system_clock.  The clock is off by `skew'   *)
(* from real time, and is set now and then, as NTP or an operator does;    *)
(* its readings are counted from the latest it may lag behind, so that     *)
(* skew is never negative.                                                 *)
(***************************************************************************)
EXTENDS Integers

CONSTANTS Workers,         \* requests that can be served at the same time
          Users,
          TokenIds,        \* BOUND: the tokens that can ever be given out
          TicksPerSecond,
          Ttl, Leeway,     \* in ticks
          MaxSkew,         \* how far two readings of the clock may be off
          MaxTime,         \* BOUND: real time the model looks at
          None

VARIABLES now,             \* real time
          skew,            \* what the clock shows is now + skew
          tokens,          \* tokens given out: id |-> claims, or None
          pc, header,      \* the Authorization header of the request a worker serves
          user,            \* "user_id" in the request's context, None if not set
          answer,
          checked          \* history: when the header was checked

vars == <<now, skew, tokens, pc, header, user, answer, checked>>

\* iat stands for nbf too; born is history, the real time of the login.
Token == [sub: Users, iat: Nat, exp: Nat, born: Nat]

\* No header, one that is not "Bearer ..."; a bearer token that cannot be decoded, one
\* that another key signed, one that the key signed but for another issuer, audience or
\* algorithm, one that verifies but names no subject; or a token of this server.
Strange == {"absent", "basic", "garbage", "forged", "foreign", "anonymous"}

Headers == Strange \cup TokenIds

ASSUME TokensAssumptions ==
    /\ None \notin Token /\ None \notin Users
    /\ Strange \cap TokenIds = {}
    /\ TicksPerSecond \in Nat \ {0}
    /\ Ttl \in Nat /\ Leeway \in Nat /\ MaxSkew \in Nat /\ MaxTime \in Nat
    /\ Ttl % TicksPerSecond = 0

-----------------------------------------------------------------------------

Issued == {id \in TokenIds : tokens[id] # None}

\* system_clock::now()
Clock == now + skew

\* A claim is a whole number of seconds: the rest of the tick count is lost.
ToSecond(t) == t - (t % TicksPerSecond)

Claims(sub) ==
    [sub |-> sub, iat |-> ToSecond(Clock), exp |-> ToSecond(Clock + Ttl), born |-> now]

\* UserService::Login was given the password of sub and signs a token.
Generate(sub) ==
    /\ \E id \in TokenIds \ Issued : tokens' = [tokens EXCEPT ![id] = Claims(sub)]
    /\ UNCHANGED <<now, skew, pc, header, user, answer, checked>>

\* Mutant: a token that has expired is not given the leeway.
VerifiesStrictly(token) == Clock <= token.exp /\ Clock + Leeway >= token.iat

\* Mutant: the expiry is not among the claims that are checked.
VerifiesForever(token) == Clock + Leeway >= token.iat

\* The checks of jwt-cpp's verifier on the claims of time.
Verifies(token) == Clock <= token.exp + Leeway /\ Clock + Leeway >= token.iat

Receive(w) ==
    /\ pc[w] = "ready"
    /\ \E h \in Strange \cup Issued : header' = [header EXCEPT ![w] = h]
    /\ pc' = [pc EXCEPT ![w] = "CheckAuth"]
    /\ user' = [user EXCEPT ![w] = None]
    /\ answer' = [answer EXCEPT ![w] = "none"]
    /\ UNCHANGED <<now, skew, tokens, checked>>

Refuse(w, status) ==
    /\ pc' = [pc EXCEPT ![w] = "ready"]
    /\ answer' = [answer EXCEPT ![w] = status]
    /\ UNCHANGED user

Pass(w, sub) ==
    /\ pc' = [pc EXCEPT ![w] = "Handle"]
    /\ user' = [user EXCEPT ![w] = sub]
    /\ UNCHANGED answer

\* Mutant: a request without a header passes.
CheckAuthIfPresent(w) ==
    /\ pc[w] = "CheckAuth"
    /\ \/ header[w] = "absent" /\ Pass(w, None)
       \/ header[w] \in {"basic", "foreign", "anonymous"} /\ Refuse(w, "INVALID_TOKEN")
       \/ header[w] \in {"garbage", "forged"} /\ Refuse(w, "FORBIDDEN")
       \/ /\ header[w] \in Issued
          /\ IF Verifies(tokens[header[w]]) THEN Pass(w, tokens[header[w]].sub)
                                            ELSE Refuse(w, "INVALID_TOKEN")
    /\ checked' = [checked EXCEPT ![w] = now]
    /\ UNCHANGED <<now, skew, tokens, header>>

\* jwt-cpp raises token_verification_exception where a claim or the algorithm is not
\* the expected one, and other exceptions where a token cannot be decoded or its
\* signature is wrong.
CheckAuth(w) ==
    /\ pc[w] = "CheckAuth"
    /\ \/ header[w] = "absent" /\ Refuse(w, "TOKEN_NOT_FOUND")
       \/ header[w] \in {"basic", "foreign", "anonymous"} /\ Refuse(w, "INVALID_TOKEN")
       \/ header[w] \in {"garbage", "forged"} /\ Refuse(w, "FORBIDDEN")
       \/ /\ header[w] \in Issued
          /\ IF Verifies(tokens[header[w]]) THEN Pass(w, tokens[header[w]].sub)
                                            ELSE Refuse(w, "INVALID_TOKEN")
    /\ checked' = [checked EXCEPT ![w] = now]
    /\ UNCHANGED <<now, skew, tokens, header>>

\* The handler serves the user of the context, however long after the check.
Handle(w) ==
    /\ pc[w] = "Handle"
    /\ pc' = [pc EXCEPT ![w] = "ready"]
    /\ answer' = [answer EXCEPT ![w] = "SERVED"]
    /\ UNCHANGED <<now, skew, tokens, header, user, checked>>

-----------------------------------------------------------------------------
(* Time, and the process.                                                  *)

Tick ==
    /\ now < MaxTime
    /\ now' = now + 1
    /\ UNCHANGED <<skew, tokens, pc, header, user, answer, checked>>

SetClock ==
    /\ \E s \in 0 .. MaxSkew : s # skew /\ skew' = s
    /\ UNCHANGED <<now, tokens, pc, header, user, answer, checked>>

\* The key is in the configuration: a restarted server accepts the tokens it gave out.
Restart ==
    /\ pc' = [w \in Workers |-> "ready"]
    /\ user' = [w \in Workers |-> IF pc[w] = "ready" THEN user[w] ELSE None]
    /\ UNCHANGED <<now, skew, tokens, header, answer, checked>>

-----------------------------------------------------------------------------

Init ==
    /\ now = 0
    /\ skew \in 0 .. MaxSkew
    /\ tokens = [id \in TokenIds |-> None]
    /\ pc = [w \in Workers |-> "ready"]
    /\ header = [w \in Workers |-> "absent"]
    /\ user = [w \in Workers |-> None]
    /\ answer = [w \in Workers |-> "none"]
    /\ checked = [w \in Workers |-> 0]

Next == \/ \E sub \in Users : Generate(sub)
        \/ \E w \in Workers : Receive(w) \/ CheckAuth(w) \/ Handle(w)
        \/ Tick \/ SetClock \/ Restart

Spec == Init /\ [][Next]_vars

-----------------------------------------------------------------------------
(* Properties.                                                             *)

\* Every variable stays in its set; what is handled is handled for a user.
TypeOK ==
    /\ now \in Nat /\ skew \in 0 .. MaxSkew
    /\ tokens \in [TokenIds -> Token \cup {None}]
    /\ pc \in [Workers -> {"ready", "CheckAuth", "Handle"}]
    /\ header \in [Workers -> Headers]
    /\ \A w \in Workers : header[w] \in TokenIds => header[w] \in Issued
    /\ user \in [Workers -> Users \cup {None}]
    /\ \A w \in Workers : pc[w] = "Handle" => user[w] # None
    /\ answer \in [Workers -> {"none", "TOKEN_NOT_FOUND", "INVALID_TOKEN", "FORBIDDEN", "SERVED"}]
    /\ checked \in [Workers -> Nat]

\* How old the token of a request was when it was checked.
Age(w) == checked[w] - tokens[header[w]].born

\* The clock is set by less than the leeway, and the second that the claims lose.
ClockIsSteady == MaxSkew + TicksPerSecond <= Leeway + 1

\* A client with a token of its own login is not turned away before its lifetime is
\* over, by claims that lost a fraction of a second, by a clock that was set back
\* after the login or set forward since, or by a server that was restarted: that is
\* what leeway(30) is for (jwt_checker.cpp:45).
RefusedOnlyAfterLifetime ==
    ClockIsSteady => \A w \in Workers :
        header[w] \in Issued /\ pc[w] = "ready" /\ answer[w] # "none" /\ user[w] = None
            => answer[w] = "INVALID_TOKEN" /\ Age(w) > Ttl

\* Who is served is the user who logged in for the token the request carries, and the
\* token is no older than its lifetime and the leeway, but for the error of the clock.
\* The time is that of the check: a request served later, after waiting for its Mongo
\* commands, is not checked again.
ServedOnlyWithinLifetime ==
    \A w \in Workers : user[w] # None =>
        /\ header[w] \in Issued
        /\ user[w] = tokens[header[w]].sub
        /\ Age(w) <= Ttl + Leeway + MaxSkew
=============================================================================
