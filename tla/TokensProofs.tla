---------------------------- MODULE TokensProofs ----------------------------
(***************************************************************************)
(* The properties of Tokens for every lifetime, leeway and clock error,    *)
(* for any number of requests, users and tokens.                           *)
(***************************************************************************)
EXTENDS Tokens, TLAPS

\* What the claims of a token say of the time of its login, in spite of the error of
\* the clock and of the fraction of a second that they lose.
Claimed ==
    \A id \in Issued :
        /\ tokens[id].born <= now
        /\ tokens[id].iat <= tokens[id].born + MaxSkew
        /\ tokens[id].exp <= tokens[id].born + MaxSkew + Ttl
        /\ tokens[id].exp > tokens[id].born + Ttl - TicksPerSecond

\* The answer comes with the last step of a request, the user with the check.
Sequence ==
    \A w \in Workers : /\ pc[w] # "ready" => answer[w] = "none"
                       /\ pc[w] = "CheckAuth" => user[w] = None
                       /\ answer[w] = "SERVED" => user[w] # None

\* The parts of the two properties that are about one request.
Refused(w) ==
    ClockIsSteady /\ header[w] \in Issued /\ pc[w] = "ready" /\ answer[w] # "none"
      /\ user[w] = None => answer[w] = "INVALID_TOKEN" /\ Age(w) > Ttl

Served(w) ==
    user[w] # None =>
        /\ header[w] \in Issued
        /\ user[w] = tokens[header[w]].sub
        /\ Age(w) <= Ttl + Leeway + MaxSkew

Inv == TypeOK /\ Claimed /\ Sequence /\ \A w \in Workers : Refused(w) /\ Served(w)

-----------------------------------------------------------------------------

\* The second of an instant is the one it falls into.
LEMMA ToSecondBounds ==
    ASSUME NEW t \in Nat
    PROVE  ToSecond(t) \in Nat /\ ToSecond(t) <= t /\ ToSecond(t) > t - TicksPerSecond
<1>1. t % TicksPerSecond \in 0 .. (TicksPerSecond - 1) BY TokensAssumptions
<1>2. t = (TicksPerSecond * (t \div TicksPerSecond)) + (t % TicksPerSecond) BY TokensAssumptions
<1>3. t \div TicksPerSecond \in Nat BY TokensAssumptions
<1>4. TicksPerSecond * (t \div TicksPerSecond) \in Nat BY <1>3, TokensAssumptions
<1>5. QED BY <1>1, <1>2, <1>4, TokensAssumptions DEF ToSecond

\* A token that is refused has outlived its lifetime, if the clock is steady.
LEMMA RefusedIsOld ==
    ASSUME TypeOK, Claimed, ClockIsSteady, NEW id \in Issued, ~Verifies(tokens[id])
    PROVE  now - tokens[id].born > Ttl
<1>1. tokens[id] \in Token BY DEF TypeOK, Issued
<1>2. QED BY <1>1, TokensAssumptions DEF TypeOK, Claimed, ClockIsSteady, Verifies, Clock, Token

\* A token that is accepted is no older than lifetime, leeway and clock error allow.
LEMMA AcceptedIsYoung ==
    ASSUME TypeOK, Claimed, NEW id \in Issued, Verifies(tokens[id])
    PROVE  now - tokens[id].born <= Ttl + Leeway + MaxSkew
<1>1. tokens[id] \in Token BY DEF TypeOK, Issued
<1>2. QED BY <1>1, TokensAssumptions DEF TypeOK, Claimed, Verifies, Clock, Token

\* There are no tokens at first.
LEMMA InvInit == Init => Inv
<1> SUFFICES ASSUME Init PROVE Inv OBVIOUS
<1> USE TokensAssumptions DEF Init
<1>1. TypeOK BY DEF TypeOK, Headers, Strange, Issued
<1>2. Claimed /\ Sequence BY DEF Claimed, Issued, Sequence
<1>3. ASSUME NEW w \in Workers PROVE Refused(w) /\ Served(w) BY DEF Refused, Served
<1>4. QED BY <1>1, <1>2, <1>3 DEF Inv

\* Tokens are kept as they are, and so is what was found out about them.
LEMMA WorkerKept ==
    ASSUME NEW w \in Workers, Refused(w), Served(w), header[w] \in TokenIds => header[w] \in Issued,
           pc'[w] = pc[w], header'[w] = header[w], user'[w] = user[w], answer'[w] = answer[w],
           checked'[w] = checked[w],
           \A id \in Issued : id \in Issued' /\ tokens'[id] = tokens[id]
    PROVE  Refused(w)' /\ Served(w)'
<1>1. header[w] \in Issued' => header[w] \in Issued BY DEF Issued
<1>2. QED BY <1>1 DEF Refused, Served, Age, ClockIsSteady

\* A token is generated, and its times are recorded.
LEMMA GenerateKeepsInv ==
    ASSUME Inv, NEW sub \in Users, Generate(sub) PROVE Inv'
<1> USE TokensAssumptions DEF Inv
<1>1. PICK id \in TokenIds \ Issued : tokens' = [tokens EXCEPT ![id] = Claims(sub)]
    BY DEF Generate
<1>2. UNCHANGED <<now, skew, pc, header, user, answer, checked>> BY DEF Generate
<1>3. Clock \in Nat /\ Clock + Ttl \in Nat /\ Clock <= now + MaxSkew /\ Clock >= now /\ now \in Nat
    BY DEF Clock, TypeOK
<1>4. /\ Claims(sub) \in Token /\ Claims(sub).born = now
      /\ Claims(sub).iat <= now + MaxSkew /\ Claims(sub).exp <= now + MaxSkew + Ttl
      /\ Claims(sub).exp > now + Ttl - TicksPerSecond
    <2>1. /\ ToSecond(Clock) \in Nat /\ ToSecond(Clock) <= Clock
          /\ ToSecond(Clock + Ttl) \in Nat /\ ToSecond(Clock + Ttl) <= Clock + Ttl
          /\ ToSecond(Clock + Ttl) > Clock + Ttl - TicksPerSecond
        BY <1>3, ToSecondBounds
    <2>2. QED BY <1>3, <2>1 DEF Claims, Token
<1>5. /\ \A i \in TokenIds : tokens'[i] = IF i = id THEN Claims(sub) ELSE tokens[i]
      /\ tokens' \in [TokenIds -> Token \cup {None}]
    BY <1>1, <1>4 DEF TypeOK
<1>6. Issued' = Issued \cup {id} BY <1>4, <1>5 DEF Issued
<1>7. TypeOK' BY <1>2, <1>5, <1>6 DEF TypeOK
<1>8. Claimed'
    <2>1. SUFFICES ASSUME NEW i \in Issued'
                   PROVE  /\ tokens'[i].born <= now /\ tokens'[i].iat <= tokens'[i].born + MaxSkew
                          /\ tokens'[i].exp <= tokens'[i].born + MaxSkew + Ttl
                          /\ tokens'[i].exp > tokens'[i].born + Ttl - TicksPerSecond
        BY <1>2 DEF Claimed
    <2>2. CASE i = id
        <3>1. tokens'[i] = Claims(sub) BY <1>5, <2>2
        <3>2. /\ Claims(sub).born <= now
              /\ Claims(sub).iat <= Claims(sub).born + MaxSkew
              /\ Claims(sub).exp <= Claims(sub).born + MaxSkew + Ttl
              /\ Claims(sub).exp > Claims(sub).born + Ttl - TicksPerSecond
            BY <1>3, <1>4
        <3>3. QED BY <3>1, <3>2
    <2>3. CASE i # id
        <3>1. i \in Issued /\ i \in TokenIds BY <1>6, <2>3, <2>1 DEF Issued
        <3>2. tokens'[i] = tokens[i] BY <1>5, <2>3, <3>1
        <3>3. QED BY <3>1, <3>2 DEF Claimed
    <2>4. QED BY <2>2, <2>3
<1>9. Sequence' BY <1>2 DEF Sequence
<1>10. ASSUME NEW w \in Workers PROVE Refused(w)' /\ Served(w)'
    BY <1>1, <1>2, <1>5, <1>6, WorkerKept DEF TypeOK, Issued
<1>11. QED BY <1>7, <1>8, <1>9, <1>10

\* A request begins with a token.
LEMMA ReceiveKeepsInv ==
    ASSUME Inv, NEW w \in Workers, Receive(w) PROVE Inv'
<1> USE TokensAssumptions DEF Inv
<1>1. PICK h \in Strange \cup Issued : header' = [header EXCEPT ![w] = h] BY DEF Receive
<1>2. /\ pc' = [pc EXCEPT ![w] = "CheckAuth"] /\ user' = [user EXCEPT ![w] = None]
      /\ answer' = [answer EXCEPT ![w] = "none"]
      /\ UNCHANGED <<now, skew, tokens, checked>>
    BY DEF Receive
<1>3. Issued' = Issued BY <1>2 DEF Issued
<1>4. TypeOK' BY <1>1, <1>2, <1>3 DEF TypeOK, Headers, Issued
<1>5. Claimed' BY <1>2, <1>3 DEF Claimed
<1>6. Sequence' BY <1>2 DEF Sequence, TypeOK
<1>7. Refused(w)' /\ Served(w)' BY <1>2 DEF Refused, Served, TypeOK
<1>8. ASSUME NEW v \in Workers \ {w} PROVE Refused(v)' /\ Served(v)'
    BY <1>1, <1>2, <1>3, WorkerKept DEF TypeOK
<1>9. QED BY <1>4, <1>5, <1>6, <1>7, <1>8

\* The token is checked against the clock of the process.
LEMMA CheckKeepsInv ==
    ASSUME Inv, NEW w \in Workers, CheckAuth(w) PROVE Inv'
<1> USE TokensAssumptions DEF Inv
<1>1. pc[w] = "CheckAuth" /\ user[w] = None /\ UNCHANGED <<now, skew, tokens, header>>
    BY DEF CheckAuth, Sequence
<1>2. checked' = [checked EXCEPT ![w] = now] /\ checked'[w] = now BY DEF CheckAuth, TypeOK
<1>3. Issued' = Issued /\ Claimed' BY <1>1 DEF Issued, Claimed
<1>4. \/ /\ \E status \in {"TOKEN_NOT_FOUND", "INVALID_TOKEN", "FORBIDDEN"} :
               /\ Refuse(w, status)
               /\ header[w] \in Issued => status = "INVALID_TOKEN" /\ ~Verifies(tokens[header[w]])
      \/ /\ header[w] \in Issued /\ Verifies(tokens[header[w]])
         /\ Pass(w, tokens[header[w]].sub)
    BY DEF CheckAuth, Strange, Issued
<1>5. CASE \E status \in {"TOKEN_NOT_FOUND", "INVALID_TOKEN", "FORBIDDEN"} :
               /\ Refuse(w, status)
               /\ header[w] \in Issued => status = "INVALID_TOKEN" /\ ~Verifies(tokens[header[w]])
    <2>1. PICK status \in {"TOKEN_NOT_FOUND", "INVALID_TOKEN", "FORBIDDEN"} :
               /\ Refuse(w, status)
               /\ header[w] \in Issued => status = "INVALID_TOKEN" /\ ~Verifies(tokens[header[w]])
        BY <1>5
    <2>2. /\ pc' = [pc EXCEPT ![w] = "ready"] /\ answer' = [answer EXCEPT ![w] = status]
          /\ user' = user
        BY <2>1 DEF Refuse
    <2>3. TypeOK' BY <1>1, <1>2, <1>3, <2>2 DEF TypeOK
    <2>4. Sequence' BY <1>1, <2>2 DEF Sequence, TypeOK
    <2>5. Refused(w)'
        <3>1. SUFFICES ASSUME ClockIsSteady, header[w] \in Issued
                       PROVE  answer'[w] = "INVALID_TOKEN" /\ Age(w)' > Ttl
            BY <1>1, <1>3 DEF Refused, ClockIsSteady
        <3>2. now - tokens[header[w]].born > Ttl BY <2>1, <3>1, RefusedIsOld
        <3>3. QED BY <1>1, <1>2, <2>1, <2>2, <3>1, <3>2 DEF Age, TypeOK
    <2>6. Served(w)' BY <1>1, <2>2 DEF Served
    <2>7. ASSUME NEW v \in Workers \ {w} PROVE Refused(v)' /\ Served(v)'
        BY <1>1, <1>2, <1>3, <2>2, WorkerKept DEF CheckAuth, TypeOK
    <2>8. QED BY <1>3, <2>3, <2>4, <2>5, <2>6, <2>7
<1>6. CASE /\ header[w] \in Issued /\ Verifies(tokens[header[w]])
           /\ Pass(w, tokens[header[w]].sub)
    <2>1. /\ pc' = [pc EXCEPT ![w] = "Handle"] /\ answer' = answer
          /\ user' = [user EXCEPT ![w] = tokens[header[w]].sub]
        BY <1>6 DEF Pass
    <2>2. tokens[header[w]] \in Token /\ tokens[header[w]].sub \in Users
        BY <1>6 DEF TypeOK, Issued, Token
    <2>3. TypeOK' BY <1>1, <1>2, <1>3, <2>1, <2>2 DEF TypeOK
    <2>4. Sequence' BY <1>1, <2>1, <2>2 DEF Sequence, TypeOK
    <2>5. Refused(w)' BY <2>1 DEF Refused, TypeOK
    <2>6. Served(w)'
        <3>1. now - tokens[header[w]].born <= Ttl + Leeway + MaxSkew BY <1>6, AcceptedIsYoung
        <3>2. QED BY <1>1, <1>2, <1>3, <1>6, <2>1, <3>1 DEF Served, Age, TypeOK
    <2>7. ASSUME NEW v \in Workers \ {w} PROVE Refused(v)' /\ Served(v)'
        BY <1>1, <1>2, <1>3, <2>1, WorkerKept DEF CheckAuth, TypeOK
    <2>8. QED BY <1>3, <2>3, <2>4, <2>5, <2>6, <2>7
<1>7. QED BY <1>4, <1>5, <1>6

\* The request is handled for the user of its token.
LEMMA HandleKeepsInv ==
    ASSUME Inv, NEW w \in Workers, Handle(w) PROVE Inv'
<1> USE TokensAssumptions DEF Inv
<1>1. /\ pc[w] = "Handle" /\ pc' = [pc EXCEPT ![w] = "ready"]
      /\ answer' = [answer EXCEPT ![w] = "SERVED"]
      /\ UNCHANGED <<now, skew, tokens, header, user, checked>>
    BY DEF Handle
<1>2. Issued' = Issued BY <1>1 DEF Issued
<1>3. TypeOK' BY <1>1, <1>2 DEF TypeOK
<1>4. Claimed' /\ Sequence' BY <1>1, <1>2 DEF Claimed, Sequence, TypeOK
<1>5. Refused(w)' /\ Served(w)' BY <1>1, <1>2 DEF Refused, Served, Age, TypeOK
<1>6. ASSUME NEW v \in Workers \ {w} PROVE Refused(v)' /\ Served(v)'
    BY <1>1, <1>2, WorkerKept DEF TypeOK
<1>7. QED BY <1>3, <1>4, <1>5, <1>6

\* A restart ends the requests; tokens outlive it.
LEMMA RestartKeepsInv ==
    ASSUME Inv, Restart PROVE Inv'
<1> USE TokensAssumptions DEF Inv
<1>1. /\ pc' = [w \in Workers |-> "ready"]
      /\ user' = [w \in Workers |-> IF pc[w] = "ready" THEN user[w] ELSE None]
      /\ UNCHANGED <<now, skew, tokens, header, answer, checked>>
    BY DEF Restart
<1>2. Issued' = Issued BY <1>1 DEF Issued
<1>3. TypeOK' BY <1>1, <1>2 DEF TypeOK
<1>4. Claimed' BY <1>1, <1>2 DEF Claimed
<1>5. Sequence' BY <1>1 DEF Sequence
<1>6. ASSUME NEW w \in Workers PROVE Refused(w)' /\ Served(w)'
    BY <1>1, <1>2 DEF Refused, Served, Age, Sequence, ClockIsSteady
<1>7. QED BY <1>3, <1>4, <1>5, <1>6

\* Time passes, or the clock is set.
LEMMA TimeKeepsInv ==
    ASSUME Inv, UNCHANGED <<tokens, pc, header, user, answer, checked>>,
           now' \in Nat, now' >= now, skew' \in 0 .. MaxSkew
    PROVE  Inv'
<1> USE TokensAssumptions DEF Inv
<1>1. Issued' = Issued BY DEF Issued
<1>2. TypeOK' BY <1>1 DEF TypeOK
<1>3. \A id \in Issued : tokens[id].born \in Nat BY DEF TypeOK, Issued, Token
<1>4. Claimed' /\ Sequence' BY <1>1, <1>3 DEF Claimed, Sequence, TypeOK
<1>5. ASSUME NEW w \in Workers PROVE Refused(w)' /\ Served(w)'
    BY <1>1, WorkerKept DEF TypeOK
<1>6. QED BY <1>2, <1>4, <1>5

\* The invariant holds in every behaviour.
LEMMA InvAlways == Spec => []Inv
<1>1. ASSUME Inv, [Next]_vars PROVE Inv'
    <2>1. CASE Tick BY <1>1, <2>1, TimeKeepsInv DEF Tick, Inv, TypeOK
    <2>2. CASE SetClock BY <1>1, <2>2, TimeKeepsInv DEF SetClock, Inv, TypeOK
    <2>3. CASE UNCHANGED vars BY <1>1, <2>3, TimeKeepsInv DEF vars, Inv, TypeOK
    <2>4. QED BY <1>1, <2>1, <2>2, <2>3, GenerateKeepsInv, ReceiveKeepsInv, CheckKeepsInv,
                 HandleKeepsInv, RestartKeepsInv DEF Next
<1>2. QED BY <1>1, InvInit, PTL DEF Spec

\* Every variable of Tokens stays in its set, and no request is handled without a user.
THEOREM TokensTypeCorrect == Spec => []TypeOK
<1>1. Inv => TypeOK BY DEF Inv
<1>2. QED BY <1>1, InvAlways, PTL

\* For every lifetime, and every clock error below the leeway: a token of one's own is
\* good for its whole lifetime.
THEOREM LifetimeIsHonoured == Spec => []RefusedOnlyAfterLifetime
<1>1. Inv => RefusedOnlyAfterLifetime BY DEF Inv, Refused, RefusedOnlyAfterLifetime
<1>2. QED BY <1>1, InvAlways, PTL

\* For every lifetime, leeway and clock error: nobody is served for another user, or for
\* a token that was older than lifetime, leeway and clock error together.
THEOREM ServiceEndsWithLifetime == Spec => []ServedOnlyWithinLifetime
<1>1. Inv => ServedOnlyWithinLifetime BY DEF Inv, Served, ServedOnlyWithinLifetime
<1>2. QED BY <1>1, InvAlways, PTL
=============================================================================
