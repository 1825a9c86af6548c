----------------------------- MODULE AccountsProofs -----------------------------
(* Theorems about Accounts for any number of accounts, sessions, browsers and     *)
(* requests in flight, and for any life of a session.                             *)
EXTENDS Accounts, TLAPS

-----------------------------------------------------------------------------
\* What a request in flight has: a browser it answers to, the session its next
\* statement needs, the account it is about, and, once it may update an account, an
\* actor who is not locking himself out.
Formed(r) ==
    /\ r \in Request
    /\ r.op # "idle" => r.browser \in Browsers
    /\ r.op \in {"expire", "renew", "logout"} => r.token \in Tokens
    /\ r.op \in {"verify", "insert"} => r.target \in Users /\ r.kind = "login"
    /\ r.kind \in AdminKinds /\ r.op \in {"guard", "renew", "update", "create"} => r.target \in Users
    /\ r.op \in {"update", "create"} => r.kind = r.op
    /\ r.op = "renew" => r.user \in Users
    /\ r.op = "update" => ~SelfLockout(r.user, r.target, r.change)

AllFormed == \A h \in Slots : Formed(req[h])

Typed == TypeOK /\ AllFormed

\* A request that is about neither to insert, renew or delete a session nor to update an
\* account, and steps that leave every other request as it is: in all of this, in
\* starting no login or update, or in starting no renewal or deletion.
Calm(r) == r.op \notin {"insert", "renew", "update", "expire"}
Calmed == \A g \in Slots : req'[g] = req[g] \/ Calm(req'[g])
Quiet  == \A g \in Slots : req'[g] = req[g] \/ req'[g].op \notin {"insert", "renew", "update"}
Rested == \A g \in Slots : req'[g] = req[g] \/ req'[g].op \notin {"renew", "expire"}

LEMMA CalmedIsQuiet == Calmed => Quiet /\ Rested
BY DEF Calmed, Calm, Quiet, Rested

LEMMA IdleIsFormed == Formed(Idle)
BY DEF Formed, Idle, NoChange, Request, Steps, Kinds, Change, Answers, AdminKinds

LEMMA AnsweredIsFormed ==
    ASSUME NEW r, r \in Request, r.browser \in Browsers, NEW a \in Answers
    PROVE  Formed(Answered(r, a)) /\ Answered(r, a).op = "answered"
<1>1. r.kind \in Kinds /\ r.token \in Tokens \cup {None}
  BY DEF Request
<1>2. Idle \in Request
  BY IdleIsFormed DEF Formed
<1>3. Answered(r, a) \in Request
  BY <1>1, <1>2 DEF Answered, Request, Steps
<1>4. Answered(r, a).op = "answered" /\ Answered(r, a).browser = r.browser
  BY <1>2 DEF Answered, Request
<1> QED BY <1>3, <1>4 DEF Formed

LEMMA StartingIsFormed ==
    ASSUME Typed, NEW b \in Browsers, NEW kind \in Kinds
    PROVE  /\ Starting(b, kind) \in Request
           /\ Starting(b, kind).op = "guard" /\ Starting(b, kind).kind = kind
           /\ Starting(b, kind).browser = b
           /\ kind \notin AdminKinds => Formed(Starting(b, kind))
<1>1. CookieSent(b) \in Tokens \cup {None}
  BY DEF Typed, TypeOK, CookieSent
<1>2. Idle \in Request
  BY IdleIsFormed DEF Formed
<1>3. Starting(b, kind) \in Request
  <2>1. now \in Nat
    BY DEF Typed, TypeOK
  <2> QED BY <1>1, <1>2, <2>1 DEF Starting, Request, Steps
<1>4. Starting(b, kind).op = "guard" /\ Starting(b, kind).kind = kind /\ Starting(b, kind).browser = b
  BY <1>2 DEF Starting, Request
<1> QED BY <1>3, <1>4 DEF Formed

\* One slot changes.
LEMMA SlotKeeps ==
    ASSUME Typed, NEW h \in Slots, NEW r, Formed(r), req' = [req EXCEPT ![h] = r]
    PROVE  /\ req' \in [Slots -> Request] /\ AllFormed'
           /\ Calm(r) => Calmed
<1>1. \A g \in Slots : req'[g] = IF g = h THEN r ELSE req[g]
  BY DEF Typed, TypeOK
<1>2. \A g \in Slots : Formed(req'[g])
  BY <1>1 DEF Typed, AllFormed
<1>3. req' \in [Slots -> Request]
  BY DEF Typed, TypeOK, Formed
<1> QED BY <1>1, <1>2, <1>3 DEF AllFormed, Calmed

LEMMA AnswerKeeps ==
    ASSUME Typed, NEW h \in Slots, req[h].op # "idle", NEW a \in Answers, Answer(h, a)
    PROVE  req' \in [Slots -> Request] /\ AllFormed' /\ Calmed
<1>1. Formed(Answered(req[h], a)) /\ Answered(req[h], a).op = "answered"
  BY AnsweredIsFormed DEF Typed, AllFormed, Formed
<1> QED BY <1>1, SlotKeeps DEF Answer, Calm

-----------------------------------------------------------------------------
\* Types.

LEMMA InitTyped == Init => Typed
<1> SUFFICES ASSUME Init PROVE Typed
  OBVIOUS
<1>1. Idle \in Request
  BY IdleIsFormed DEF Formed
<1>2. TypeOK
  BY <1>1 DEF Init, TypeOK, Statuses
<1> QED BY <1>2, IdleIsFormed DEF Init, Typed, AllFormed

LEMMA SendTyped == ASSUME Typed, NEW b \in scenario.browsers, NEW h \in Slots, Send(b, h)
    PROVE  Typed' /\ Calmed
<1>1. b \in Browsers /\ scenario.kinds \subseteq Kinds /\ scenario.staff \subseteq Users
  BY ScenariosAreKnown DEF Typed, TypeOK
<1>2. PICK kind \in Offered(b), origin \in Origins :
         LET r == Starting(b, kind)
         IN  IF ~CsrfAllows(kind, origin)
             THEN req' = [req EXCEPT ![h] = Answered(r, 403)]
             ELSE IF kind \in AdminKinds
             THEN \E u \in scenario.staff, c \in Changes :
                    req' = [req EXCEPT ![h] = [r EXCEPT !.target = u, !.change = c]]
             ELSE IF kind = "login"
             THEN \E u \in scenario.staff :
                    req' = [req EXCEPT ![h] = [r EXCEPT !.op = "verify", !.target = u, !.at = 0]]
             ELSE req' = [req EXCEPT ![h] = r]
  BY DEF Send
<1>3. kind \in Kinds
  BY <1>1 DEF Offered
<1> DEFINE r == Starting(b, kind)
<1>4. /\ r \in Request /\ r.op = "guard" /\ r.kind = kind /\ r.browser = b
      /\ kind \notin AdminKinds => Formed(r)
  BY <1>1, <1>3, StartingIsFormed
<1> DEFINE Sent(q) == Formed(q) /\ Calm(q)
<1>5. Sent(Answered(r, 403))
  BY <1>1, <1>4, AnsweredIsFormed DEF Answers, Calm
<1>6. \A u \in Users, c \in Changes : Sent([r EXCEPT !.target = u, !.change = c])
  <2>1. SUFFICES ASSUME NEW u \in Users, NEW c \in Changes PROVE Sent([r EXCEPT !.target = u, !.change = c])
    OBVIOUS
  <2> DEFINE q == [r EXCEPT !.target = u, !.change = c]
  <2>2. q \in Request
    BY <1>4, ChangesAreKnown DEF Request
  <2>3. q.op = "guard" /\ q.kind = kind /\ q.browser = b /\ q.target = u
    BY <1>4 DEF Request
  <2> HIDE DEF q, r
  <2>4. Sent(q)
    BY <1>1, <2>2, <2>3 DEF Formed, Calm
  <2> QED BY <2>4 DEF q
<1>7. \A u \in Users : kind = "login" => Sent([r EXCEPT !.op = "verify", !.target = u, !.at = 0])
  BY <1>1, <1>4 DEF Formed, Request, Steps, AdminKinds, Calm
<1>8. \E q : Sent(q) /\ req' = [req EXCEPT ![h] = q]
  <2> HIDE DEF r
  <2>1. CASE ~CsrfAllows(kind, origin)
    BY <1>2, <1>5, <2>1 DEF r
  <2>2. CASE CsrfAllows(kind, origin) /\ kind \in AdminKinds
    BY <1>1, <1>2, <1>6, <2>2 DEF r
  <2>3. CASE CsrfAllows(kind, origin) /\ kind \notin AdminKinds /\ kind = "login"
    BY <1>1, <1>2, <1>7, <2>3 DEF r
  <2>4. CASE CsrfAllows(kind, origin) /\ kind \notin AdminKinds /\ kind # "login"
    BY <1>2, <1>4, <2>4 DEF r, Calm
  <2> QED BY <2>1, <2>2, <2>3, <2>4
<1>9. req' \in [Slots -> Request] /\ AllFormed' /\ Calmed
  BY <1>8, SlotKeeps
<1> QED BY <1>9 DEF Typed, TypeOK, Send, tables, history

LEMMA AnsweringTyped ==
    ASSUME Typed, NEW h \in Slots, Throttle(h) \/ DatabaseError(h)
    PROVE  Typed' /\ Calmed
<1>1. req' \in [Slots -> Request] /\ AllFormed' /\ Calmed
  BY AnswerKeeps DEF Throttle, DatabaseError, Answers
<1> QED BY <1>1 DEF Typed, TypeOK, Throttle, DatabaseError, tables, history

LEMMA LoginReadTyped == ASSUME Typed, NEW h \in Slots, LoginRead(h) PROVE Typed'
<1>1. req' \in [Slots -> Request] /\ AllFormed'
  <2>1. CASE Answer(h, 401)
    BY <2>1, AnswerKeeps DEF LoginRead, Answers
  <2>2. CASE req' = [req EXCEPT ![h].op = "insert"]
    <3>1. Formed([req[h] EXCEPT !.op = "insert"])
      BY DEF LoginRead, Typed, AllFormed, Formed, Request, Steps
    <3>2. req' = [req EXCEPT ![h] = [req[h] EXCEPT !.op = "insert"]]
      BY <2>2 DEF Typed, TypeOK
    <3> QED BY <3>1, <3>2, SlotKeeps
  <2> QED BY <2>1, <2>2 DEF LoginRead
<1> QED BY <1>1 DEF Typed, TypeOK, LoginRead, tables, history

LEMMA LoginInsertTyped == ASSUME Typed, NEW h \in Slots, LoginInsert(h) PROVE Typed' /\ Calmed
<1>1. PICK s \in fresh :
         /\ fresh' = fresh \ {s} /\ sessions' = sessions \cup {s}
         /\ owner' = [owner EXCEPT ![s] = req[h].target]
         /\ expires' = [expires EXCEPT ![s] = now + TTL]
         /\ lastUse' = [lastUse EXCEPT ![s] = now]
         /\ req' = [req EXCEPT ![h] = Answered([req[h] EXCEPT !.token = s], 200)]
  BY DEF LoginInsert
<1>2. s \in Tokens /\ req[h].target \in Users /\ req[h] \in Request /\ req[h].browser \in Browsers
  BY DEF LoginInsert, Typed, TypeOK, AllFormed, Formed
<1> DEFINE r == Answered([req[h] EXCEPT !.token = s], 200)
<1>3. Formed(r) /\ Calm(r)
  <2> DEFINE q == [req[h] EXCEPT !.token = s]
  <2>1. q \in Request /\ q.browser \in Browsers
    BY <1>2 DEF Request
  <2> HIDE DEF q
  <2>2. Formed(Answered(q, 200)) /\ Calm(Answered(q, 200))
    BY <2>1, AnsweredIsFormed DEF Answers, Calm
  <2> QED BY <2>2 DEF q
<1>4. req' \in [Slots -> Request] /\ AllFormed' /\ Calmed
  <2> HIDE DEF r
  <2> QED BY <1>1, <1>3, SlotKeeps DEF r
<1>5. /\ owner' \in [Tokens -> Users \cup {None}] /\ expires' \in [Tokens -> Nat]
      /\ lastUse' \in [Tokens -> Nat] /\ fresh' \subseteq Tokens /\ sessions' \subseteq Tokens
      /\ fresh' \cap sessions' = {} /\ \A t \in sessions' : owner'[t] \in Users
  BY <1>1, <1>2, TimesAreWhole DEF Typed, TypeOK
<1> QED BY <1>4, <1>5 DEF Typed, TypeOK, LoginInsert

LEMMA AfterSessionIsFormed ==
    ASSUME NEW r, r \in Request, r.browser \in Browsers, r.token \in Tokens,
           r.kind \in AdminKinds => r.target \in Users, NEW u \in Users, NEW as
    PROVE  /\ Formed(AfterSession(r, u, as))
           /\ AfterSession(r, u, as).op \notin {"insert", "renew"}
           /\ AfterSession(r, u, as).op = "update" =>
                 as = "ADMIN" /\ r.kind = "update" /\ AfterSession(r, u, as).user = u
<1> DEFINE next == AfterSession(r, u, as)
<1> DEFINE q == [r EXCEPT !.op = r.kind, !.user = u, !.as = None, !.at = 0]
<1>1. \/ next = Answered(r, 403) \/ next = Answered(r, 200)
      \/ /\ next = q /\ r.kind \in AdminKinds \cup {"logout"}
         /\ r.kind \in AdminKinds => as = "ADMIN"
         /\ r.kind = "update" => ~SelfLockout(u, r.target, r.change)
  <2> DEFINE forbidden == \/ r.kind \in AdminKinds /\ as # "ADMIN"
                          \/ r.kind = "update" /\ SelfLockout(u, r.target, r.change)
  <2>1. CASE forbidden
    BY <2>1 DEF AfterSession
  <2>2. CASE ~forbidden /\ r.kind \in AdminKinds \cup {"logout"}
    <3>1. next = q
      BY <2>2 DEF AfterSession
    <3> QED BY <2>2, <3>1
  <2>3. CASE ~forbidden /\ r.kind \notin AdminKinds \cup {"logout"}
    BY <2>3 DEF AfterSession
  <2> QED BY <2>1, <2>2, <2>3
<1>2. /\ Formed(Answered(r, 403)) /\ Answered(r, 403).op = "answered"
      /\ Formed(Answered(r, 200)) /\ Answered(r, 200).op = "answered"
  BY AnsweredIsFormed DEF Answers
<1>3. ASSUME r.kind \in AdminKinds \cup {"logout"} PROVE q \in Request
  BY <1>3 DEF Request, Steps, AdminKinds
<1>4. /\ q.op = r.kind /\ q.kind = r.kind /\ q.browser = r.browser /\ q.token = r.token
      /\ q.target = r.target /\ q.change = r.change /\ q.user = u
  BY DEF Request
<1> HIDE DEF q, next
<1>5. CASE next = Answered(r, 403) \/ next = Answered(r, 200)
  <2>1. Formed(next) /\ next.op = "answered"
    BY <1>2, <1>5
  <2> QED BY <2>1 DEF next
<1>6. CASE /\ next = q /\ r.kind \in AdminKinds \cup {"logout"}
           /\ r.kind \in AdminKinds => as = "ADMIN"
           /\ r.kind = "update" => ~SelfLockout(u, r.target, r.change)
  <2>1. Formed(q)
    BY <1>3, <1>4, <1>6 DEF Formed, AdminKinds
  <2>2. q.op \notin {"insert", "renew"} /\ (q.op = "update" => as = "ADMIN" /\ r.kind = "update")
    BY <1>4, <1>6 DEF AdminKinds
  <2>3. Formed(next) /\ next.op \notin {"insert", "renew"} /\ next.user = u
        /\ (next.op = "update" => as = "ADMIN" /\ r.kind = "update")
    BY <1>4, <1>6, <2>1, <2>2
  <2> QED BY <2>3 DEF next
<1> QED BY <1>1, <1>5, <1>6

\* What a request that is let in becomes.
LetIn(h, r) ==
    LET s == req[h].token
        u == owner[s]
    IN  /\ s \in sessions /\ status[u] = "ACTIVE"
        /\ \/ r = [[req[h] EXCEPT !.at = now] EXCEPT !.op = "renew", !.user = u, !.as = role[u]]
           \/ r = AfterSession([req[h] EXCEPT !.at = now], u, role[u])
        /\ req' = [req EXCEPT ![h] = r]
        /\ crossed' = (crossed \/ (req[h].kind = "update" /\ \E g \in Slots : Updating(g)))

LEMMA ValidateIsLetIn ==
    ASSUME Typed, NEW h \in Slots, Validate(h)
    PROVE  Typed' /\ ((Quiet /\ crossed' = crossed) \/ \E r : Formed(r) /\ LetIn(h, r))
<1> DEFINE s == req[h].token
<1> DEFINE u == owner[s]
<1> DEFINE q == [req[h] EXCEPT !.at = now]
<1>1. /\ req[h] \in Request /\ req[h].op = "guard" /\ req[h].browser \in Browsers
      /\ s \in Tokens \cup {None}
      /\ req[h].kind \in AdminKinds => req[h].target \in Users
  BY DEF Validate, Typed, AllFormed, Formed, Request
<1>2. /\ q \in Request /\ q.op = "guard" /\ q.kind = req[h].kind /\ q.browser = req[h].browser
      /\ q.token = s /\ q.target = req[h].target
  BY <1>1 DEF Request, Typed, TypeOK
<1> HIDE DEF q
<1>3. CASE req' = [req EXCEPT ![h] = [q EXCEPT !.op = "expire"]] /\ s \in sessions /\ crossed' = crossed
           /\ ended' \in {ended, ended \cup {s}} /\ UNCHANGED <<lastUse, refused>>
  <2>1. Formed([q EXCEPT !.op = "expire"]) /\ [q EXCEPT !.op = "expire"].op = "expire"
    BY <1>1, <1>2, <1>3 DEF Formed, Request, Steps, Typed, TypeOK
  <2>2. req' \in [Slots -> Request] /\ AllFormed' /\ Quiet
    BY <1>3, <2>1, SlotKeeps DEF Quiet, Typed, TypeOK
  <2> QED BY <1>3, <2>2 DEF Typed, TypeOK, Validate, tables
<1>4. CASE Answer(h, 401) /\ refused' = refused \cup ({s} \ {None}) /\ UNCHANGED <<lastUse, ended, crossed>>
  <2>1. req' \in [Slots -> Request] /\ AllFormed' /\ Quiet
    BY <1>1, <1>4, AnswerKeeps, CalmedIsQuiet DEF Answers
  <2> QED BY <1>1, <1>4, <2>1 DEF Typed, TypeOK, Validate, tables
<1>5. CASE /\ s \in sessions /\ status[u] = "ACTIVE"
           /\ req' = [req EXCEPT ![h] =
                 IF RenewalDue(s) THEN [q EXCEPT !.op = "renew", !.user = u, !.as = role[u]]
                                  ELSE AfterSession(q, u, role[u])]
           /\ lastUse' = [lastUse EXCEPT ![s] = IF RenewalDue(s) THEN @ ELSE now]
           /\ crossed' = (crossed \/ (req[h].kind = "update" /\ \E g \in Slots : Updating(g)))
           /\ UNCHANGED <<ended, refused>>
  <2> DEFINE r == IF RenewalDue(s) THEN [q EXCEPT !.op = "renew", !.user = u, !.as = role[u]]
                                   ELSE AfterSession(q, u, role[u])
  <2>1. s \in Tokens /\ u \in Users /\ role[u] \in Roles
    BY <1>5 DEF Typed, TypeOK
  <2>2. Formed([q EXCEPT !.op = "renew", !.user = u, !.as = role[u]])
    BY <1>1, <1>2, <2>1 DEF Formed, Request, Steps
  <2>3. Formed(AfterSession(q, u, role[u]))
    BY <1>1, <1>2, <2>1, AfterSessionIsFormed
  <2>4. Formed(r)
    BY <2>2, <2>3
  <2>5. LetIn(h, r)
    BY <1>5 DEF LetIn, q
  <2> HIDE DEF r
  <2>6. req' \in [Slots -> Request] /\ AllFormed'
    BY <1>5, <2>4, SlotKeeps DEF r
  <2>7. lastUse' \in [Tokens -> Nat] /\ crossed' \in BOOLEAN
    BY <1>5 DEF Typed, TypeOK
  <2> QED BY <1>5, <2>4, <2>5, <2>6, <2>7 DEF Typed, TypeOK, Validate, tables
<1> QED BY <1>3, <1>4, <1>5 DEF Validate, q

LEMMA DeleteExpiredTyped == ASSUME Typed, NEW h \in Slots, DeleteExpired(h) PROVE Typed' /\ Calmed
<1>1. req' \in [Slots -> Request] /\ AllFormed' /\ Calmed
  BY AnswerKeeps DEF DeleteExpired, Answers
<1>2. req[h].token \in Tokens
  BY DEF DeleteExpired, Typed, AllFormed, Formed
<1> QED BY <1>1, <1>2 DEF Typed, TypeOK, DeleteExpired

LEMMA RenewTyped ==
    ASSUME Typed, NEW h \in Slots, Renew(h)
    PROVE  /\ Typed'
           /\ Calmed \/ req' = [req EXCEPT ![h] = AfterSession(req[h], req[h].user, req[h].as)]
           /\ sessions' = sessions
<1> DEFINE s == req[h].token
<1>1. /\ req[h] \in Request /\ req[h].browser \in Browsers /\ s \in Tokens
      /\ req[h].kind \in AdminKinds => req[h].target \in Users
      /\ req[h].user \in Users /\ req[h].at \in Nat
  BY DEF Renew, Typed, AllFormed, Formed, Request
<1>2. CASE Answer(h, 500) /\ UNCHANGED <<sessions, expires, lastUse>>
  <2>1. req' \in [Slots -> Request] /\ AllFormed' /\ Calmed
    BY <1>2, AnswerKeeps DEF Renew, Answers
  <2> QED BY <1>2, <2>1 DEF Typed, TypeOK, Renew
<1>3. CASE /\ sessions' = sessions \cup Renewable(s)
           /\ expires' = [expires EXCEPT ![s] = req[h].at + TTL]
           /\ lastUse' = [lastUse EXCEPT ![s] = req[h].at]
           /\ req' = [req EXCEPT ![h] = AfterSession(req[h], req[h].user, req[h].as)]
  <2>1. Formed(AfterSession(req[h], req[h].user, req[h].as))
    BY <1>1, AfterSessionIsFormed
  <2>2. req' \in [Slots -> Request] /\ AllFormed'
    BY <1>3, <2>1, SlotKeeps
  <2>3. sessions' = sessions /\ expires' \in [Tokens -> Nat] /\ lastUse' \in [Tokens -> Nat]
    BY <1>1, <1>3, TimesAreWhole DEF Renewable, Typed, TypeOK
  <2> QED BY <1>3, <2>2, <2>3 DEF Typed, TypeOK, Renew
<1> QED BY <1>2, <1>3 DEF Renew

LEMMA LogoutTyped == ASSUME Typed, NEW h \in Slots, Logout(h) PROVE Typed' /\ Calmed
<1>1. req' \in [Slots -> Request] /\ AllFormed' /\ Calmed
  BY AnswerKeeps DEF Logout, Answers
<1>2. req[h].token \in Tokens
  BY DEF Logout, Typed, AllFormed, Formed
<1> QED BY <1>1, <1>2 DEF Typed, TypeOK, Logout

LEMMA UpdateUserTyped == ASSUME Typed, NEW h \in Slots, UpdateUser(h) PROVE Typed' /\ Calmed
<1>1. req' \in [Slots -> Request] /\ AllFormed' /\ Calmed
  BY AnswerKeeps DEF UpdateUser, Answers
<1>2. /\ req[h].target \in Users
      /\ req[h].change.role \in Roles \cup {None} /\ req[h].change.status \in Statuses \cup {None}
  BY DEF UpdateUser, Typed, AllFormed, Formed, AdminKinds, Request, Change
<1>3. role' \in [Users -> Roles] /\ status' \in [Users -> Statuses]
  BY <1>2 DEF UpdateUser, Typed, TypeOK
<1>4. sessions' \subseteq sessions /\ ended' \subseteq Tokens /\ raced' \subseteq Users
  BY <1>2 DEF UpdateUser, Revoked, Typed, TypeOK
<1> QED BY <1>1, <1>3, <1>4 DEF Typed, TypeOK, UpdateUser

LEMMA CreateUserTyped == ASSUME Typed, NEW h \in Slots, CreateUser(h) PROVE Typed' /\ Calmed
<1>1. req' \in [Slots -> Request] /\ AllFormed' /\ Calmed
  BY AnswerKeeps DEF CreateUser, Answers
<1>2. req[h].target \in Users
  BY DEF CreateUser, Typed, AllFormed, Formed, AdminKinds
<1>3. users' \subseteq Users /\ role' \in [Users -> Roles] /\ status' \in [Users -> Statuses]
  BY <1>2 DEF CreateUser, Typed, TypeOK, Statuses
<1> QED BY <1>1, <1>3 DEF Typed, TypeOK, CreateUser, history

\* The browser asks for a page or a probe.
LEMMA ProbeIsFormed ==
    ASSUME NEW b \in Browsers, NEW t \in Tokens \cup {None}, NEW d \in Nat
    PROVE  LET probe == [Idle EXCEPT !.op = "guard", !.kind = "page", !.browser = b, !.at = d,
                                !.token = t]
           IN  Formed(probe) /\ Calm(probe)
<1> DEFINE probe == [Idle EXCEPT !.op = "guard", !.kind = "page", !.browser = b, !.at = d,
                                 !.token = t]
<1>1. Idle \in Request
  BY IdleIsFormed DEF Formed
<1>2. probe \in Request
  BY <1>1 DEF Request, Steps, Kinds
<1>3. probe.op = "guard" /\ probe.kind = "page" /\ probe.browser = b
  BY <1>1 DEF Request
<1> HIDE DEF probe
<1>4. Formed(probe) /\ Calm(probe)
  BY <1>2, <1>3 DEF Formed, AdminKinds, Calm
<1> QED BY <1>4 DEF probe

LEMMA IdleIsCalm == Calm(Idle)
BY DEF Calm, Idle

LEMMA ReceiveTyped ==
    ASSUME Typed, NEW h \in Slots,
           ReceivePage(h) \/ ReceiveSigning(h) \/ ReceiveWork(h) \/ ReceiveMe(h) \/ Lose(h)
    PROVE  Typed' /\ Calmed
<1> DEFINE b == req[h].browser
<1>1. b \in Browsers /\ req[h] \in Request /\ req[h].token \in Tokens \cup {None}
  BY DEF ReceivePage, ReceiveSigning, ReceiveWork, ReceiveMe, Lose, Typed, AllFormed, Formed, Request
<1>2. \A t \in Tokens \cup {None} : Carrying(t) \in [token : Tokens \cup {None}, until : Nat]
  BY TimesAreWhole DEF Carrying, Typed, TypeOK
<1>3. ASSUME Free(h) PROVE req' \in [Slots -> Request] /\ AllFormed' /\ Calmed
  BY <1>3, SlotKeeps, IdleIsFormed, IdleIsCalm DEF Free
<1>4. CASE ReceivePage(h)
  <2>1. page' \in [Browsers -> {"login", "app", "leaving"}]
    BY <1>1, <1>4 DEF ReceivePage, Typed, TypeOK
  <2>2. req' \in [Slots -> Request] /\ AllFormed' /\ Calmed
    BY <1>3, <1>4 DEF ReceivePage
  <2> QED BY <1>4, <2>1, <2>2 DEF Typed, TypeOK, ReceivePage, tables, history
<1>5. CASE ReceiveSigning(h)
  <2> DEFINE c == IF req[h].kind = "login" THEN Carrying(req[h].token) ELSE [token |-> None, until |-> 0]
  <2>1. c \in [token : Tokens \cup {None}, until : Nat]
    BY <1>1, <1>2
  <2>2. CASE cookie' = [cookie EXCEPT ![b] = c] /\ Navigate(h, b, c)
    <3>1. (IF now < c.until THEN c.token ELSE None) \in Tokens \cup {None}
      BY <2>1
    <3> HIDE DEF c
    <3>2. req' \in [Slots -> Request] /\ AllFormed' /\ Calmed
      <4>1. now \in Nat
        BY DEF Typed, TypeOK
      <4> QED BY <1>1, <2>2, <3>1, <4>1, SlotKeeps, ProbeIsFormed DEF Navigate
    <3>3. cookie' \in [Browsers -> [token : Tokens \cup {None}, until : Nat]]
      BY <1>1, <2>1, <2>2 DEF Typed, TypeOK
    <3> QED BY <1>5, <3>2, <3>3 DEF Typed, TypeOK, ReceiveSigning, tables, history
  <2>3. CASE UNCHANGED cookie /\ Free(h)
    BY <1>3, <1>5, <2>3 DEF Typed, TypeOK, ReceiveSigning, tables, history
  <2> QED BY <1>5, <2>2, <2>3 DEF ReceiveSigning
<1>6. CASE ReceiveWork(h)
  <2>1. CASE Free(h)
    BY <1>3, <1>6, <2>1 DEF Typed, TypeOK, ReceiveWork, tables, history
  <2>2. CASE req' = [req EXCEPT ![h] = Starting(b, "me")]
    <3>1. Formed(Starting(b, "me")) /\ Calm(Starting(b, "me"))
      BY <1>1, StartingIsFormed DEF Kinds, AdminKinds, Calm
    <3>2. req' \in [Slots -> Request] /\ AllFormed' /\ Calmed
      BY <2>2, <3>1, SlotKeeps
    <3> QED BY <1>6, <3>2 DEF Typed, TypeOK, ReceiveWork, tables, history
  <2>3. CASE req' = [req EXCEPT ![h].op = "joined", ![h].kind = "me", ![h].answer = 0]
    <3> DEFINE q == [req[h] EXCEPT !.op = "joined", !.kind = "me", !.answer = 0]
    <3>1. Formed(q) /\ Calm(q)
      <4>1. q \in Request
        <5>1. "joined" \in Steps /\ "me" \in Kinds /\ 0 \in Answers
          BY DEF Steps, Kinds, Answers
        <5> QED BY <1>1, <5>1 DEF Request
      <4>2. q.op = "joined" /\ q.kind = "me" /\ q.browser = b
        BY <1>1 DEF Request
      <4> HIDE DEF q
      <4> QED BY <1>1, <4>1, <4>2 DEF Formed, AdminKinds, Calm
    <3>2. req' = [req EXCEPT ![h] = q]
      BY <2>3 DEF Typed, TypeOK
    <3>3. req' \in [Slots -> Request] /\ AllFormed' /\ Calmed
      <4> HIDE DEF q
      <4> QED BY <3>1, <3>2, SlotKeeps
    <3> QED BY <1>6, <3>3 DEF Typed, TypeOK, ReceiveWork, tables, history
  <2> QED BY <1>6, <2>1, <2>2, <2>3 DEF ReceiveWork
<1>7. CASE ReceiveMe(h)
  <2> DEFINE probe == Starting(b, "page")
  <2>1. Formed(probe) /\ Calm(probe)
    BY <1>1, StartingIsFormed DEF Kinds, AdminKinds, Calm
  <2>2. /\ req' = [g \in Slots |-> IF g \in Waiting(b) THEN Idle ELSE IF g # h THEN req[g]
                                  ELSE IF Confirmed(req[h].answer) THEN Idle ELSE probe]
        /\ cookie' = [cookie EXCEPT ![b] = IF req[h].answer = 200 THEN Carrying(req[h].token) ELSE cookie[b]]
    BY <1>7 DEF ReceiveMe
  <2> HIDE DEF probe
  <2>3. \A g \in Slots : Formed(req'[g]) /\ (req'[g] = req[g] \/ Calm(req'[g]))
    BY <2>1, <2>2, IdleIsFormed, IdleIsCalm DEF Typed, AllFormed
  <2>4. cookie' \in [Browsers -> [token : Tokens \cup {None}, until : Nat]]
    BY <1>1, <1>2, <2>2 DEF Typed, TypeOK
  <2>5. page' \in [Browsers -> {"login", "app", "leaving"}]
    BY <1>1, <1>7 DEF ReceiveMe, Typed, TypeOK
  <2>6. req' \in [Slots -> Request] /\ AllFormed' /\ Calmed
    BY <2>2, <2>3 DEF Formed, AllFormed, Calmed
  <2> QED BY <1>7, <2>4, <2>5, <2>6 DEF Typed, TypeOK, ReceiveMe, tables, history
<1>8. CASE Lose(h)
  <2>1. PICK gone \in SUBSET Slots : req' = [g \in Slots |-> IF g \in gone THEN Idle ELSE req[g]]
    BY <1>8 DEF Lose, Waiting
  <2>2. \A g \in Slots : Formed(req'[g]) /\ (req'[g] = req[g] \/ Calm(req'[g]))
    BY <2>1, IdleIsFormed, IdleIsCalm DEF Typed, AllFormed
  <2>3. req' \in [Slots -> Request] /\ AllFormed' /\ Calmed
    BY <2>1, <2>2 DEF Formed, AllFormed, Calmed
  <2> QED BY <1>8, <2>3 DEF Typed, TypeOK, Lose, tables, history
<1> QED BY <1>4, <1>5, <1>6, <1>7, <1>8

LEMMA TickTyped == ASSUME Typed, Tick PROVE Typed' /\ Calmed
BY DEF Typed, TypeOK, AllFormed, Tick, tables, history, Calmed

LEMMA StutterTyped == ASSUME Typed, UNCHANGED vars PROVE Typed' /\ Calmed
BY DEF Typed, TypeOK, AllFormed, vars, tables, history, Calmed

LEMMA NextTyped == ASSUME Typed, [Next]_vars PROVE Typed'
<1>1. ASSUME NEW h \in Slots, Validate(h) PROVE Typed'
  BY <1>1, ValidateIsLetIn
<1>2. ASSUME NEW h \in Slots, Renew(h) PROVE Typed'
  BY <1>2, RenewTyped
<1> QED BY <1>1, <1>2, SendTyped, AnsweringTyped, LoginReadTyped, LoginInsertTyped, DeleteExpiredTyped,
           LogoutTyped, UpdateUserTyped, CreateUserTyped, ReceiveTyped, TickTyped, StutterTyped
        DEF Next

\* Every variable keeps its type, and every request in flight has what its next statement
\* needs.
THEOREM TypeCorrect == Spec => []TypeOK
<1>1. Typed /\ [Next]_vars => Typed'
  BY NextTyped
<1>2. Typed => TypeOK
  BY DEF Typed
<1> QED BY InitTyped, <1>1, <1>2, PTL DEF Spec

\* A session that was deleted never comes back: only a login inserts one, under a new
\* token, and a renewal that finds no row fails (AuthService.renewSessionIfNeeded).
THEOREM NeverReturns == Spec => DeletedSessionNeverReturns
<1> DEFINE Stays == \A s \in Tokens : s \notin fresh \cup sessions => s \notin sessions'
<1>1. ASSUME Typed, [Next]_vars PROVE Stays
  <2>1. ASSUME NEW h \in Slots, LoginInsert(h) PROVE Stays
    BY <2>1 DEF LoginInsert
  <2>2. ASSUME NEW h \in Slots, Renew(h) PROVE Stays
    BY <1>1, <2>2, RenewTyped
  <2>3. ASSUME NEW h \in Slots, DeleteExpired(h) \/ Logout(h) \/ UpdateUser(h) PROVE Stays
    BY <2>3 DEF DeleteExpired, Logout, UpdateUser
  <2>4. ASSUME UNCHANGED sessions PROVE Stays
    BY <2>4
  <2>5. ASSUME NEW h \in Slots,
               Throttle(h) \/ LoginRead(h) \/ Validate(h) \/ CreateUser(h) \/ DatabaseError(h)
                 \/ ReceivePage(h) \/ ReceiveSigning(h) \/ ReceiveWork(h) \/ ReceiveMe(h) \/ Lose(h)
        PROVE  UNCHANGED sessions
    BY <2>5 DEF Throttle, LoginRead, Validate, CreateUser, DatabaseError, ReceivePage, ReceiveSigning,
                ReceiveWork, ReceiveMe, Lose, tables
  <2>6. ASSUME NEW b \in scenario.browsers, NEW h \in Slots, Send(b, h) PROVE UNCHANGED sessions
    BY <2>6 DEF Send, tables
  <2>7. Tick \/ UNCHANGED vars => UNCHANGED sessions
    BY DEF Tick, vars, tables
  <2> QED BY <1>1, <2>1, <2>2, <2>3, <2>4, <2>5, <2>6, <2>7 DEF Next
<1>2. Typed /\ [Next]_vars => Typed' /\ [Stays]_vars
  BY NextTyped, <1>1
<1> QED BY InitTyped, <1>2, PTL DEF Spec, DeletedSessionNeverReturns

-----------------------------------------------------------------------------
\* The accounts.  A login that is about to insert its session, and a session, are of an
\* account that exists and is active, or was disabled while the login was under way.
\* While updates have not crossed, one at most is under way, and its actor is an active
\* administrator still.
AccountsExist ==
    /\ \A s \in sessions : owner[s] \in users
    /\ \A h \in Slots : req[h].op = "insert" => req[h].target \in users

LoginsAreOfActive ==
    \A h \in Slots : req[h].op = "insert" /\ status[req[h].target] = "DISABLED" =>
                       req[h].target \in raced

OneUpdate == \A g, h \in Slots : Updating(g) /\ Updating(h) => g = h

ActorsAdminister ==
    \A h \in Slots : Updating(h) =>
        LET u == req[h].user
        IN  /\ u \in users /\ status[u] = "ACTIVE"
            /\ req[h].op = "renew" => role[u] = req[h].as
            /\ req[h].op = "update" => role[u] = "ADMIN"

AnAdministrator == \E u \in users : role[u] = "ADMIN" /\ status[u] = "ACTIVE"

Orderly == ~crossed => OneUpdate /\ ActorsAdminister /\ AnAdministrator

Ruled == Typed /\ AccountsExist /\ DisabledHasNoSession /\ LoginsAreOfActive /\ Orderly

\* A step that starts no login and no update, adds no session and leaves the accounts.
LEMMA QuietKeeps ==
    ASSUME Ruled, Quiet, sessions' \subseteq sessions,
           UNCHANGED <<users, role, status, owner, raced, crossed>>
    PROVE  AccountsExist' /\ DisabledHasNoSession' /\ LoginsAreOfActive' /\ Orderly'
<1>1. AccountsExist' /\ DisabledHasNoSession' /\ LoginsAreOfActive'
  BY DEF Ruled, Quiet, AccountsExist, DisabledHasNoSession, LoginsAreOfActive
<1>2. \A g \in Slots : Updating(g)' => Updating(g) /\ req'[g] = req[g]
  BY DEF Quiet, Updating
<1>3. OneUpdate => OneUpdate'
  BY <1>2 DEF OneUpdate
<1>4. ActorsAdminister => ActorsAdminister'
  BY <1>2 DEF ActorsAdminister
<1>5. AnAdministrator => AnAdministrator'
  BY DEF AnAdministrator
<1> QED BY <1>1, <1>3, <1>4, <1>5 DEF Ruled, Orderly

LEMMA LoginReadRuled == ASSUME Ruled, NEW h \in Slots, LoginRead(h) PROVE Ruled'
<1>1. Typed'
  BY LoginReadTyped DEF Ruled
<1>2. UNCHANGED <<users, role, status, sessions, owner, raced, crossed>>
  BY DEF LoginRead, tables, history
<1>3. CASE Answer(h, 401)
  <2>1. Quiet
    BY <1>3, AnswerKeeps, CalmedIsQuiet DEF LoginRead, Answers, Ruled
  <2> QED BY <1>1, <1>2, <2>1, QuietKeeps DEF Ruled
<1>4. CASE /\ req[h].target \in users /\ status[req[h].target] = "ACTIVE"
           /\ req' = [req EXCEPT ![h].op = "insert"]
  <2>1. \A g \in Slots : g # h => req'[g] = req[g]
    BY <1>4 DEF Ruled, Typed, TypeOK
  <2>2. req'[h].op = "insert" /\ req'[h].target = req[h].target
    BY <1>4 DEF Ruled, Typed, TypeOK, Request
  <2>3. AccountsExist' /\ DisabledHasNoSession' /\ LoginsAreOfActive'
    BY <1>2, <1>4, <2>1, <2>2 DEF Ruled, AccountsExist, DisabledHasNoSession, LoginsAreOfActive
  <2>4. \A g \in Slots : Updating(g)' => Updating(g) /\ req'[g] = req[g]
    BY <2>1, <2>2 DEF Updating
  <2>5. Orderly'
    BY <1>2, <2>4 DEF Ruled, Orderly, OneUpdate, ActorsAdminister, AnAdministrator
  <2> QED BY <1>1, <2>3, <2>5 DEF Ruled
<1> QED BY <1>3, <1>4 DEF LoginRead

LEMMA LoginInsertRuled == ASSUME Ruled, NEW h \in Slots, LoginInsert(h) PROVE Ruled'
<1>1. Typed' /\ Calmed
  BY LoginInsertTyped DEF Ruled
<1>2. PICK s \in fresh : sessions' = sessions \cup {s} /\ owner' = [owner EXCEPT ![s] = req[h].target]
  BY DEF LoginInsert
<1>3. req[h].op = "insert" /\ UNCHANGED <<users, role, status, raced, crossed>>
  BY DEF LoginInsert
<1>4. s \in Tokens /\ s \notin sessions
  BY DEF Ruled, Typed, TypeOK
<1>5. owner'[s] = req[h].target /\ \A t \in sessions : owner'[t] = owner[t]
  BY <1>2, <1>4 DEF Ruled, Typed, TypeOK
<1>6. \A g \in Slots : Calm(req'[g]) => req'[g].op \notin {"insert", "renew", "update"}
  BY DEF Calm
<1>7. AccountsExist' /\ DisabledHasNoSession' /\ LoginsAreOfActive'
  BY <1>1, <1>2, <1>3, <1>5, <1>6
     DEF Ruled, Calmed, AccountsExist, DisabledHasNoSession, LoginsAreOfActive
<1>8. \A g \in Slots : Updating(g)' => Updating(g) /\ req'[g] = req[g]
  BY <1>1, <1>6 DEF Calmed, Updating
<1>9. Orderly'
  BY <1>3, <1>8 DEF Ruled, Orderly, OneUpdate, ActorsAdminister, AnAdministrator
<1> QED BY <1>1, <1>7, <1>9 DEF Ruled

LEMMA ValidateRuled == ASSUME Ruled, NEW h \in Slots, Validate(h) PROVE Ruled'
<1>1. Typed' /\ ((Quiet /\ crossed' = crossed) \/ \E r : Formed(r) /\ LetIn(h, r))
  BY ValidateIsLetIn DEF Ruled
<1>2. UNCHANGED <<users, role, status, sessions, owner, raced>>
  BY DEF Validate, tables
<1>3. CASE Quiet /\ crossed' = crossed
  BY <1>1, <1>2, <1>3, QuietKeeps DEF Ruled
<1>4. ASSUME NEW r, Formed(r), LetIn(h, r) PROVE Ruled'
  <2> DEFINE q == [req[h] EXCEPT !.at = now]
  <2> DEFINE u == owner[req[h].token]
  <2>1. /\ req[h] \in Request /\ req[h].op = "guard" /\ req[h].browser \in Browsers
        /\ req[h].token \in sessions /\ req[h].token \in Tokens
        /\ req[h].kind \in AdminKinds => req[h].target \in Users
    BY <1>4 DEF Validate, LetIn, Ruled, Typed, TypeOK, AllFormed, Formed
  <2>2. u \in Users /\ u \in users /\ status[u] = "ACTIVE"
    BY <1>4, <2>1 DEF LetIn, Ruled, Typed, TypeOK, AccountsExist
  <2>3. q \in Request /\ q.kind = req[h].kind /\ q.browser = req[h].browser /\ q.token = req[h].token
        /\ q.target = req[h].target
    BY <2>1 DEF Request, Ruled, Typed, TypeOK
  <2> HIDE DEF q
  <2>4. /\ r.op # "insert"
        /\ r.kind = "update" /\ r.op = "renew" => r.user = u /\ r.as = role[u] /\ req[h].kind = "update"
        /\ r.kind = "update" /\ r.op = "update" => r.user = u /\ role[u] = "ADMIN" /\ req[h].kind = "update"
    <3>1. CASE r = [q EXCEPT !.op = "renew", !.user = u, !.as = role[u]]
      <4>1. r.op = "renew" /\ r.user = u /\ r.as = role[u] /\ r.kind = q.kind
        BY <2>3, <3>1 DEF Request
      <4> QED BY <2>3, <4>1
    <3>2. CASE r = AfterSession(q, u, role[u])
      <4>1. r.op \notin {"insert", "renew"} /\ (r.op = "update" =>
              role[u] = "ADMIN" /\ q.kind = "update" /\ r.user = u)
        BY <2>1, <2>2, <2>3, <3>2, AfterSessionIsFormed
      <4> QED BY <2>3, <4>1
    <3> QED BY <1>4, <3>1, <3>2 DEF LetIn, q
  <2>5. req'[h] = r /\ \A g \in Slots : g # h => req'[g] = req[g]
    BY <1>4 DEF LetIn, Ruled, Typed, TypeOK
  <2>6. AccountsExist' /\ DisabledHasNoSession' /\ LoginsAreOfActive'
    BY <1>2, <2>4, <2>5 DEF Ruled, AccountsExist, DisabledHasNoSession, LoginsAreOfActive
  <2>7. ASSUME ~crossed' PROVE OneUpdate' /\ ActorsAdminister' /\ AnAdministrator'
    <3>1. ~crossed /\ (req[h].kind = "update" => \A g \in Slots : ~Updating(g))
      BY <1>4, <2>7 DEF LetIn
    <3>2. \A g \in Slots : g # h => (Updating(g)' <=> Updating(g))
      BY <2>5 DEF Updating
    <3>3. Updating(h)' => req[h].kind = "update"
      BY <2>4, <2>5 DEF Updating
    <3>4. OneUpdate'
      BY <3>1, <3>2, <3>3 DEF Ruled, Orderly, OneUpdate
    <3>5. ActorsAdminister'
      <4>1. ASSUME NEW g \in Slots, g # h, Updating(g)'
            PROVE  LET v == req'[g].user
                   IN  /\ v \in users' /\ status'[v] = "ACTIVE"
                       /\ req'[g].op = "renew" => role'[v] = req'[g].as
                       /\ req'[g].op = "update" => role'[v] = "ADMIN"
        BY <1>2, <2>5, <3>1, <3>2, <4>1 DEF Ruled, Orderly, ActorsAdminister
      <4>2. ASSUME Updating(h)'
            PROVE  LET v == req'[h].user
                   IN  /\ v \in users' /\ status'[v] = "ACTIVE"
                       /\ req'[h].op = "renew" => role'[v] = req'[h].as
                       /\ req'[h].op = "update" => role'[v] = "ADMIN"
        BY <1>2, <2>2, <2>4, <2>5, <4>2 DEF Updating
      <4> QED BY <4>1, <4>2 DEF ActorsAdminister
    <3>6. AnAdministrator'
      BY <1>2, <3>1 DEF Ruled, Orderly, AnAdministrator
    <3> QED BY <3>4, <3>5, <3>6
  <2> QED BY <1>1, <2>6, <2>7 DEF Ruled, Orderly
<1> QED BY <1>1, <1>3, <1>4

LEMMA RenewRuled == ASSUME Ruled, NEW h \in Slots, Renew(h) PROVE Ruled'
<1> DEFINE r == AfterSession(req[h], req[h].user, req[h].as)
<1>1. Typed' /\ (Calmed \/ req' = [req EXCEPT ![h] = r]) /\ sessions' = sessions
  BY RenewTyped DEF Ruled
<1>2. UNCHANGED <<users, role, status, owner, raced, crossed>> /\ req[h].op = "renew"
  BY DEF Renew
<1>3. CASE Calmed
  BY <1>1, <1>2, <1>3, CalmedIsQuiet, QuietKeeps DEF Ruled
<1>4. CASE req' = [req EXCEPT ![h] = r]
  <2>1. /\ req[h] \in Request /\ req[h].browser \in Browsers /\ req[h].token \in Tokens
        /\ req[h].kind \in AdminKinds => req[h].target \in Users
        /\ req[h].user \in Users
    BY <1>2 DEF Ruled, Typed, AllFormed, Formed
  <2>2. r.op \notin {"insert", "renew"} /\ (r.op = "update" =>
          req[h].as = "ADMIN" /\ req[h].kind = "update" /\ r.user = req[h].user)
    BY <2>1, AfterSessionIsFormed
  <2> HIDE DEF r
  <2>3. req'[h] = r /\ \A g \in Slots : g # h => req'[g] = req[g]
    BY <1>4 DEF Ruled, Typed, TypeOK
  <2>4. AccountsExist' /\ DisabledHasNoSession' /\ LoginsAreOfActive'
    BY <1>1, <1>2, <2>2, <2>3 DEF Ruled, AccountsExist, DisabledHasNoSession, LoginsAreOfActive
  <2>5. \A g \in Slots : Updating(g)' => Updating(g)
    BY <1>2, <2>2, <2>3 DEF Updating
  <2>6. OneUpdate => OneUpdate'
    BY <2>5 DEF OneUpdate
  <2>7. ActorsAdminister => ActorsAdminister'
    BY <1>2, <2>2, <2>3, <2>5 DEF ActorsAdminister, Updating
  <2>8. AnAdministrator => AnAdministrator'
    BY <1>2 DEF AnAdministrator
  <2> QED BY <1>1, <1>2, <2>4, <2>6, <2>7, <2>8 DEF Ruled, Orderly
<1> QED BY <1>1, <1>3, <1>4

LEMMA UpdateUserRuled == ASSUME Ruled, NEW h \in Slots, UpdateUser(h) PROVE Ruled'
<1> DEFINE u == req[h].target
<1> DEFINE c == req[h].change
<1>1. Typed' /\ Calmed
  BY UpdateUserTyped DEF Ruled
<1>2. /\ req[h].op = "update" /\ Updating(h) /\ ~SelfLockout(req[h].user, u, c) /\ u \in Users
  BY DEF UpdateUser, Ruled, Typed, AllFormed, Formed, Updating, AdminKinds
<1>3. UNCHANGED <<users, owner, crossed>>
  BY DEF UpdateUser
<1>4. CASE UNCHANGED <<role, status, sessions, raced>>
  BY <1>1, <1>3, <1>4, CalmedIsQuiet, QuietKeeps DEF Ruled
<1>5. CASE /\ u \in users
           /\ role' = [role EXCEPT ![u] = IF c.role = None THEN @ ELSE c.role]
           /\ status' = [status EXCEPT ![u] = IF c.status = None THEN @ ELSE c.status]
           /\ sessions' = sessions \ Revoked(u, c)
           /\ raced' = IF c.status = "DISABLED" /\ LoggingIn(u) THEN raced \cup {u} ELSE raced
           /\ Answer(h, 200)
  <2>1. /\ role'[u] = (IF c.role = None THEN role[u] ELSE c.role)
        /\ status'[u] = (IF c.status = None THEN status[u] ELSE c.status)
        /\ \A v \in Users : v # u => role'[v] = role[v] /\ status'[v] = status[v]
    BY <1>2, <1>5 DEF Ruled, Typed, TypeOK
  <2>2. sessions' \subseteq sessions /\ raced \subseteq raced'
    BY <1>5
  <2>3. \A g \in Slots : req'[g].op = "insert" => req[g].op = "insert" /\ req'[g] = req[g]
    BY <1>1 DEF Calmed, Calm
  <2>4. AccountsExist'
    BY <1>3, <2>2, <2>3 DEF Ruled, AccountsExist
  <2>5. DisabledHasNoSession'
    <3>1. SUFFICES ASSUME NEW s \in sessions', status'[owner[s]] = "DISABLED" PROVE owner[s] \in raced'
      BY <1>3 DEF DisabledHasNoSession
    <3>2. owner[s] \in Users /\ s \in sessions
      BY <2>2 DEF Ruled, Typed, TypeOK
    <3>3. CASE owner[s] = u
      <4>1. c.status # "DISABLED"
        BY <1>5, <3>2, <3>3 DEF Revoked
      <4>2. status[u] = "DISABLED"
        BY <2>1, <3>1, <3>3, <4>1
      <4> QED BY <2>2, <3>2, <3>3, <4>2 DEF Ruled, DisabledHasNoSession
    <3>4. CASE owner[s] # u
      BY <2>1, <2>2, <3>1, <3>2, <3>4 DEF Ruled, DisabledHasNoSession
    <3> QED BY <3>3, <3>4
  <2>6. LoginsAreOfActive'
    <3>1. SUFFICES ASSUME NEW g \in Slots, req'[g].op = "insert", status'[req'[g].target] = "DISABLED"
                   PROVE  req'[g].target \in raced'
      BY DEF LoginsAreOfActive
    <3>2. req[g].op = "insert" /\ req'[g] = req[g] /\ req[g].target \in Users
      BY <2>3, <3>1 DEF Ruled, Typed, AllFormed, Formed
    <3>3. CASE req[g].target = u /\ c.status = "DISABLED"
      BY <1>5, <3>2, <3>3 DEF LoggingIn
    <3>4. CASE ~(req[g].target = u /\ c.status = "DISABLED")
      <4>1. status[req[g].target] = "DISABLED"
        BY <2>1, <3>1, <3>2, <3>4
      <4> QED BY <2>2, <3>2, <4>1 DEF Ruled, LoginsAreOfActive
    <3> QED BY <3>3, <3>4
  <2>7. ASSUME ~crossed' PROVE OneUpdate' /\ ActorsAdminister' /\ AnAdministrator'
    <3>1. OneUpdate /\ ActorsAdminister
      BY <1>3, <2>7 DEF Ruled, Orderly
    <3>2. \A g \in Slots : ~Updating(g)'
      <4>1. req'[h].op = "answered"
        BY <1>5, AnsweredIsFormed DEF Answer, Answered, Idle, Ruled, Typed, TypeOK
      <4>2. \A g \in Slots : Updating(g)' => Updating(g) /\ req'[g] = req[g]
        BY <1>1 DEF Calmed, Calm, Updating
      <4>3. ~Updating(h)'
        BY <4>1 DEF Updating
      <4> QED BY <1>2, <3>1, <4>2, <4>3 DEF OneUpdate
    <3>3. /\ req[h].user \in users /\ status[req[h].user] = "ACTIVE" /\ role[req[h].user] = "ADMIN"
      BY <1>2, <3>1 DEF ActorsAdminister
    <3>4. c.role \in Roles \cup {None} /\ c.status \in Statuses \cup {None} /\ req[h].user \in Users
      BY <3>3 DEF Ruled, Typed, TypeOK, Request, Change
    <3>5. status'[req[h].user] = "ACTIVE" /\ role'[req[h].user] = "ADMIN"
      <4>1. CASE req[h].user = u
        BY <1>2, <2>1, <3>3, <3>4, <4>1 DEF SelfLockout, Statuses
      <4>2. CASE req[h].user # u
        BY <2>1, <3>3, <3>4, <4>2
      <4> QED BY <4>1, <4>2
    <3> QED BY <1>3, <3>2, <3>3, <3>5 DEF OneUpdate, ActorsAdminister, AnAdministrator
  <2> QED BY <1>1, <2>4, <2>5, <2>6, <2>7 DEF Ruled, Orderly
<1> QED BY <1>4, <1>5 DEF UpdateUser

LEMMA CreateUserRuled == ASSUME Ruled, NEW h \in Slots, CreateUser(h) PROVE Ruled'
<1> DEFINE u == req[h].target
<1>1. Typed' /\ Calmed
  BY CreateUserTyped DEF Ruled
<1>2. UNCHANGED <<sessions, owner, raced, crossed>>
  BY DEF CreateUser, history
<1>3. CASE UNCHANGED <<users, role, status>>
  BY <1>1, <1>2, <1>3, CalmedIsQuiet, QuietKeeps DEF Ruled
<1>4. CASE /\ u \notin users /\ users' = users \cup {u} /\ status' = [status EXCEPT ![u] = "ACTIVE"]
           /\ \E r \in Roles : role' = [role EXCEPT ![u] = r]
  <2>1. \A v \in users : role'[v] = role[v] /\ status'[v] = status[v] /\ v \in users'
    BY <1>4 DEF Ruled, Typed, TypeOK
  <2>2. \A g \in Slots : Calm(req'[g]) => req'[g].op \notin {"insert", "renew", "update"}
    BY DEF Calm
  <2>3. AccountsExist' /\ DisabledHasNoSession' /\ LoginsAreOfActive'
    BY <1>1, <1>2, <2>1, <2>2 DEF Ruled, Calmed, AccountsExist, DisabledHasNoSession, LoginsAreOfActive
  <2>4. \A g \in Slots : Updating(g)' => Updating(g) /\ req'[g] = req[g]
    BY <1>1, <2>2 DEF Calmed, Updating
  <2>5. OneUpdate => OneUpdate'
    BY <2>4 DEF OneUpdate
  <2>6. ActorsAdminister => ActorsAdminister'
    BY <2>1, <2>4 DEF ActorsAdminister
  <2>7. AnAdministrator => AnAdministrator'
    BY <2>1 DEF AnAdministrator
  <2> QED BY <1>1, <1>2, <2>3, <2>5, <2>6, <2>7 DEF Ruled, Orderly
<1> QED BY <1>3, <1>4 DEF CreateUser

LEMMA NextRuled == ASSUME Ruled, [Next]_vars PROVE Ruled'
<1>1. Typed /\ Typed'
  BY NextTyped DEF Ruled
<1>2. ASSUME Calmed, sessions' \subseteq sessions, UNCHANGED <<users, role, status, owner, raced, crossed>>
      PROVE  Ruled'
  BY <1>1, <1>2, CalmedIsQuiet, QuietKeeps DEF Ruled
<1>3. ASSUME NEW b \in scenario.browsers, NEW h \in Slots, Send(b, h) PROVE Ruled'
  BY <1>1, <1>2, <1>3, SendTyped DEF Send, tables, history
<1>4. ASSUME NEW h \in Slots, Throttle(h) \/ DatabaseError(h) PROVE Ruled'
  BY <1>1, <1>2, <1>4, AnsweringTyped DEF Throttle, DatabaseError, tables, history
<1>5. ASSUME NEW h \in Slots, DeleteExpired(h) \/ Logout(h) PROVE Ruled'
  BY <1>1, <1>2, <1>5, DeleteExpiredTyped, LogoutTyped DEF DeleteExpired, Logout
<1>6. ASSUME NEW h \in Slots,
             ReceivePage(h) \/ ReceiveSigning(h) \/ ReceiveWork(h) \/ ReceiveMe(h) \/ Lose(h)
      PROVE  Ruled'
  BY <1>1, <1>2, <1>6, ReceiveTyped
     DEF ReceivePage, ReceiveSigning, ReceiveWork, ReceiveMe, Lose, tables, history
<1>7. ASSUME Tick \/ UNCHANGED vars PROVE Ruled'
  BY <1>1, <1>2, <1>7, TickTyped, StutterTyped DEF Tick, vars, tables, history
<1> QED BY <1>3, <1>4, <1>5, <1>6, <1>7, LoginReadRuled, LoginInsertRuled, ValidateRuled, RenewRuled,
           UpdateUserRuled, CreateUserRuled DEF Next

LEMMA InitRuled == Init => Ruled
<1> SUFFICES ASSUME Init PROVE Ruled
  OBVIOUS
<1>1. \A h \in Slots : req[h].op = "idle"
  BY DEF Init, Idle
<1> QED BY <1>1, InitTyped DEF Init, Ruled, AccountsExist, DisabledHasNoSession, LoginsAreOfActive,
           Orderly, OneUpdate, ActorsAdminister, AnAdministrator, Updating

\* A disabled account has no session, however its disabling, its logins and the
\* renewals of its sessions interleave, but for a login that had passed the check of the
\* status before.
THEOREM DisabledNoSession == Spec => []DisabledHasNoSession
<1>1. Ruled /\ [Next]_vars => Ruled'
  BY NextRuled
<1>2. Ruled => DisabledHasNoSession
  BY DEF Ruled
<1> QED BY InitRuled, <1>1, <1>2, PTL DEF Spec

\* Updates of accounts that do not cross leave an active administrator, among any number
\* of them and whatever else is under way: the actor of an update is one before it and,
\* because he may not lock himself out, after it.
THEOREM Administrator == Spec => []AdministratorRemains
<1>1. Ruled /\ [Next]_vars => Ruled'
  BY NextRuled
<1>2. Ruled => AdministratorRemains
  BY DEF Ruled, Orderly, AnAdministrator, AdministratorRemains
<1> QED BY InitRuled, <1>1, <1>2, PTL DEF Spec

-----------------------------------------------------------------------------
\* Sessions in use.  A request about to delete an expired session has one whose last use
\* is more than the threshold ago and that no renewal is about to extend, or it is
\* counted among the ended.
ExpiringIsUnused ==
    \A h \in Slots : req[h].op = "expire" =>
        LET s == req[h].token
        IN  /\ s \notin fresh
            /\ \/ s \in ended
               \/ /\ expires[s] <= now /\ lastUse[s] + Threshold <= now
                  /\ \A g \in Slots : ~(req[g].op = "renew" /\ req[g].token = s)

Aged == Typed /\ UseKeepsSessionRow /\ ExpiringIsUnused

LEMMA RestKeeps ==
    ASSUME Aged, Typed', Rested, now <= now', ended \subseteq ended',
           \A s \in sessions : s \in sessions' \cup ended', UNCHANGED <<fresh, expires, lastUse>>
    PROVE  Aged'
<1>1. now \in Nat /\ now' \in Nat /\ expires \in [Tokens -> Nat] /\ lastUse \in [Tokens -> Nat]
  BY DEF Aged, Typed, TypeOK
<1>2. UseKeepsSessionRow'
  BY <1>1, TimesAreWhole DEF Aged, UseKeepsSessionRow
<1>3. ExpiringIsUnused'
  <2>1. SUFFICES ASSUME NEW h \in Slots, req'[h].op = "expire"
                 PROVE  LET s == req'[h].token
                        IN  /\ s \notin fresh'
                            /\ \/ s \in ended'
                               \/ /\ expires'[s] <= now' /\ lastUse'[s] + Threshold <= now'
                                  /\ \A g \in Slots : ~(req'[g].op = "renew" /\ req'[g].token = s)
    BY DEF ExpiringIsUnused
  <2>2. req'[h] = req[h] /\ req[h].token \in Tokens
    BY <2>1 DEF Rested, Aged, Typed, AllFormed, Formed
  <2>3. \A g \in Slots : req'[g].op = "renew" => req[g].op = "renew" /\ req'[g].token = req[g].token
    BY DEF Rested
  <2> QED BY <1>1, <2>1, <2>2, <2>3, TimesAreWhole DEF Aged, ExpiringIsUnused
<1> QED BY <1>2, <1>3 DEF Aged

LEMMA LoginInsertAged == ASSUME Aged, NEW h \in Slots, LoginInsert(h) PROVE Aged'
<1>1. Typed' /\ Calmed
  BY LoginInsertTyped DEF Aged
<1>2. PICK s \in fresh :
         /\ fresh' = fresh \ {s} /\ sessions' = sessions \cup {s}
         /\ expires' = [expires EXCEPT ![s] = now + TTL] /\ lastUse' = [lastUse EXCEPT ![s] = now]
  BY DEF LoginInsert
<1>3. UNCHANGED <<now, ended>>
  BY DEF LoginInsert
<1>4. /\ s \in Tokens /\ expires'[s] = now + TTL /\ lastUse'[s] = now
      /\ \A t \in Tokens \ {s} : expires'[t] = expires[t] /\ lastUse'[t] = lastUse[t]
  BY <1>2 DEF Aged, Typed, TypeOK
<1>5. \A t \in Tokens : now \in Nat /\ expires[t] \in Nat /\ lastUse[t] \in Nat
  BY DEF Aged, Typed, TypeOK
<1>6. UseKeepsSessionRow'
  <2>1. SUFFICES ASSUME NEW t \in Tokens \ (fresh' \cup ended'), now' < lastUse'[t] + Threshold
                 PROVE  t \in sessions' /\ expires'[t] >= lastUse'[t] + Threshold
    BY DEF UseKeepsSessionRow
  <2>2. CASE t = s
    BY <1>2, <1>4, <1>5, <2>2, TimesAreWhole, ThresholdBelowTTL
  <2>3. CASE t # s
    BY <1>2, <1>3, <1>4, <2>1, <2>3 DEF Aged, UseKeepsSessionRow
  <2> QED BY <2>2, <2>3
<1>7. \A g \in Slots : req'[g].op \in {"renew", "expire"} => req'[g] = req[g]
  <2>1. req'[h].op = "answered" /\ \A g \in Slots : g # h => req'[g] = req[g]
    BY DEF LoginInsert, Answered, Idle, Aged, Typed, TypeOK
  <2> QED BY <2>1
<1>8. ExpiringIsUnused'
  <2>1. \A g \in Slots : req'[g].op = "expire" => req[g].token \in Tokens \ {s}
    BY <1>2, <1>7 DEF Aged, Typed, AllFormed, Formed, ExpiringIsUnused
  <2> QED BY <1>2, <1>3, <1>4, <1>7, <2>1 DEF Aged, ExpiringIsUnused
<1> QED BY <1>1, <1>6, <1>8 DEF Aged

LEMMA DeleteExpiredAged == ASSUME Aged, NEW h \in Slots, DeleteExpired(h) PROVE Aged'
<1> DEFINE s == req[h].token
<1>1. Typed'
  BY DeleteExpiredTyped DEF Aged
<1>2. /\ req[h].op = "expire" /\ sessions' \in {sessions, sessions \ {s}}
      /\ UNCHANGED <<now, fresh, expires, lastUse, ended>> /\ s \in Tokens
  BY DEF DeleteExpired, Aged, Typed, AllFormed, Formed
<1>3. s \in ended \/ lastUse[s] + Threshold <= now
  BY <1>2 DEF Aged, ExpiringIsUnused
<1>4. now \in Nat /\ lastUse[s] \in Nat
  BY <1>2 DEF Aged, Typed, TypeOK
<1>5. UseKeepsSessionRow'
  BY <1>2, <1>3, <1>4, TimesAreWhole DEF Aged, UseKeepsSessionRow
<1>6. \A g \in Slots : req'[g].op \in {"renew", "expire"} => req'[g] = req[g]
  BY DEF DeleteExpired, Answer, Answered, Idle, Aged, Typed, TypeOK
<1>7. ExpiringIsUnused'
  BY <1>2, <1>6 DEF Aged, ExpiringIsUnused
<1> QED BY <1>1, <1>5, <1>7 DEF Aged

LEMMA RenewAged == ASSUME Aged, NEW h \in Slots, Renew(h) PROVE Aged'
<1> DEFINE s == req[h].token
<1> DEFINE r == AfterSession(req[h], req[h].user, req[h].as)
<1>1. Typed' /\ (Calmed \/ req' = [req EXCEPT ![h] = r]) /\ sessions' = sessions
  BY RenewTyped DEF Aged
<1>2. /\ req[h].op = "renew" /\ UNCHANGED <<now, fresh, ended>> /\ s \in Tokens /\ req[h].at \in Nat
  BY DEF Renew, Aged, Typed, AllFormed, Formed, Request
<1>3. CASE Answer(h, 500) /\ UNCHANGED <<expires, lastUse>>
  <2>1. req'[h].op = "answered" /\ \A g \in Slots : g # h => req'[g] = req[g]
    BY <1>3 DEF Answer, Answered, Idle, Aged, Typed, TypeOK
  <2>2. Rested
    BY <2>1 DEF Rested
  <2>3. now <= now'
    BY <1>2 DEF Aged, Typed, TypeOK
  <2> QED BY <1>1, <1>2, <1>3, <2>2, <2>3, RestKeeps
<1>4. CASE /\ s \in sessions /\ req' = [req EXCEPT ![h] = r]
           /\ expires' = [expires EXCEPT ![s] = req[h].at + TTL]
           /\ lastUse' = [lastUse EXCEPT ![s] = req[h].at]
  <2>1. /\ expires'[s] = req[h].at + TTL /\ lastUse'[s] = req[h].at
        /\ \A t \in Tokens \ {s} : expires'[t] = expires[t] /\ lastUse'[t] = lastUse[t]
    BY <1>2, <1>4 DEF Aged, Typed, TypeOK
  <2>2. \A g \in Slots : req'[g].op \in {"renew", "expire"} => req'[g] = req[g]
    <3>1. r.op \notin {"renew", "expire"}
      BY DEF AfterSession, Answered, Idle, Aged, Typed, TypeOK, AllFormed, Formed, Request, AdminKinds
    <3>2. req'[h] = r /\ \A g \in Slots : g # h => req'[g] = req[g]
      BY <1>4 DEF Aged, Typed, TypeOK
    <3> QED BY <3>1, <3>2
  <2>3. UseKeepsSessionRow'
    <3>1. SUFFICES ASSUME NEW t \in Tokens \ (fresh' \cup ended'), now' < lastUse'[t] + Threshold
                   PROVE  t \in sessions' /\ expires'[t] >= lastUse'[t] + Threshold
      BY DEF UseKeepsSessionRow
    <3>2. CASE t = s
      BY <1>1, <1>2, <1>4, <2>1, <3>2, TimesAreWhole, ThresholdBelowTTL
    <3>3. CASE t # s
      BY <1>1, <1>2, <2>1, <3>1, <3>3 DEF Aged, UseKeepsSessionRow
    <3> QED BY <3>2, <3>3
  <2>4. ExpiringIsUnused'
    <3>1. \A g \in Slots : req[g].op = "expire" => req[g].token \in Tokens
      BY DEF Aged, Typed, AllFormed, Formed
    <3>2. \A g \in Slots : req[g].op = "expire" /\ req[g].token = s => s \in ended
      BY <1>2 DEF Aged, ExpiringIsUnused
    <3> QED BY <1>2, <2>1, <2>2, <3>1, <3>2 DEF Aged, ExpiringIsUnused
  <2> QED BY <1>1, <2>3, <2>4 DEF Aged
<1> QED BY <1>3, <1>4 DEF Renew, Renewable

LEMMA ValidateAged == ASSUME Aged, NEW h \in Slots, Validate(h) PROVE Aged'
<1> DEFINE s == req[h].token
<1> DEFINE u == owner[s]
<1> DEFINE q == [req[h] EXCEPT !.at = now]
<1>1. Typed'
  BY ValidateIsLetIn DEF Aged
<1>2. UNCHANGED <<now, fresh, sessions, expires>>
  BY DEF Validate, tables
<1>3. q.op = "guard" /\ q.token = s /\ req[h] \in Request /\ req[h].op = "guard"
  BY DEF Validate, Aged, Typed, TypeOK, Request
<1>4. now \in Nat /\ \A t \in Tokens : expires[t] \in Nat /\ lastUse[t] \in Nat
  BY DEF Aged, Typed, TypeOK
<1> HIDE DEF q
<1>5. CASE /\ s \in sessions /\ expires[s] <= now
           /\ req' = [req EXCEPT ![h] = [q EXCEPT !.op = "expire"]]
           /\ ended' = IF \E g \in Slots : req[g].op = "renew" /\ req[g].token = s
                       THEN ended \cup {s} ELSE ended
           /\ UNCHANGED <<lastUse, refused, crossed>>
  <2>1. s \in Tokens /\ s \notin fresh
    BY <1>5 DEF Aged, Typed, TypeOK
  <2>2. \A g \in Slots : g # h => req'[g] = req[g]
    BY <1>5 DEF Aged, Typed, TypeOK
  <2>3. req'[h].op = "expire" /\ req'[h].token = s
    BY <1>3, <1>5 DEF Aged, Typed, TypeOK, Request, q
  <2>4. ended \subseteq ended' /\ UseKeepsSessionRow'
    BY <1>2, <1>5 DEF Aged, UseKeepsSessionRow
  <2>5. s \in ended' \/ (lastUse[s] + Threshold <= now /\ ~\E g \in Slots : req[g].op = "renew" /\ req[g].token = s)
    <3>1. CASE \E g \in Slots : req[g].op = "renew" /\ req[g].token = s
      BY <1>5, <3>1
    <3>2. CASE ~\E g \in Slots : req[g].op = "renew" /\ req[g].token = s
      <4>1. s \in ended \/ ~(now < lastUse[s] + Threshold)
        BY <1>4, <1>5, <2>1, TimesAreWhole DEF Aged, UseKeepsSessionRow
      <4> QED BY <1>4, <1>5, <2>1, <3>2, <4>1, TimesAreWhole
    <3> QED BY <3>1, <3>2
  <2>6. ExpiringIsUnused'
    <3>1. ASSUME NEW g \in Slots, g # h, req'[g].op = "expire"
          PROVE  LET t == req'[g].token
                 IN  /\ t \notin fresh'
                     /\ \/ t \in ended'
                        \/ /\ expires'[t] <= now' /\ lastUse'[t] + Threshold <= now'
                           /\ \A f \in Slots : ~(req'[f].op = "renew" /\ req'[f].token = t)
      BY <1>2, <1>5, <2>2, <2>3, <2>4, <3>1 DEF Aged, ExpiringIsUnused
    <3>2. /\ s \notin fresh'
          /\ \/ s \in ended'
             \/ /\ expires'[s] <= now' /\ lastUse'[s] + Threshold <= now'
                /\ \A f \in Slots : ~(req'[f].op = "renew" /\ req'[f].token = s)
      BY <1>2, <1>5, <2>1, <2>2, <2>3, <2>5
    <3> QED BY <2>3, <3>1, <3>2 DEF ExpiringIsUnused
  <2> QED BY <1>1, <2>4, <2>6 DEF Aged
<1>6. CASE Answer(h, 401) /\ UNCHANGED <<lastUse, ended, crossed>>
  <2>1. Rested
    BY <1>6 DEF Rested, Answer, Answered, Idle, Aged, Typed, TypeOK
  <2>2. now <= now'
    BY <1>2, <1>4
  <2> QED BY <1>1, <1>2, <1>6, <2>1, <2>2, RestKeeps
<1>7. CASE /\ s \in sessions /\ expires[s] > now
           /\ req' = [req EXCEPT ![h] =
                 IF RenewalDue(s) THEN [q EXCEPT !.op = "renew", !.user = u, !.as = role[u]]
                                  ELSE AfterSession(q, u, role[u])]
           /\ lastUse' = [lastUse EXCEPT ![s] = IF RenewalDue(s) THEN @ ELSE now]
           /\ UNCHANGED <<ended, refused>>
  <2>1. s \in Tokens /\ s \notin fresh
    BY <1>7 DEF Aged, Typed, TypeOK
  <2>2. /\ lastUse'[s] = (IF RenewalDue(s) THEN lastUse[s] ELSE now)
        /\ \A t \in Tokens \ {s} : lastUse'[t] = lastUse[t]
    BY <1>7, <2>1 DEF Aged, Typed, TypeOK
  <2>3. UseKeepsSessionRow'
    <3>1. SUFFICES ASSUME NEW t \in Tokens \ (fresh' \cup ended'), now' < lastUse'[t] + Threshold
                   PROVE  t \in sessions' /\ expires'[t] >= lastUse'[t] + Threshold
      BY DEF UseKeepsSessionRow
    <3>2. CASE t = s /\ ~RenewalDue(s)
      BY <1>2, <1>4, <1>7, <2>1, <2>2, <3>2, TimesAreWhole DEF RenewalDue
    <3>3. CASE t # s \/ RenewalDue(s)
      BY <1>2, <1>7, <2>2, <3>1, <3>3 DEF Aged, UseKeepsSessionRow
    <3> QED BY <3>2, <3>3
  <2>4. req'[h].op # "expire" /\ (req'[h].op = "renew" => req'[h].token = s)
    <3>1. req'[h] = IF RenewalDue(s) THEN [q EXCEPT !.op = "renew", !.user = u, !.as = role[u]]
                                     ELSE AfterSession(q, u, role[u])
      BY <1>7 DEF Aged, Typed, TypeOK
    <3>2. q \in Request
      BY <1>3, <1>4 DEF q, Request
    <3>3. LET r == [q EXCEPT !.op = "renew", !.user = u, !.as = role[u]]
          IN  r.op = "renew" /\ r.token = s
      BY <1>3, <3>2 DEF Request
    <3>4. AfterSession(q, u, role[u]).op \notin {"renew", "expire"}
      BY <3>2 DEF AfterSession, Answered, Idle, Request, AdminKinds
    <3> QED BY <3>1, <3>3, <3>4
  <2>5. \A g \in Slots : g # h => req'[g] = req[g]
    BY <1>7 DEF Aged, Typed, TypeOK
  <2>6. ExpiringIsUnused'
    <3>1. SUFFICES ASSUME NEW g \in Slots, req'[g].op = "expire"
                   PROVE  LET t == req'[g].token
                          IN  /\ t \notin fresh'
                              /\ \/ t \in ended'
                                 \/ /\ expires'[t] <= now' /\ lastUse'[t] + Threshold <= now'
                                    /\ \A f \in Slots : ~(req'[f].op = "renew" /\ req'[f].token = t)
      BY DEF ExpiringIsUnused
    <3>2. g # h /\ req'[g] = req[g] /\ req[g].token \in Tokens
      BY <2>4, <2>5, <3>1 DEF Aged, Typed, AllFormed, Formed
    <3>3. CASE req[g].token = s
      <4>1. s \in ended
        BY <1>4, <1>7, <2>1, <3>1, <3>2, <3>3 DEF Aged, ExpiringIsUnused
      <4> QED BY <1>2, <1>7, <2>1, <3>2, <3>3, <4>1
    <3>4. CASE req[g].token # s
      BY <1>2, <1>7, <2>2, <2>4, <2>5, <3>1, <3>2, <3>4 DEF Aged, ExpiringIsUnused
    <3> QED BY <3>3, <3>4
  <2> QED BY <1>1, <2>3, <2>6 DEF Aged
<1> QED BY <1>5, <1>6, <1>7 DEF Validate, q

LEMMA NextAged == ASSUME Aged, [Next]_vars PROVE Aged'
<1>1. Typed /\ Typed' /\ now \in Nat
  BY NextTyped DEF Aged, Typed, TypeOK
<1>2. ASSUME Rested, now' \in {now, now + 1}, ended \subseteq ended', UNCHANGED <<fresh, expires, lastUse>>,
             \A s \in sessions : s \in sessions' \cup ended'
      PROVE  Aged'
  <2>1. now <= now'
    BY <1>1, <1>2
  <2> QED BY <1>1, <1>2, <2>1, RestKeeps
<1>3. ASSUME NEW b \in scenario.browsers, NEW h \in Slots, Send(b, h) PROVE Aged'
  BY <1>1, <1>2, <1>3, SendTyped, CalmedIsQuiet DEF Send, tables, history
<1>4. ASSUME NEW h \in Slots, Throttle(h) \/ DatabaseError(h) PROVE Aged'
  BY <1>1, <1>2, <1>4, AnsweringTyped, CalmedIsQuiet DEF Throttle, DatabaseError, tables, history
<1>5. ASSUME NEW h \in Slots, LoginRead(h) PROVE Aged'
  <2>1. Rested
    <3>1. \A g \in Slots : g # h => req'[g] = req[g]
      BY <1>5 DEF LoginRead, Answer, Aged, Typed, TypeOK
    <3>2. CASE Answer(h, 401)
      BY <3>2 DEF Rested, Answer, Answered, Idle, Aged, Typed, TypeOK
    <3>3. CASE req' = [req EXCEPT ![h].op = "insert"]
      <4>1. req'[h].op = "insert"
        BY <3>3 DEF Aged, Typed, TypeOK, Request
      <4> QED BY <3>1, <4>1 DEF Rested
    <3> QED BY <1>5, <3>2, <3>3 DEF LoginRead
  <2> QED BY <1>2, <1>5, <2>1 DEF LoginRead, tables, history
<1>6. ASSUME NEW h \in Slots, Logout(h) PROVE Aged'
  BY <1>1, <1>2, <1>6, LogoutTyped, CalmedIsQuiet DEF Logout
<1>7. ASSUME NEW h \in Slots, UpdateUser(h) PROVE Aged'
  BY <1>1, <1>2, <1>7, UpdateUserTyped, CalmedIsQuiet DEF UpdateUser
<1>8. ASSUME NEW h \in Slots, CreateUser(h) PROVE Aged'
  BY <1>1, <1>2, <1>8, CreateUserTyped, CalmedIsQuiet DEF CreateUser, history
<1>9. ASSUME NEW h \in Slots,
             ReceivePage(h) \/ ReceiveSigning(h) \/ ReceiveWork(h) \/ ReceiveMe(h) \/ Lose(h)
      PROVE  Aged'
  BY <1>1, <1>2, <1>9, ReceiveTyped, CalmedIsQuiet
     DEF ReceivePage, ReceiveSigning, ReceiveWork, ReceiveMe, Lose, tables, history
<1>10. ASSUME Tick \/ UNCHANGED vars PROVE Aged'
  BY <1>1, <1>2, <1>10, TickTyped, StutterTyped, CalmedIsQuiet DEF Tick, vars, tables, history
<1> QED BY <1>3, <1>4, <1>5, <1>6, <1>7, <1>8, <1>9, <1>10, LoginInsertAged, DeleteExpiredAged,
           RenewAged, ValidateAged DEF Next

LEMMA InitAged == Init => Aged
<1> SUFFICES ASSUME Init PROVE Aged
  OBVIOUS
<1>1. \A h \in Slots : req[h].op = "idle"
  BY DEF Init, Idle
<1> QED BY <1>1, InitTyped DEF Init, Aged, UseKeepsSessionRow, ExpiringIsUnused

\* For any life of a session and any renewal threshold within it, the row of a session used
\* less than the threshold ago is there and has the rest of it to live: a renewal that is
\* late, fails or crosses another one never shortens what the last use has earned.
THEOREM ActiveUse == Spec => []UseKeepsSessionRow
<1>1. Aged /\ [Next]_vars => Aged'
  BY NextAged
<1>2. Aged => UseKeepsSessionRow
  BY DEF Aged
<1> QED BY InitAged, <1>1, <1>2, PTL DEF Spec

-----------------------------------------------------------------------------
\* Being sent to the sign-in page.  An answer that refuses a request which is no login is
\* about a session that has been refused, or about none.
Refusal(r) == r.op = "answered" /\ r.answer = 401 /\ r.kind # "login"

RefusalsAreRecorded == \A h \in Slots : Refusal(req[h]) => req[h].token \in refused \cup {None}

\* A step that refuses nothing.
Welcoming == \A g \in Slots : req'[g] = req[g] \/ ~Refusal(req'[g])

Heard == Typed /\ RefusalsAreRecorded

LEMMA WelcomeKeeps ==
    ASSUME Heard, Typed', Welcoming, refused \subseteq refused'
    PROVE  Heard'
BY DEF Heard, Welcoming, RefusalsAreRecorded

LEMMA AnsweredWelcomes ==
    ASSUME NEW r, NEW a, a # 401 \/ r.kind = "login"
    PROVE  ~Refusal(Answered(r, a))
<1>1. Answered(r, a).answer = a /\ Answered(r, a).kind = r.kind
  BY DEF Answered, Idle
<1> QED BY <1>1 DEF Refusal

LEMMA AfterSessionWelcomes ==
    ASSUME NEW r \in Request, NEW u, NEW as
    PROVE  ~Refusal(AfterSession(r, u, as))
<1> DEFINE q == [r EXCEPT !.op = r.kind, !.user = u, !.as = None, !.at = 0]
<1>1. ~Refusal(Answered(r, 403)) /\ ~Refusal(Answered(r, 200))
  BY AnsweredWelcomes
<1>2. q.op = r.kind
  BY DEF Request
<1> HIDE DEF q
<1>3. CASE r.kind \in AdminKinds \cup {"logout"}
  <2>1. AfterSession(r, u, as) = Answered(r, 403) \/ AfterSession(r, u, as) = q
    BY <1>3 DEF AfterSession, q
  <2>2. ~Refusal(q)
    BY <1>2, <1>3 DEF Refusal, AdminKinds
  <2> QED BY <1>1, <2>1, <2>2
<1>4. CASE r.kind \notin AdminKinds \cup {"logout"}
  <2>1. AfterSession(r, u, as) = Answered(r, 403) \/ AfterSession(r, u, as) = Answered(r, 200)
    BY <1>4 DEF AfterSession
  <2>2. CASE AfterSession(r, u, as) = Answered(r, 403)
    BY <1>1, <2>2
  <2>3. CASE AfterSession(r, u, as) = Answered(r, 200)
    BY <1>1, <2>3
  <2> QED BY <2>1, <2>2, <2>3
<1> QED BY <1>3, <1>4

\* One slot changes to a request that is not refused.
LEMMA SlotWelcomes ==
    ASSUME Heard, Typed', NEW h \in Slots, NEW r, req' = [req EXCEPT ![h] = r], UNCHANGED refused,
           ~Refusal(r)
    PROVE  Heard'
<1>1. Welcoming
  BY DEF Welcoming, Heard, Typed, TypeOK
<1> QED BY <1>1, WelcomeKeeps

LEMMA AnswerWelcomes ==
    ASSUME Heard, Typed', NEW h \in Slots, NEW a, a # 401 \/ req[h].kind = "login", Answer(h, a),
           UNCHANGED refused
    PROVE  Heard'
<1>1. ~Refusal(Answered(req[h], a))
  BY AnsweredWelcomes
<1> QED BY <1>1, SlotWelcomes DEF Answer

LEMMA ValidateHeard == ASSUME Heard, NEW h \in Slots, Validate(h) PROVE Heard'
<1> DEFINE s == req[h].token
<1> DEFINE q == [req[h] EXCEPT !.at = now]
<1>1. Typed'
  BY ValidateIsLetIn DEF Heard
<1>2. q \in Request
  BY DEF Heard, Typed, TypeOK, Request
<1> HIDE DEF q
<1>3. CASE req' = [req EXCEPT ![h] = [q EXCEPT !.op = "expire"]] /\ UNCHANGED refused
  <2>1. ~Refusal([q EXCEPT !.op = "expire"])
    BY <1>2 DEF Request, Refusal
  <2> QED BY <1>1, <1>3, <2>1, SlotWelcomes
<1>4. CASE Answer(h, 401) /\ refused' = refused \cup ({s} \ {None})
  <2>1. req'[h].token = s /\ \A g \in Slots : g # h => req'[g] = req[g]
    BY <1>4 DEF Answer, Answered, Idle, Heard, Typed, TypeOK
  <2> QED BY <1>1, <1>4, <2>1 DEF Heard, RefusalsAreRecorded
<1>5. ASSUME NEW u, NEW as, UNCHANGED refused,
             req' = [req EXCEPT ![h] = [q EXCEPT !.op = "renew", !.user = u, !.as = as]]
      PROVE  Heard'
  <2>1. ~Refusal([q EXCEPT !.op = "renew", !.user = u, !.as = as])
    BY <1>2 DEF Request, Refusal
  <2> QED BY <1>1, <1>5, <2>1, SlotWelcomes
<1>6. ASSUME NEW u, NEW as, UNCHANGED refused, req' = [req EXCEPT ![h] = AfterSession(q, u, as)]
      PROVE  Heard'
  <2>1. ~Refusal(AfterSession(q, u, as))
    BY <1>2, AfterSessionWelcomes
  <2> QED BY <1>1, <1>6, <2>1, SlotWelcomes
<1>7. ASSUME NEW u, NEW as, UNCHANGED refused,
             req' = [req EXCEPT ![h] = IF RenewalDue(s) THEN [q EXCEPT !.op = "renew", !.user = u, !.as = as]
                                                        ELSE AfterSession(q, u, as)]
      PROVE  Heard'
  BY <1>5, <1>6, <1>7
<1> QED BY <1>3, <1>4, <1>7 DEF Validate, q

LEMMA NextHeard == ASSUME Heard, [Next]_vars PROVE Heard'
<1>1. Typed /\ Typed'
  BY NextTyped DEF Heard
<1>2. ASSUME NEW b \in scenario.browsers, NEW h \in Slots, Send(b, h) PROVE Heard'
  <2>1. UNCHANGED refused
    BY <1>2 DEF Send, history
  <2>2. \A g \in Slots : g # h => req'[g] = req[g]
    BY <1>1, <1>2 DEF Send, Typed, TypeOK
  <2>3. ~Refusal(req'[h])
    <3> DEFINE Became(r) == req' = [req EXCEPT ![h] = r]
    <3>1. PICK kind : \/ Became(Answered(Starting(b, kind), 403))
                      \/ \E u, c : Became([Starting(b, kind) EXCEPT !.target = u, !.change = c])
                      \/ \E u : Became([Starting(b, kind) EXCEPT !.op = "verify", !.target = u, !.at = 0])
                      \/ Became(Starting(b, kind))
      <4>1. PICK kind \in Offered(b), origin \in Origins :
              LET r == Starting(b, kind)
              IN  IF ~CsrfAllows(kind, origin) THEN Became(Answered(r, 403))
                  ELSE IF kind \in AdminKinds
                  THEN \E u \in scenario.staff, c \in Changes : Became([r EXCEPT !.target = u, !.change = c])
                  ELSE IF kind = "login"
                  THEN \E u \in scenario.staff : Became([r EXCEPT !.op = "verify", !.target = u, !.at = 0])
                  ELSE Became(r)
        BY <1>2 DEF Send
      <4> HIDE DEF Became
      <4> QED BY <4>1
    <3>2. ~Refusal(Answered(Starting(b, kind), 403))
      BY AnsweredWelcomes
    <3>3. ~Refusal(Starting(b, kind))
      BY DEF Starting, Idle, Refusal
    <3> DEFINE Aimed(u, c) == [Starting(b, kind) EXCEPT !.target = u, !.change = c]
    <3>4. \A u, c : ~Refusal(Aimed(u, c))
      BY DEF Starting, Idle, Refusal
    <3>5. \A u : ~Refusal([Starting(b, kind) EXCEPT !.op = "verify", !.target = u, !.at = 0])
      BY DEF Starting, Idle, Refusal
    <3>6. \A r : Became(r) => req'[h] = r
      BY <1>1 DEF Typed, TypeOK
    <3> HIDE DEF Became
    <3>7. CASE Became(Answered(Starting(b, kind), 403))
      BY <3>2, <3>6, <3>7
    <3>8. CASE Became(Starting(b, kind))
      BY <3>3, <3>6, <3>8
    <3>9. ASSUME NEW u, NEW c, Became([Starting(b, kind) EXCEPT !.target = u, !.change = c])
          PROVE  ~Refusal(req'[h])
      <4>1. Became(Aimed(u, c))
        BY <3>9
      <4> HIDE DEF Aimed
      <4> QED BY <3>4, <3>6, <4>1
    <3>10. ASSUME NEW u, Became([Starting(b, kind) EXCEPT !.op = "verify", !.target = u, !.at = 0])
           PROVE  ~Refusal(req'[h])
      BY <3>5, <3>6, <3>10
    <3> QED BY <3>1, <3>7, <3>8, <3>9, <3>10
  <2> QED BY <1>1, <2>1, <2>2, <2>3, WelcomeKeeps DEF Welcoming
<1>3. ASSUME NEW h \in Slots, Throttle(h) \/ DatabaseError(h) \/ Logout(h) \/ CreateUser(h) \/ UpdateUser(h)
      PROVE  Heard'
  <2>1. \E a \in {200, 409, 429, 500} : Answer(h, a)
    BY <1>3 DEF Throttle, DatabaseError, Logout, CreateUser, UpdateUser
  <2>2. UNCHANGED refused
    BY <1>3 DEF Throttle, DatabaseError, Logout, CreateUser, UpdateUser, history
  <2> QED BY <1>1, <2>1, <2>2, AnswerWelcomes
<1>4. ASSUME NEW h \in Slots, LoginRead(h) PROVE Heard'
  <2>1. req[h].kind = "login" /\ req[h] \in Request /\ UNCHANGED refused
    BY <1>1, <1>4 DEF LoginRead, history, Typed, AllFormed, Formed
  <2>2. CASE Answer(h, 401)
    BY <1>1, <2>1, <2>2, AnswerWelcomes
  <2>3. CASE req' = [req EXCEPT ![h].op = "insert"]
    <3>1. ~Refusal(req'[h]) /\ \A g \in Slots : g # h => req'[g] = req[g]
      BY <1>1, <2>1, <2>3 DEF Typed, TypeOK, Request, Refusal
    <3> QED BY <1>1, <2>1, <3>1, WelcomeKeeps DEF Welcoming
  <2> QED BY <1>4, <2>2, <2>3 DEF LoginRead
<1>5. ASSUME NEW h \in Slots, LoginInsert(h) PROVE Heard'
  <2>1. PICK s \in fresh : req' = [req EXCEPT ![h] = Answered([req[h] EXCEPT !.token = s], 200)]
    BY <1>5 DEF LoginInsert
  <2>2. ~Refusal(Answered([req[h] EXCEPT !.token = s], 200)) /\ UNCHANGED refused
    BY <1>5, AnsweredWelcomes DEF LoginInsert
  <2> QED BY <1>1, <2>1, <2>2, SlotWelcomes
<1>6. ASSUME NEW h \in Slots, DeleteExpired(h) PROVE Heard'
  <2>1. req'[h].token = req[h].token /\ \A g \in Slots : g # h => req'[g] = req[g]
    BY <1>1, <1>6 DEF DeleteExpired, Answer, Answered, Idle, Typed, TypeOK
  <2> QED BY <1>1, <1>6, <2>1 DEF DeleteExpired, Heard, RefusalsAreRecorded
<1>7. ASSUME NEW h \in Slots, Renew(h) PROVE Heard'
  <2>1. req[h] \in Request /\ UNCHANGED refused
    BY <1>1, <1>7 DEF Renew, Typed, TypeOK
  <2>2. CASE Answer(h, 500)
    BY <1>1, <2>1, <2>2, AnswerWelcomes
  <2>3. CASE req' = [req EXCEPT ![h] = AfterSession(req[h], req[h].user, req[h].as)]
    BY <1>1, <2>1, <2>3, AfterSessionWelcomes, SlotWelcomes
  <2> QED BY <1>7, <2>2, <2>3 DEF Renew
<1>8. ASSUME NEW h \in Slots,
             ReceivePage(h) \/ ReceiveSigning(h) \/ ReceiveWork(h) \/ ReceiveMe(h) \/ Lose(h)
      PROVE  Heard'
  <2>1. UNCHANGED refused
    BY <1>8 DEF ReceivePage, ReceiveSigning, ReceiveWork, ReceiveMe, Lose, history
  <2>2. \A g \in Slots : req'[g] = req[g] \/ req'[g].op # "answered"
    <3>1. ASSUME Free(h) PROVE \A g \in Slots : req'[g] = req[g] \/ req'[g].op # "answered"
      BY <1>1, <3>1 DEF Free, Idle, Typed, TypeOK
    <3>2. CASE ReceivePage(h)
      BY <3>1, <3>2 DEF ReceivePage
    <3>3. CASE ReceiveSigning(h)
      <4>1. CASE Free(h)
        BY <3>1, <4>1
      <4>2. CASE \E c : Navigate(h, req[h].browser, c)
        BY <1>1, <4>2 DEF Navigate, Idle, Typed, TypeOK
      <4> QED BY <3>3, <4>1, <4>2 DEF ReceiveSigning
    <3>4. CASE ReceiveWork(h)
      <4>1. CASE Free(h)
        BY <3>1, <4>1
      <4>2. CASE req' = [req EXCEPT ![h] = Starting(req[h].browser, "me")]
        BY <1>1, <4>2 DEF Starting, Idle, Typed, TypeOK
      <4>3. CASE req' = [req EXCEPT ![h].op = "joined", ![h].kind = "me", ![h].answer = 0]
        <5>1. \A g \in Slots : g # h => req'[g] = req[g]
          BY <1>1, <4>3 DEF Typed, TypeOK
        <5>2. req'[h].op = "joined"
          BY <1>1, <4>3 DEF Typed, TypeOK, Request
        <5> QED BY <5>1, <5>2
      <4> QED BY <3>4, <4>1, <4>2, <4>3 DEF ReceiveWork
    <3>5. CASE ReceiveMe(h)
      BY <3>5 DEF ReceiveMe, Starting, Idle
    <3>6. CASE Lose(h)
      BY <3>6 DEF Lose, Idle
    <3> QED BY <1>8, <3>2, <3>3, <3>4, <3>5, <3>6
  <2> QED BY <1>1, <2>1, <2>2, WelcomeKeeps DEF Welcoming, Refusal
<1>9. ASSUME Tick \/ UNCHANGED vars PROVE Heard'
  BY <1>1, <1>9, WelcomeKeeps DEF Tick, vars, history, Welcoming
<1> QED BY <1>2, <1>3, <1>4, <1>5, <1>6, <1>7, <1>8, <1>9, ValidateHeard DEF Next

\* The application is left for the sign-in page only on the answer to a request whose session
\* the API has refused, or that presented no session, because the browser has signed out, had
\* not signed in or has dropped the cookie.  Whatever is lost, throttled or failing, a
\* session that was presented and not refused keeps its browser in the application
\* (confirmSessionAlive, fetchCurrentUserServer).
THEOREM OnlyRefusedOrAbsent == Spec => OnlyRefusedOrAbsentSessionLeaves
<1> DEFINE Told == \A b \in Browsers : page[b] = "app" /\ page'[b] # "app" =>
                      \E h \in Slots : /\ req[h].browser = b /\ req[h].op = "answered"
                                       /\ req[h].token \in refused \/ PresentsNone(req[h])
<1>1. Init => Heard
  BY InitTyped DEF Init, Heard, RefusalsAreRecorded, Refusal, Idle
<1>2. ASSUME Heard, [Next]_vars PROVE Told
  <2>1. ASSUME UNCHANGED page PROVE Told
    BY <2>1
  <2>2. ASSUME NEW h \in Slots, ReceivePage(h) PROVE Told
    <3>1. /\ req[h].op = "answered" /\ req[h].kind = "page" /\ page \in [Browsers -> {"login", "app", "leaving"}]
          /\ page' = [page EXCEPT ![req[h].browser] = IF req[h].answer = 200 THEN "app"
                                       ELSE IF SignedOut(req[h].answer) THEN "login" ELSE @]
      BY <1>2, <2>2 DEF ReceivePage, Heard, Typed, TypeOK
    <3>2. ASSUME NEW b \in Browsers, page[b] = "app", page'[b] # "app"
          PROVE  \E g \in Slots : /\ req[g].browser = b /\ req[g].op = "answered"
                                  /\ req[g].token \in refused \/ PresentsNone(req[g])
      <4>1. req[h].browser = b /\ req[h].answer = 401
        BY <3>1, <3>2 DEF SignedOut
      <4> QED BY <1>2, <3>1, <4>1 DEF Heard, RefusalsAreRecorded, Refusal, PresentsNone
    <3> QED BY <3>2
  <2>3. ASSUME NEW h \in Slots, ReceiveMe(h) PROVE Told
    <3>1. /\ req[h].op = "answered" /\ req[h].kind = "me" /\ page \in [Browsers -> {"login", "app", "leaving"}]
          /\ page' = IF Confirmed(req[h].answer) THEN page ELSE [page EXCEPT ![req[h].browser] = "leaving"]
      BY <1>2, <2>3 DEF ReceiveMe, Heard, Typed, TypeOK
    <3>2. ASSUME NEW b \in Browsers, page[b] = "app", page'[b] # "app"
          PROVE  \E g \in Slots : /\ req[g].browser = b /\ req[g].op = "answered"
                                  /\ req[g].token \in refused \/ PresentsNone(req[g])
      <4>1. req[h].browser = b /\ req[h].answer = 401
        BY <3>1, <3>2 DEF Confirmed
      <4> QED BY <1>2, <3>1, <4>1 DEF Heard, RefusalsAreRecorded, Refusal, PresentsNone
    <3> QED BY <3>2
  <2>4. ASSUME NEW h \in Slots,
               \/ Throttle(h) \/ LoginRead(h) \/ LoginInsert(h) \/ Validate(h) \/ DeleteExpired(h)
               \/ Renew(h) \/ Logout(h) \/ UpdateUser(h) \/ CreateUser(h) \/ DatabaseError(h)
               \/ ReceiveSigning(h) \/ ReceiveWork(h) \/ Lose(h)
        PROVE  UNCHANGED page
    BY <2>4 DEF Throttle, LoginRead, LoginInsert, Validate, DeleteExpired, Renew, Logout, UpdateUser,
                CreateUser, DatabaseError, ReceiveSigning, ReceiveWork, Lose
  <2>5. ASSUME NEW b \in scenario.browsers, NEW h \in Slots, Send(b, h) PROVE UNCHANGED page
    BY <2>5 DEF Send
  <2>6. Tick \/ UNCHANGED vars => UNCHANGED page
    BY DEF Tick, vars
  <2> QED BY <1>2, <2>1, <2>2, <2>3, <2>4, <2>5, <2>6 DEF Next
<1>3. Heard /\ [Next]_vars => Heard' /\ [Told]_vars
  BY NextHeard, <1>2
<1> QED BY <1>1, <1>3, PTL DEF Spec, OnlyRefusedOrAbsentSessionLeaves
=============================================================================
