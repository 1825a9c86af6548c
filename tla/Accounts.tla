-------------------------------- MODULE Accounts --------------------------------
(* Staff accounts, their sessions and the browsers that carry the session cookie: *)
(* AuthService, UsersService, the global guards, and the part of the web client   *)
(* that decides when somebody has to sign in again.                               *)
(*                                                                                *)
(* A request is a record in a slot; its steps are the statements it sends to the  *)
(* database, in the order the code sends them, and the steps of other slots come  *)
(* in between.  The transaction that disables a user commits in one step: it is   *)
(* the commit that others see.  Time is counted in units of which TTL make the    *)
(* life of a session; a request takes less than one unit.                         *)
(*                                                                                *)
(* An operator Op_Fault is Op with a plausible fault, used by no specification.   *)
EXTENDS Integers, FiniteSets

CONSTANTS
    Users,       \* staff, named by their unique e-mail address
    Tokens,      \* session tokens; a token is used once
    Browsers,    \* browsers, each showing one page
    Slots,       \* requests that may be in flight together
    Scenarios,   \* bound: what is in use, and the last instant
    Changes,     \* bound: the fields an update of an account may set
    TTL,         \* SESSION_TTL_MS
    Threshold,   \* SESSION_RENEWAL_THRESHOLD_MS
    None         \* no token, no user, or a field an update does not supply

Roles    == {"ADMIN", "STAFF"}
Statuses == {"ACTIVE", "DISABLED"}

\* "page" is the probe of /auth/me by the Next server that renders a page; "me" the
\* probe of the browser itself; "work" any other route for signed-in users.
Kinds      == {"login", "logout", "page", "me", "work", "update", "create"}
AdminKinds == {"update", "create"}
Change     == [role : Roles \cup {None}, status : Statuses \cup {None}]

ASSUME TimesAreWhole == TTL \in Nat /\ Threshold \in Nat
ASSUME ThresholdBelowTTL == Threshold <= TTL
ASSUME ScenariosAreKnown ==
    Scenarios \subseteq [browsers : SUBSET Browsers, staff : SUBSET Users, logins : Nat,
                  kinds : SUBSET Kinds, horizon : Nat]
ASSUME ChangesAreKnown == Changes \subseteq Change
ASSUME NoneIsNothing == None \notin Users \cup Tokens \cup Browsers \cup Roles \cup Statuses

VARIABLES
    scenario,   \* chosen at the start, never changed
    now,        \* the clock
    users,      \* the User rows that exist
    role,       \* user -> UserRole
    status,     \* user -> UserStatus
    fresh,      \* tokens not generated yet
    sessions,   \* tokens whose Session row exists
    owner,      \* token -> the user of its row
    expires,    \* token -> expiresAt of its row
    cookie,     \* browser -> its session cookie
    page,       \* browser -> what it shows
    req,        \* slot -> the request in it
    lastUse,    \* history: token -> when a request with it last was let in
    ended,      \* history: tokens that ended before they expired
    refused,    \* history: tokens the API has refused
    raced,      \* history: users disabled while a login of theirs was under way
    crossed     \* history: two updates of accounts were under way together

tables  == <<users, role, status, fresh, sessions, owner, expires>>
history == <<lastUse, ended, refused, raced, crossed>>
vars    == <<scenario, now, tables, cookie, page, req, history>>

Steps   == {"idle", "guard", "expire", "renew", "verify", "insert", "logout", "update",
            "create", "answered", "joined"}
Answers == {0, 200, 401, 403, 409, 429, 500}
Request == [op : Steps, kind : Kinds, browser : Browsers \cup {None}, token : Tokens \cup {None},
            user : Users \cup {None}, as : Roles \cup {None}, target : Users \cup {None}, change : Change,
            at : Nat, answer : Answers]

NoChange == [role |-> None, status |-> None]
Idle == [op |-> "idle", kind |-> "work", browser |-> None, token |-> None, user |-> None,
         as |-> None, target |-> None, change |-> NoChange, at |-> 0, answer |-> 0]

TypeOK ==
    /\ scenario \in Scenarios /\ now \in Nat
    /\ users \subseteq Users /\ role \in [Users -> Roles] /\ status \in [Users -> Statuses]
    /\ fresh \subseteq Tokens /\ sessions \subseteq Tokens /\ fresh \cap sessions = {}
    /\ owner \in [Tokens -> Users \cup {None}] /\ expires \in [Tokens -> Nat]
    /\ \A s \in sessions : owner[s] \in Users
    /\ cookie \in [Browsers -> [token : Tokens \cup {None}, until : Nat]]
    /\ page \in [Browsers -> {"login", "app", "leaving"}]
    /\ req \in [Slots -> Request]
    /\ lastUse \in [Tokens -> Nat] /\ ended \subseteq Tokens /\ refused \subseteq Tokens
    /\ raced \subseteq Users /\ crossed \in BOOLEAN

\* The accounts of a running system: prisma/seed.ts creates an administrator.
Init ==
    /\ scenario \in Scenarios /\ now = 0
    /\ users \in SUBSET Users /\ role \in [Users -> Roles]
    /\ status = [u \in Users |-> "ACTIVE"]
    /\ \E u \in users : role[u] = "ADMIN"
    /\ fresh = Tokens /\ sessions = {}
    /\ owner = [s \in Tokens |-> None] /\ expires = [s \in Tokens |-> 0]
    /\ cookie = [b \in Browsers |-> [token |-> None, until |-> 0]]
    /\ page = [b \in Browsers |-> "login"]
    /\ req = [h \in Slots |-> Idle]
    /\ lastUse = [s \in Tokens |-> 0] /\ ended = {} /\ refused = {} /\ raced = {}
    /\ crossed = FALSE

-----------------------------------------------------------------------------
\* Requests leave the browser.

\* The browser drops the cookie when its maxAge is over.
CookieSent(b) == IF now < cookie[b].until THEN cookie[b].token ELSE None

Starting(b, kind) == [Idle EXCEPT !.op = "guard", !.kind = kind, !.browser = b,
                                  !.token = CookieSent(b), !.at = now]

Answered(r, a) == [Idle EXCEPT !.op = "answered", !.kind = r.kind, !.browser = r.browser,
                               !.token = r.token, !.answer = a]

\* Slots with an unfinished request of this kind from this browser.
Open(b, kind) == {h \in Slots : req[h].op # "idle" /\ req[h].browser = b /\ req[h].kind = kind}

\* A form is disabled while its request is open.
SignInForm(b)  == {"page"} \cup (IF Open(b, "login") = {} THEN {"login"} ELSE {})
Application(b) == {"page", "work", "update", "create"} \cup
                  (IF Open(b, "logout") = {} THEN {"logout"} ELSE {})

Offered(b) ==
    LET all == [login   |-> SignInForm(b),
                app     |-> Application(b),
                leaving |-> IF Open(b, "page") = {} THEN {"page"} ELSE {}]
    IN  scenario.kinds \cap all[page[b]]

\* CsrfOriginGuard: a request that changes something comes from the web application
\* or from the API itself; a missing origin counts as another site.
Origins == {"web", "api", "other"}
CsrfAllows(kind, origin) == kind \in {"page", "me", "work"} \/ origin \in {"web", "api"}

Send(b, h) ==
    /\ req[h].op = "idle"
    /\ \E kind \in Offered(b), origin \in Origins :
         LET r == Starting(b, kind)
         IN  IF ~CsrfAllows(kind, origin)
             THEN req' = [req EXCEPT ![h] = Answered(r, 403)]
             ELSE IF kind \in AdminKinds
             THEN \E u \in scenario.staff, c \in Changes :
                    req' = [req EXCEPT ![h] = [r EXCEPT !.target = u, !.change = c]]
             ELSE IF kind = "login"
             THEN \E u \in scenario.staff :
                    req' = [req EXCEPT ![h] = [r EXCEPT !.op = "verify", !.target = u,
                                                                !.at = 0]]
             ELSE req' = [req EXCEPT ![h] = r]
    /\ UNCHANGED <<scenario, now, tables, cookie, page, history>>

-----------------------------------------------------------------------------
\* The API.

Answer(h, a) == req' = [req EXCEPT ![h] = Answered(req[h], a)]

\* The throttler turns requests away, except the probes of /auth/me.
Throttle(h) ==
    /\ req[h].op \in {"guard", "verify"} /\ req[h].kind \notin {"page", "me"}
    /\ Answer(h, 429)
    /\ UNCHANGED <<scenario, now, tables, cookie, page, history>>

\* login: one generic answer to an unknown address, a wrong password and a disabled
\* account.
LoginRead(h) ==
    /\ req[h].op = "verify"
    /\ \E passwordIsValid \in BOOLEAN :
         LET u == req[h].target
         IN  IF u \in users /\ passwordIsValid /\ status[u] = "ACTIVE"
             THEN req' = [req EXCEPT ![h].op = "insert"]
             ELSE Answer(h, 401)
    /\ UNCHANGED <<scenario, now, tables, cookie, page, history>>

LoginInsert(h) ==
    /\ req[h].op = "insert"
    /\ Cardinality(Tokens \ fresh) < scenario.logins         \* bound
    /\ \E s \in fresh :
         /\ fresh' = fresh \ {s} /\ sessions' = sessions \cup {s}
         /\ owner' = [owner EXCEPT ![s] = req[h].target]
         /\ expires' = [expires EXCEPT ![s] = now + TTL]
         /\ lastUse' = [lastUse EXCEPT ![s] = now]
         /\ req' = [req EXCEPT ![h] = Answered([req[h] EXCEPT !.token = s], 200)]
    /\ UNCHANGED <<scenario, now, users, role, status, cookie, page, ended, refused, raced,
                   crossed>>

\* renewSessionIfNeeded: less than half the life of the session is left.
RenewalDue_AtTheEnd(s) == expires[s] - now < 1
RenewalDue(s) == expires[s] - now < Threshold

\* assertNotSelfLockout.
SelfLockout_RoleForgotten(actor, target, c) == actor = target /\ c.status = "DISABLED"
SelfLockout(actor, target, c) ==
    actor = target /\ (c.status = "DISABLED" \/ c.role \notin {None, "ADMIN"})

\* Where a request that carries a valid session goes: RolesGuard, then the handler.
AfterSession(r, actor, as) ==
    IF \/ r.kind \in AdminKinds /\ as # "ADMIN"
       \/ r.kind = "update" /\ SelfLockout(actor, r.target, r.change)
    THEN Answered(r, 403)
    ELSE IF r.kind \in AdminKinds \cup {"logout"}
    THEN [r EXCEPT !.op = r.kind, !.user = actor, !.as = None, !.at = 0]
    ELSE Answered(r, 200)

\* An update that has passed the session guard and has not finished.
Updating(g) == req[g].kind = "update" /\ req[g].op \in {"renew", "update"}

\* validateSession, up to its first write.
Validate(h) ==
    LET s == req[h].token
        u == owner[s]
        r == [req[h] EXCEPT !.at = now]
        RenewedNow == \E g \in Slots : req[g].op = "renew" /\ req[g].token = s
        LetIn == /\ s \in sessions /\ expires[s] > now /\ status[u] = "ACTIVE"
                 /\ req' = [req EXCEPT ![h] =
                        IF RenewalDue(s) THEN [r EXCEPT !.op = "renew", !.user = u, !.as = role[u]]
                                         ELSE AfterSession(r, u, role[u])]
                 /\ lastUse' = [lastUse EXCEPT ![s] = IF RenewalDue(s) THEN @ ELSE now]
                 /\ crossed' = (crossed \/ (r.kind = "update" /\ \E g \in Slots : Updating(g)))
                 /\ UNCHANGED <<ended, refused>>
        Expired == /\ s \in sessions /\ expires[s] <= now
                   /\ req' = [req EXCEPT ![h] = [r EXCEPT !.op = "expire"]]
                   /\ ended' = IF RenewedNow THEN ended \cup {s} ELSE ended
                   /\ UNCHANGED <<lastUse, refused, crossed>>
        Refused == /\ s \in sessions => expires[s] > now /\ status[u] # "ACTIVE"
                   /\ Answer(h, 401)
                   /\ refused' = refused \cup ({s} \ {None})
                   /\ UNCHANGED <<lastUse, ended, crossed>>
    IN  /\ req[h].op = "guard"
        /\ LetIn \/ Expired \/ Refused
        /\ UNCHANGED <<scenario, now, tables, cookie, page, raced>>

\* deleteExpiredSession: an error is logged and ignored.
DeleteExpired(h) ==
    /\ req[h].op = "expire"
    /\ sessions' \in {sessions, sessions \ {req[h].token}}
    /\ refused' = refused \cup {req[h].token}
    /\ Answer(h, 401)
    /\ UNCHANGED <<scenario, now, users, role, status, fresh, owner, expires, cookie, page,
                   lastUse, ended, raced, crossed>>

\* session.update finds no row when the session was deleted meanwhile, and throws.
Renewable_Upsert(s) == {s}
Renewable(s) == sessions \cap {s}

Renew(h) ==
    LET s == req[h].token
    IN  /\ req[h].op = "renew"
        /\ IF Renewable(s) = {}
           THEN Answer(h, 500) /\ UNCHANGED <<sessions, expires, lastUse>>
           ELSE /\ sessions' = sessions \cup Renewable(s)
                /\ expires' = [expires EXCEPT ![s] = req[h].at + TTL]
                /\ lastUse' = [lastUse EXCEPT ![s] = req[h].at]
                /\ req' = [req EXCEPT ![h] = AfterSession(req[h], req[h].user, req[h].as)]
        /\ UNCHANGED <<scenario, now, users, role, status, fresh, owner, cookie, page, ended,
                       refused, raced, crossed>>

\* Every error of the delete is logged and ignored, a missing row included: the answer is
\* the same, and the session may still be there.
Logout(h) ==
    /\ req[h].op = "logout"
    /\ \/ sessions' = sessions \ {req[h].token} /\ ended' = ended \cup {req[h].token}
       \/ UNCHANGED <<sessions, ended>>
    /\ Answer(h, 200)
    /\ UNCHANGED <<scenario, now, users, role, status, fresh, owner, expires, cookie, page,
                   lastUse, refused, raced, crossed>>

\* The sessions an update of an account deletes.
Revoked_None(u, c) == {}
Revoked(u, c) == IF c.status = "DISABLED" THEN {s \in sessions : owner[s] = u} ELSE {}

\* A login that has read this account and not inserted its session yet.
LoggingIn(u) == \E g \in Slots : req[g].op = "insert" /\ req[g].target = u

UpdateUser(h) ==
    LET u == req[h].target
        c == req[h].change
    IN  /\ req[h].op = "update"
        /\ IF u \notin users
           THEN Answer(h, 500) /\ UNCHANGED <<role, status, sessions, ended, raced>>
           ELSE /\ role' = [role EXCEPT ![u] = IF c.role = None THEN @ ELSE c.role]
                /\ status' = [status EXCEPT ![u] = IF c.status = None THEN @ ELSE c.status]
                /\ sessions' = sessions \ Revoked(u, c)
                /\ ended' = ended \cup Revoked(u, c)
                /\ raced' = IF c.status = "DISABLED" /\ LoggingIn(u) THEN raced \cup {u} ELSE raced
                /\ Answer(h, 200)
        /\ UNCHANGED <<scenario, now, users, fresh, owner, expires, cookie, page, lastUse,
                       refused, crossed>>

\* The unique key on the address refuses a second account.
CreateUser(h) ==
    LET u == req[h].target
    IN  /\ req[h].op = "create"
        /\ IF u \in users
           THEN Answer(h, 409) /\ UNCHANGED <<users, role, status>>
           ELSE /\ users' = users \cup {u}
                /\ \E r \in Roles : role' = [role EXCEPT ![u] = r]
                /\ status' = [status EXCEPT ![u] = "ACTIVE"]
                /\ Answer(h, 200)
        /\ UNCHANGED <<scenario, now, fresh, sessions, owner, expires, cookie, page, history>>

\* A statement fails, or the process restarts before it is sent.  For the delete of a
\* logout and of an expired session only the restart is meant: their errors are ignored.
DatabaseError(h) ==
    /\ req[h].op \in Steps \ {"idle", "answered", "joined"}
    /\ Answer(h, 500)
    /\ UNCHANGED <<scenario, now, tables, cookie, page, history>>

-----------------------------------------------------------------------------
\* Answers arrive at the browser.

Free(h) == req' = [req EXCEPT ![h] = Idle]
Navigate(h, b, c) == req' = [req EXCEPT ![h] = [Idle EXCEPT !.op = "guard", !.kind = "page",
                                !.browser = b, !.at = now,
                                !.token = IF now < c.until THEN c.token ELSE None]]
Carrying(s) == [token |-> s, until |-> now + TTL]

\* A signed-in visitor of the sign-in page is sent to the application, a signed-out
\* visitor of the application to the sign-in page.  Only a 401 counts as signed out;
\* any other failure shows an error page and can be reloaded.
SignedOut_AnyError(a) == a # 200
SignedOut(a) == a = 401

ReceivePage(h) ==
    LET b == req[h].browser
        a == req[h].answer
    IN  /\ req[h].op = "answered" /\ req[h].kind = "page"
        /\ page' = [page EXCEPT ![b] = IF a = 200 THEN "app"
                                       ELSE IF SignedOut(a) THEN "login" ELSE @]
        /\ Free(h)
        /\ UNCHANGED <<scenario, now, tables, cookie, history>>

\* login and logout change the cookie and go to the page of their outcome.
ReceiveSigning(h) ==
    LET b == req[h].browser
        c == IF req[h].kind = "login" THEN Carrying(req[h].token) ELSE [token |-> None, until |-> 0]
    IN  /\ req[h].op = "answered" /\ req[h].kind \in {"login", "logout"}
        /\ IF req[h].answer = 200
           THEN cookie' = [cookie EXCEPT ![b] = c] /\ Navigate(h, b, c)
           ELSE UNCHANGED cookie /\ Free(h)
        /\ UNCHANGED <<scenario, now, tables, page, history>>

\* apiFetch: after a 401 the browser asks /auth/me itself, once for all requests that
\* are waiting to know (confirmSessionAlive).
ReceiveWork(h) ==
    LET b == req[h].browser
    IN  /\ req[h].op = "answered" /\ req[h].kind \in {"work", "update", "create"}
        /\ IF req[h].answer # 401 THEN Free(h)
           ELSE IF Open(b, "me") = {}
           THEN req' = [req EXCEPT ![h] = Starting(b, "me")]
           ELSE req' = [req EXCEPT ![h].op = "joined", ![h].kind = "me", ![h].answer = 0]
        /\ UNCHANGED <<scenario, now, tables, cookie, page, history>>

\* confirmSessionAlive: everything but a 401, a network error included, is alive.
\* The answer renews the cookie the request carried.
Confirmed(a) == a # 401

Waiting(b) == {h \in Slots : req[h].op = "joined" /\ req[h].browser = b}

ReceiveMe(h) ==
    LET b == req[h].browser
        a == req[h].answer
        c == IF a = 200 THEN Carrying(req[h].token) ELSE cookie[b]
    IN  /\ req[h].op = "answered" /\ req[h].kind = "me"
        /\ cookie' = [cookie EXCEPT ![b] = c]
        /\ page' = IF Confirmed(a) THEN page ELSE [page EXCEPT ![b] = "leaving"]
        /\ req' = [g \in Slots |-> IF g \in Waiting(b) THEN Idle
                                   ELSE IF g # h THEN req[g]
                                   ELSE IF Confirmed(a) THEN Idle ELSE Starting(b, "page")]
        /\ UNCHANGED <<scenario, now, tables, history>>

\* The answer is lost: a form shows an error, a confirmation counts as alive, and a
\* page that was being left stays as it is until it is loaded again.
Lose(h) ==
    LET b == req[h].browser
    IN  /\ req[h].op = "answered"
        /\ req' = [g \in Slots |-> IF g \in {h} \cup (IF req[h].kind = "me" THEN Waiting(b) ELSE {})
                                   THEN Idle ELSE req[g]]
        /\ UNCHANGED <<scenario, now, tables, cookie, page, history>>

-----------------------------------------------------------------------------
\* The clock moves on at most once before a request has passed the guard, and once while it
\* is in validateSession.
Tick ==
    /\ now < scenario.horizon
    /\ \A h \in Slots : req[h].op \in {"guard", "expire", "renew"} => req[h].at = now
    /\ now' = now + 1
    /\ UNCHANGED <<scenario, tables, cookie, page, req, history>>

Next ==
    \/ \E b \in scenario.browsers, h \in Slots : Send(b, h)
    \/ \E h \in Slots :
         \/ Throttle(h) \/ LoginRead(h) \/ LoginInsert(h) \/ Validate(h) \/ DeleteExpired(h)
         \/ Renew(h) \/ Logout(h) \/ UpdateUser(h) \/ CreateUser(h) \/ DatabaseError(h)
         \/ ReceivePage(h) \/ ReceiveSigning(h) \/ ReceiveWork(h) \/ ReceiveMe(h) \/ Lose(h)
    \/ Tick

Spec == Init /\ [][Next]_vars

-----------------------------------------------------------------------------
\* Properties.

\* Somebody can always administer the accounts: administrators who act one after the
\* other cannot leave the system without an active administrator, because nobody may
\* disable or demote himself (UsersService.assertNotSelfLockout).  Two who act on each
\* other at the same time can.
AdministratorRemains ==
    ~crossed => \E u \in users : role[u] = "ADMIN" /\ status[u] = "ACTIVE"

\* Disabling an account ends every session of it, the ones in other browsers included
\* (UsersService.update), unless a login had already passed the check of the status.
DisabledHasNoSession ==
    \A s \in sessions : status[owner[s]] = "DISABLED" => owner[s] \in raced

\* A session that was deleted, by signing out, by disabling its user or because it
\* expired, never comes back: a renewal that was under way does not write it again
\* (AuthService.renewSessionIfNeeded).
DeletedSessionNeverReturns ==
    [][\A s \in Tokens : s \notin fresh \cup sessions => s \notin sessions']_vars

\* Sliding renewal: the row of a session that was used less than the renewal threshold ago
\* is still there and has at least the rest of the threshold to live
\* (AuthService.renewSessionIfNeeded).  Excepted are sessions ended on purpose and the
\* instant of expiry, where one request can renew a session that another deletes.  It says
\* nothing of the cookie, which may run out earlier: see LiveSessionIsPresented.
UseKeepsSessionRow ==
    \A s \in Tokens \ (fresh \cup ended) :
        now < lastUse[s] + Threshold =>
            s \in sessions /\ expires[s] >= lastUse[s] + Threshold

\* "a short idle gap cannot drop a still-valid server session" (AuthController.me): a
\* browser that shows the application and used its session less than the renewal threshold
\* ago still presents that session, as long as it is valid.
LiveSessionIsPresented ==
    \A b \in Browsers :
        LET s == cookie[b].token
        IN  /\ page[b] = "app"
            /\ s \in sessions /\ expires[s] > now /\ status[owner[s]] = "ACTIVE"
            /\ now < lastUse[s] + Threshold
            => CookieSent(b) = s

\* A request that presents no session: the browser has signed out, had not signed in yet,
\* or has dropped its cookie, whose time may be over while the session lives.
PresentsNone(r) == r.token = None

\* The application is only left for the sign-in page on the answer to a request of that
\* browser whose session the API has refused, or that presented none.  Nobody who presents
\* a session is sent away by a lost answer, a full throttler or a failing database
\* (confirmSessionAlive, fetchCurrentUserServer).
OnlyRefusedOrAbsentSessionLeaves ==
    [][\A b \in Browsers : page[b] = "app" /\ page'[b] # "app" =>
          \E h \in Slots : /\ req[h].browser = b /\ req[h].op = "answered"
                           /\ req[h].token \in refused \/ PresentsNone(req[h])]_vars

=============================================================================
