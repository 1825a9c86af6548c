------------------------------ MODULE Provisioning ------------------------------
(* Requesting ToonExpo accounts for organizations:                                *)
(* ProvisioningRequestsService.create and retry, the client that posts them, and  *)
(* ToonExpo's side as scripts/toonexpo-stub.mjs implements it.                    *)
(*                                                                                *)
(* The id of the row is the request_id on the wire, and a retry sends it again.   *)
(* Copies of one request may therefore be on their way together, and answers of   *)
(* an early copy may be recorded after those of a later one.  Messages are lost   *)
(* or delayed, the client gives up after ten seconds, statements fail and the API *)
(* restarts.                                                                      *)
(*                                                                                *)
(* The name of an organization is what the stub tells companies apart by, though  *)
(* the id of the organization is sent with it, and an administrator may change    *)
(* the name between two attempts.  Won deals and primary contacts are left out:   *)
(* create reads them before it changes anything, and any organization here may be *)
(* eligible.                                                                      *)
(*                                                                                *)
(* An operator Op_Fault is Op with a plausible fault, used by no specification.   *)
CONSTANTS
    Orgs,         \* organizations that are eligible and have a primary contact
    Names,        \* company names
    RowIds,       \* ToonExpoProvisioningRequest ids; an id is used once
    Companies,    \* company ids of ToonExpo; an id is used once
    Handlers,     \* requests that may be in flight together
    None          \* no row, no organization, no company

ASSUME NoneIsNothing == None \notin Orgs \cup RowIds \cup Companies \cup Names

VARIABLES
    name,         \* organization -> its name
    renamed,      \* the organizations that have had another name (history)
    linked,       \* organization -> toonexpoCompanyId
    owner,        \* row id -> its organization, None for an id not used yet
    status,       \* row id -> status
    company,      \* row id -> toonexpoCompanyId
    req,          \* handler -> the request it is running
    inFlight,     \* requests on their way to ToonExpo: handler, row id and name sent
    replies,      \* responses on their way back, as pairs of handler and row id
    answered,     \* ToonExpo: row id -> company it answered (provisioningByRequestId)
    registered    \* ToonExpo: name -> company (companiesByName)

names == <<name, renamed>>
table == <<linked, owner, status, company>>
toonExpo == <<answered, registered>>
vars == <<names, table, req, inFlight, replies, toonExpo>>

\* SUCCESS stands for LINKED_EXISTING too: the service treats them alike.
Statuses == {"PENDING", "SUCCESS", "FAILED"}
Steps == {"idle", "send", "wait", "persist", "link", "persist_failure"}
Request == [op : Steps, id : RowIds \cup {None}, name : Names \cup {None}]
Idle == [op |-> "idle", id |-> None, name |-> None]

TypeOK ==
    /\ name \in [Orgs -> Names] /\ renamed \subseteq Orgs
    /\ linked \in [Orgs -> Companies \cup {None}]
    /\ owner \in [RowIds -> Orgs \cup {None}]
    /\ status \in [RowIds -> Statuses]
    /\ company \in [RowIds -> Companies \cup {None}]
    /\ req \in [Handlers -> Request]
    /\ inFlight \subseteq Handlers \X RowIds \X Names
    /\ replies \subseteq Handlers \X RowIds
    /\ answered \in [RowIds -> Companies \cup {None}]
    /\ registered \in [Names -> Companies \cup {None}]

Init ==
    /\ name \in [Orgs -> Names] /\ renamed = {}
    /\ linked = [o \in Orgs |-> None]
    /\ owner = [r \in RowIds |-> None]
    /\ status = [r \in RowIds |-> "PENDING"]
    /\ company = [r \in RowIds |-> None]
    /\ req = [h \in Handlers |-> Idle]
    /\ inFlight = {} /\ replies = {}
    /\ answered = [r \in RowIds |-> None]
    /\ registered = [n \in Names |-> None]

Start(h, r, n) == req' = [req EXCEPT ![h] = [op |-> "send", id |-> r, name |-> n]]
Goto(h, step) == req' = [req EXCEPT ![h].op = step]
Respond(h) == req' = [req EXCEPT ![h] = Idle]

-----------------------------------------------------------------------------
\* OrganizationsService.update of the name.  Bound: once for each organization.
Rename(o) ==
    /\ o \notin renamed
    /\ \E n \in Names \ {name[o]} : name' = [name EXCEPT ![o] = n]
    /\ renamed' = renamed \cup {o}
    /\ UNCHANGED <<table, req, inFlight, replies, toonExpo>>

\* create: the checks, then the row; sendAndPersist follows with the organization as
\* it was read.
Create(h) ==
    /\ req[h].op = "idle"
    /\ \E o \in Orgs, r \in RowIds :
          /\ owner[r] = None
          /\ owner' = [owner EXCEPT ![r] = o]
          /\ Start(h, r, name[o])
    /\ UNCHANGED <<names, linked, status, company, inFlight, replies, toonExpo>>

\* retry: the row is read once and keeps its status until the new attempt ends.
MayRetry(r) == owner[r] # None /\ status[r] = "FAILED"

Retry(h) ==
    /\ req[h].op = "idle"
    /\ \E r \in RowIds : MayRetry(r) /\ Start(h, r, name[owner[r]])
    /\ UNCHANGED <<names, table, inFlight, replies, toonExpo>>

Send(h) ==
    /\ req[h].op = "send"
    /\ Goto(h, "wait")
    /\ inFlight' = inFlight \cup {<<h, req[h].id, req[h].name>>}
    /\ UNCHANGED <<names, table, replies, toonExpo>>

-----------------------------------------------------------------------------
\* handleProvisioning: a known request_id gets the stored response, a known name the
\* existing company, any other name a new company.
IsRegistered_NotLookedUp(n) == FALSE
IsRegistered(n) == registered[n] # None

WasAnswered(r) == answered[r] # None

\* The id of a new company is one no company has had.
Unused(c) == /\ \A n \in Names : registered[n] # c
             /\ \A r \in RowIds : answered[r] # c

AnswerWith(r, n, c) ==
    IF WasAnswered(r) THEN c = answered[r]
    ELSE IF IsRegistered(n) THEN c = registered[n] ELSE Unused(c)

ToonExpoReceives(h, r, n) ==
    /\ <<h, r, n>> \in inFlight
    /\ inFlight' = inFlight \ {<<h, r, n>>}
    /\ \E c \in Companies :
          /\ AnswerWith(r, n, c)
          /\ answered' = [answered EXCEPT ![r] = c]
          /\ registered' = IF WasAnswered(r) THEN registered
                           ELSE [registered EXCEPT ![n] = c]
    /\ replies' = IF req[h].op = "wait" /\ req[h].id = r
                  THEN replies \cup {<<h, r>>} ELSE replies
    /\ UNCHANGED <<names, table, req>>

LoseRequest(h, r, n) ==
    /\ <<h, r, n>> \in inFlight
    /\ inFlight' = inFlight \ {<<h, r, n>>}
    /\ UNCHANGED <<names, table, req, replies, toonExpo>>

Receive(h) ==
    /\ req[h].op = "wait" /\ <<h, req[h].id>> \in replies
    /\ Goto(h, "persist")
    /\ replies' = replies \ {<<h, req[h].id>>}
    /\ UNCHANGED <<names, table, inFlight, toonExpo>>

\* The abort after ten seconds, a broken connection, or a response that is not 2xx
\* JSON.  The request may still arrive later.
GiveUp(h) ==
    /\ req[h].op = "wait"
    /\ Goto(h, "persist_failure")
    /\ replies' = replies \ {<<h, req[h].id>>}
    /\ UNCHANGED <<names, table, inFlight, toonExpo>>

-----------------------------------------------------------------------------
\* persistResult: the row, then the organization.  The response carries the company
\* of answered, which does not change once it is there.
RecordedCompany_NotStored(r) == company[r]
RecordedCompany(r) == answered[r]

\* mapProvisioningStatusFromWire
RecordedStatus(r) == "SUCCESS"

PersistResult(h) ==
    LET r == req[h].id
    IN  /\ req[h].op = "persist"
        /\ status' = [status EXCEPT ![r] = RecordedStatus(r)]
        /\ company' = [company EXCEPT ![r] = RecordedCompany(r)]
        /\ Goto(h, "link")
        /\ UNCHANGED <<names, linked, owner, inFlight, replies, toonExpo>>

LinkOrganization(h) ==
    LET r == req[h].id
    IN  /\ req[h].op = "link"
        /\ linked' = [linked EXCEPT ![owner[r]] = answered[r]]
        /\ Respond(h)
        /\ UNCHANGED <<names, owner, status, company, inFlight, replies, toonExpo>>

\* persistFailure: the row becomes FAILED, whatever it has become meanwhile.
PersistFailure(h) ==
    /\ req[h].op = "persist_failure"
    /\ status' = [status EXCEPT ![req[h].id] = "FAILED"]
    /\ Respond(h)
    /\ UNCHANGED <<names, linked, owner, company, inFlight, replies, toonExpo>>

\* A failing statement: within the try block persistFailure follows, also when the
\* row was already SUCCESS; elsewhere the request ends with an error.
StatementFails(h) ==
    /\ \/ req[h].op \in {"persist", "link"} /\ Goto(h, "persist_failure")
       \/ req[h].op = "persist_failure" /\ Respond(h)
    /\ UNCHANGED <<names, table, inFlight, replies, toonExpo>>

\* The API process stops: its requests are gone, those on their way are not.
Restart ==
    /\ req' = [h \in Handlers |-> Idle]
    /\ replies' = {}
    /\ UNCHANGED <<names, table, inFlight, toonExpo>>

-----------------------------------------------------------------------------
Advance(h) == \/ Send(h) \/ Receive(h) \/ GiveUp(h)
              \/ PersistResult(h) \/ LinkOrganization(h) \/ PersistFailure(h)

Next == \/ \E h \in Handlers : Create(h) \/ Retry(h) \/ Advance(h) \/ StatementFails(h)
        \/ \E h \in Handlers, r \in RowIds, n \in Names :
              ToonExpoReceives(h, r, n) \/ LoseRequest(h, r, n)
        \/ \E o \in Orgs : Rename(o)
        \/ Restart

Spec == Init /\ [][Next]_vars

-----------------------------------------------------------------------------
\* "Repeating the request does not create a duplicate company": every request of an
\* organization, new, retried, repeated, late or concurrent, is answered with one company.
\* The exception is an organization that has been renamed: BOS sends its id, but the stub
\* looks companies up by name, and gives it a second one under its second name.
OneCompanyPerOrganization ==
    \A r, s \in RowIds :
        /\ answered[r] # None /\ answered[s] # None
        /\ owner[r] = owner[s] /\ owner[r] \notin renamed
        => answered[r] = answered[s]

\* A row that shows success shows the company that ToonExpo answered to it, even when
\* answers of several attempts are recorded in another order.
SuccessIsBacked ==
    \A r \in RowIds : status[r] = "SUCCESS" => company[r] # None /\ company[r] = answered[r]

\* An organization is linked only to a company that ToonExpo gave to one of its own
\* requests, whatever was renamed, repeated or late.
LinkIsBacked ==
    \A o \in Orgs : linked[o] # None =>
        \E r \in RowIds : owner[r] = o /\ answered[r] = linked[o]

\* The link of an organization is never lost, and it never moves to another company
\* unless the organization has been renamed.
LinkIsKept ==
    [][\A o \in Orgs :
          linked[o] # None /\ linked'[o] # linked[o] => linked'[o] # None /\ o \in renamed]_vars

\* What BOS records of ToonExpo's companies, in rows and in links, ToonExpo has answered.
RecordsAreBacked == SuccessIsBacked /\ LinkIsBacked
=============================================================================
