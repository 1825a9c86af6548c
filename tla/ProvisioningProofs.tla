--------------------------- MODULE ProvisioningProofs ---------------------------
(* Theorems about Provisioning for any number of organizations, requests and      *)
(* concurrent handlers, whatever the network loses or delays.                     *)
EXTENDS Provisioning, TLAPS

-----------------------------------------------------------------------------
\* Every message and every running request is about a row that exists, and a
\* handler that records a response has one.
RowsExist ==
    /\ \A h \in Handlers : req[h].op # "idle" =>
           req[h].id \in RowIds /\ owner[req[h].id] \in Orgs /\ req[h].name \in Names
    /\ \A m \in inFlight : owner[m[2]] \in Orgs
    /\ \A m \in replies : owner[m[2]] \in Orgs /\ answered[m[2]] # None
    /\ \A h \in Handlers : req[h].op \in {"persist", "link"} => answered[req[h].id] # None

\* An organization that was never renamed is known by one name everywhere.
NamesAgree ==
    /\ \A h \in Handlers : req[h].op # "idle" /\ owner[req[h].id] \notin renamed =>
           req[h].name = name[owner[req[h].id]]
    /\ \A m \in inFlight : owner[m[2]] \notin renamed => m[3] = name[owner[m[2]]]

\* It has been answered with the company registered under that name.
AnswersAgree ==
    \A r \in RowIds : answered[r] # None =>
        /\ owner[r] \in Orgs
        /\ owner[r] \notin renamed => answered[r] = registered[name[owner[r]]]

IInv == /\ TypeOK /\ RowsExist /\ NamesAgree /\ AnswersAgree
        /\ SuccessIsBacked /\ LinkIsBacked

LEMMA InitIInv == Init => IInv
<1> SUFFICES ASSUME Init PROVE IInv
  OBVIOUS
<1>1. TypeOK
  BY DEF Init, TypeOK, Idle, Request, Steps, Statuses
<1>2. RowsExist /\ NamesAgree /\ AnswersAgree
  BY DEF Init, Idle, RowsExist, NamesAgree, AnswersAgree
<1>3. SuccessIsBacked /\ LinkIsBacked
  BY DEF Init, SuccessIsBacked, LinkIsBacked
<1> QED BY <1>1, <1>2, <1>3 DEF IInv

\* What a step of one handler on its own request does to the request records.
LEMMA GotoTypes ==
    ASSUME TypeOK, NEW h \in Handlers, NEW step \in Steps, Goto(h, step)
    PROVE  /\ req' \in [Handlers -> Request]
           /\ req'[h].op = step /\ req'[h].id = req[h].id /\ req'[h].name = req[h].name
           /\ \A g \in Handlers \ {h} : req'[g] = req[g]
BY DEF TypeOK, Goto, Request

LEMMA RespondTypes ==
    ASSUME TypeOK, NEW h \in Handlers, Respond(h)
    PROVE  /\ req' \in [Handlers -> Request]
           /\ req'[h].op = "idle"
           /\ \A g \in Handlers \ {h} : req'[g] = req[g]
BY DEF TypeOK, Respond, Request, Idle, Steps

LEMMA StartTypes ==
    ASSUME TypeOK, NEW h \in Handlers, NEW r \in RowIds, NEW n \in Names, Start(h, r, n)
    PROVE  /\ req' \in [Handlers -> Request]
           /\ req'[h].op = "send" /\ req'[h].id = r /\ req'[h].name = n
           /\ \A g \in Handlers \ {h} : req'[g] = req[g]
BY DEF TypeOK, Start, Request, Steps

-----------------------------------------------------------------------------
\* Steps that touch neither the tables nor ToonExpo.
LEMMA RequestsOnly ==
    ASSUME IInv, UNCHANGED <<names, table, toonExpo>>, TypeOK', RowsExist', NamesAgree'
    PROVE  IInv'
<1>1. AnswersAgree'
  BY DEF IInv, AnswersAgree, names, table, toonExpo
<1>2. SuccessIsBacked' /\ LinkIsBacked'
  BY DEF IInv, SuccessIsBacked, LinkIsBacked, names, table, toonExpo
<1> QED BY <1>1, <1>2 DEF IInv

-----------------------------------------------------------------------------
\* Each kind of step keeps the invariant.
LEMMA RenameKeeps ==
    ASSUME IInv, NEW o \in Orgs, Rename(o)
    PROVE  IInv'
<1>1. /\ name' \in [Orgs -> Names] /\ renamed' = renamed \cup {o}
      /\ \A p \in Orgs \ {o} : name'[p] = name[p]
      /\ UNCHANGED <<table, req, inFlight, replies, toonExpo>>
  BY DEF Rename, IInv, TypeOK
<1>2. TypeOK'
  BY <1>1 DEF IInv, TypeOK, table, toonExpo
<1>3. RowsExist'
  BY <1>1 DEF IInv, RowsExist, table, toonExpo
<1>4. NamesAgree'
  <2>1. \A h \in Handlers : req[h].op # "idle" /\ owner[req[h].id] \notin renamed' =>
           req[h].name = name'[owner[req[h].id]]
    BY <1>1 DEF IInv, RowsExist, NamesAgree
  <2>2. \A m \in inFlight : owner[m[2]] \notin renamed' => m[3] = name'[owner[m[2]]]
    BY <1>1 DEF IInv, RowsExist, NamesAgree
  <2> QED BY <1>1, <2>1, <2>2 DEF NamesAgree, table
<1>5. AnswersAgree'
  BY <1>1 DEF IInv, AnswersAgree, table, toonExpo
<1> QED
  BY <1>1, <1>2, <1>3, <1>4, <1>5 DEF IInv, SuccessIsBacked, LinkIsBacked,
     table, toonExpo

LEMMA CreateKeeps ==
    ASSUME IInv, NEW h \in Handlers, Create(h)
    PROVE  IInv'
<1>1. PICK o \in Orgs, r \in RowIds :
          /\ owner[r] = None
          /\ owner' = [owner EXCEPT ![r] = o]
          /\ Start(h, r, name[o])
  BY DEF Create
<1>2. /\ req' \in [Handlers -> Request]
      /\ req'[h].op = "send" /\ req'[h].id = r /\ req'[h].name = name[o]
      /\ \A g \in Handlers \ {h} : req'[g] = req[g]
      /\ name[o] \in Names
  BY <1>1, StartTypes DEF IInv, TypeOK
<1>3. owner'[r] = o /\ \A s \in RowIds \ {r} : owner'[s] = owner[s]
  BY <1>1 DEF IInv, TypeOK
<1>4. UNCHANGED <<names, linked, status, company, inFlight, replies, toonExpo>>
  BY DEF Create
<1>5. TypeOK'
  BY <1>1, <1>2, <1>4 DEF IInv, TypeOK, names, toonExpo
<1>6. \A s \in RowIds : owner[s] \in Orgs => s # r
  BY <1>1, NoneIsNothing
<1>7. answered[r] = None
  BY <1>6 DEF IInv, AnswersAgree
<1>8. \A m \in inFlight \cup replies : m[2] \in RowIds /\ m[2] # r
  BY <1>6 DEF IInv, TypeOK, RowsExist
<1>9. \A g \in Handlers \ {h} : req[g].op # "idle" => req[g].id \in RowIds /\ req[g].id # r
  BY <1>6 DEF IInv, RowsExist
<1>10. RowsExist'
  <2>1. \A g \in Handlers : req'[g].op # "idle" =>
           req'[g].id \in RowIds /\ owner'[req'[g].id] \in Orgs /\ req'[g].name \in Names
    BY <1>2, <1>3, <1>9 DEF IInv, RowsExist
  <2>2. /\ \A m \in inFlight : owner'[m[2]] \in Orgs
        /\ \A m \in replies : owner'[m[2]] \in Orgs /\ answered[m[2]] # None
    BY <1>3, <1>8 DEF IInv, RowsExist
  <2>3. \A g \in Handlers : req'[g].op \in {"persist", "link"} => answered[req'[g].id] # None
    BY <1>2 DEF IInv, RowsExist
  <2> QED BY <1>4, <2>1, <2>2, <2>3 DEF RowsExist, toonExpo
<1>11. NamesAgree'
  <2>1. \A g \in Handlers : req'[g].op # "idle" /\ owner'[req'[g].id] \notin renamed =>
           req'[g].name = name[owner'[req'[g].id]]
    BY <1>2, <1>3, <1>9 DEF IInv, NamesAgree
  <2>2. \A m \in inFlight : owner'[m[2]] \notin renamed => m[3] = name[owner'[m[2]]]
    BY <1>3, <1>8 DEF IInv, NamesAgree
  <2> QED BY <1>4, <2>1, <2>2 DEF NamesAgree, names
<1>12. AnswersAgree'
  BY <1>3, <1>4, <1>7 DEF IInv, AnswersAgree, names, toonExpo
<1>13. LinkIsBacked'
  <2>1. \A p \in Orgs, s \in RowIds : owner[s] = p => owner'[s] = p
    BY <1>3, <1>6
  <2> QED BY <1>4, <2>1 DEF IInv, LinkIsBacked, toonExpo
<1> QED
  BY <1>4, <1>5, <1>10, <1>11, <1>12, <1>13
     DEF IInv, SuccessIsBacked, toonExpo

LEMMA RetryKeeps ==
    ASSUME IInv, NEW h \in Handlers, Retry(h)
    PROVE  IInv'
<1>1. PICK r \in RowIds : MayRetry(r) /\ Start(h, r, name[owner[r]])
  BY DEF Retry
<1>2. owner[r] \in Orgs /\ name[owner[r]] \in Names
  BY <1>1 DEF IInv, TypeOK, MayRetry
<1>3. /\ req' \in [Handlers -> Request]
      /\ req'[h].op = "send" /\ req'[h].id = r /\ req'[h].name = name[owner[r]]
      /\ \A g \in Handlers \ {h} : req'[g] = req[g]
  BY <1>1, <1>2, StartTypes DEF IInv
<1>4. UNCHANGED <<names, table, inFlight, replies, toonExpo>>
  BY DEF Retry
<1>5. TypeOK'
  BY <1>3, <1>4 DEF IInv, TypeOK, names, table, toonExpo
<1>6. RowsExist'
  BY <1>2, <1>3, <1>4 DEF IInv, RowsExist, table, toonExpo
<1>7. NamesAgree'
  BY <1>3, <1>4 DEF IInv, NamesAgree, names, table
<1> QED BY <1>4, <1>5, <1>6, <1>7, RequestsOnly

\* The steps of the client, from the request to the response or its absence.
LEMMA ClientKeeps ==
    ASSUME IInv, NEW h \in Handlers, Send(h) \/ Receive(h) \/ GiveUp(h)
    PROVE  IInv'
<1>1. /\ UNCHANGED <<names, table, toonExpo>>
      /\ replies' \subseteq replies
      /\ inFlight' \subseteq inFlight \cup {<<h, req[h].id, req[h].name>>}
  BY DEF Send, Receive, GiveUp
<1>2. PICK step \in {"wait", "persist", "persist_failure"} :
         Goto(h, step) /\ (step = "persist" => <<h, req[h].id>> \in replies)
  BY DEF Send, Receive, GiveUp
<1>3. /\ req' \in [Handlers -> Request]
      /\ req'[h].op = step /\ req'[h].id = req[h].id /\ req'[h].name = req[h].name
      /\ \A g \in Handlers \ {h} : req'[g] = req[g]
  BY <1>2, GotoTypes DEF IInv, Steps
<1>4. /\ req[h].op # "idle" /\ req[h].id \in RowIds /\ owner[req[h].id] \in Orgs
      /\ req[h].name \in Names
  BY DEF Send, Receive, GiveUp, IInv, RowsExist
<1>5. step = "persist" => answered[req[h].id] # None
  BY <1>2 DEF IInv, RowsExist
<1>6. TypeOK'
  BY <1>1, <1>3, <1>4 DEF IInv, TypeOK, names, table, toonExpo
<1>7. RowsExist'
  <2>1. \A g \in Handlers : req'[g].op # "idle" =>
           req'[g].id \in RowIds /\ owner[req'[g].id] \in Orgs /\ req'[g].name \in Names
    BY <1>3, <1>4 DEF IInv, RowsExist
  <2>2. /\ \A m \in inFlight' : owner[m[2]] \in Orgs
        /\ \A m \in replies' : owner[m[2]] \in Orgs /\ answered[m[2]] # None
    BY <1>1, <1>4 DEF IInv, RowsExist
  <2>3. \A g \in Handlers : req'[g].op \in {"persist", "link"} => answered[req'[g].id] # None
    BY <1>3, <1>5 DEF IInv, RowsExist
  <2> QED BY <1>1, <2>1, <2>2, <2>3 DEF RowsExist, table, toonExpo
<1>8. NamesAgree'
  <2>1. \A g \in Handlers : req'[g].op # "idle" /\ owner[req'[g].id] \notin renamed =>
           req'[g].name = name[owner[req'[g].id]]
    BY <1>3, <1>4 DEF IInv, NamesAgree
  <2>2. \A m \in inFlight' : owner[m[2]] \notin renamed => m[3] = name[owner[m[2]]]
    BY <1>1, <1>4 DEF IInv, NamesAgree
  <2> QED BY <1>1, <2>1, <2>2 DEF NamesAgree, names, table
<1> QED BY <1>1, <1>6, <1>7, <1>8, RequestsOnly

LEMMA LoseKeeps ==
    ASSUME IInv, NEW h \in Handlers, NEW r \in RowIds, NEW n \in Names, LoseRequest(h, r, n)
    PROVE  IInv'
<1>1. inFlight' \subseteq inFlight /\ UNCHANGED <<names, table, req, replies, toonExpo>>
  BY DEF LoseRequest
<1>2. TypeOK'
  BY <1>1 DEF IInv, TypeOK, names, table, toonExpo
<1>3. RowsExist'
  BY <1>1 DEF IInv, RowsExist, names, table, toonExpo
<1>4. NamesAgree'
  BY <1>1 DEF IInv, NamesAgree, names, table
<1> QED BY <1>1, <1>2, <1>3, <1>4, RequestsOnly

\* ToonExpo answers a request it knows as before, and never gives a name another
\* company.
LEMMA ToonExpoKeeps ==
    ASSUME IInv, NEW h \in Handlers, NEW r \in RowIds, NEW n \in Names,
           ToonExpoReceives(h, r, n)
    PROVE  IInv'
<1>1. PICK c \in Companies :
          /\ AnswerWith(r, n, c)
          /\ answered' = [answered EXCEPT ![r] = c]
          /\ registered' = IF answered[r] # None THEN registered
                           ELSE [registered EXCEPT ![n] = c]
  BY DEF ToonExpoReceives, WasAnswered
<1>2. /\ <<h, r, n>> \in inFlight /\ inFlight' \subseteq inFlight
      /\ replies' \subseteq replies \cup {<<h, r>>}
      /\ UNCHANGED <<names, table, req>>
  BY DEF ToonExpoReceives
<1>3. owner[r] \in Orgs /\ (owner[r] \notin renamed => n = name[owner[r]])
  BY <1>2 DEF IInv, RowsExist, NamesAgree
<1>4. c # None
  BY NoneIsNothing
<1>5. answered'[r] = c /\ \A s \in RowIds \ {r} : answered'[s] = answered[s]
  BY <1>1 DEF IInv, TypeOK
<1>6. answered[r] # None => c = answered[r] /\ registered' = registered
  BY <1>1 DEF AnswerWith, WasAnswered
<1>7. answered[r] = None => registered'[n] = c
  BY <1>1 DEF IInv, TypeOK
<1>8. \A m \in Names : registered[m] # None => registered'[m] = registered[m]
  <2>1. CASE answered[r] # None
    BY <1>6, <2>1
  <2>2. CASE answered[r] = None
    <3>1. registered[n] # None => registered[n] = c
      BY <1>1, <2>2 DEF AnswerWith, WasAnswered, IsRegistered
    <3>2. registered' = [registered EXCEPT ![n] = c]
      BY <1>1, <2>2
    <3> QED BY <3>1, <3>2 DEF IInv, TypeOK
  <2> QED BY <2>1, <2>2
<1>9. \A s \in RowIds : answered[s] # None => answered'[s] = answered[s]
  BY <1>5, <1>6
<1>10. TypeOK'
  <2>1. registered' \in [Names -> Companies \cup {None}]
    BY <1>1 DEF IInv, TypeOK
  <2>2. replies' \subseteq Handlers \X RowIds /\ inFlight' \subseteq Handlers \X RowIds \X Names
    BY <1>2 DEF IInv, TypeOK
  <2>3. answered' \in [RowIds -> Companies \cup {None}]
    BY <1>1 DEF IInv, TypeOK
  <2> QED BY <1>2, <2>1, <2>2, <2>3 DEF IInv, TypeOK, names, table
<1>11. RowsExist'
  <2>1. /\ \A g \in Handlers : req[g].op # "idle" =>
              req[g].id \in RowIds /\ owner[req[g].id] \in Orgs /\ req[g].name \in Names
        /\ \A m \in inFlight' : owner[m[2]] \in Orgs
    BY <1>2 DEF IInv, RowsExist
  <2>2. \A m \in replies' : owner[m[2]] \in Orgs /\ answered'[m[2]] # None
    <3> SUFFICES ASSUME NEW m \in replies' PROVE owner[m[2]] \in Orgs /\ answered'[m[2]] # None
      OBVIOUS
    <3>1. CASE m = <<h, r>>
      BY <1>3, <1>4, <1>5, <3>1
    <3>2. CASE m \in replies
      BY <1>9, <3>2 DEF IInv, TypeOK, RowsExist
    <3> QED BY <1>2, <3>1, <3>2
  <2>3. \A g \in Handlers : req[g].op \in {"persist", "link"} => answered'[req[g].id] # None
    BY <1>9 DEF IInv, RowsExist
  <2> QED BY <1>2, <2>1, <2>2, <2>3 DEF RowsExist, table
<1>12. NamesAgree'
  BY <1>2 DEF IInv, NamesAgree, names, table
<1>13. AnswersAgree'
  <2> SUFFICES ASSUME NEW s \in RowIds, answered'[s] # None
               PROVE  /\ owner[s] \in Orgs
                      /\ owner[s] \notin renamed => answered'[s] = registered'[name[owner[s]]]
    BY <1>2 DEF AnswersAgree, names, table
  <2>1. CASE answered[s] # None
    <3>1. /\ owner[s] \in Orgs /\ name[owner[s]] \in Names
          /\ owner[s] \notin renamed => answered[s] = registered[name[owner[s]]]
      BY <2>1 DEF IInv, AnswersAgree, TypeOK
    <3> QED BY <1>8, <1>9, <2>1, <3>1
  <2>2. CASE answered[s] = None
    BY <1>3, <1>5, <1>7, <2>2
  <2> QED BY <2>1, <2>2
<1>14. SuccessIsBacked'
  BY <1>2, <1>9 DEF IInv, SuccessIsBacked, table
<1>15. LinkIsBacked'
  BY <1>2, <1>9 DEF IInv, LinkIsBacked, table
<1> QED BY <1>10, <1>11, <1>12, <1>13, <1>14, <1>15 DEF IInv

LEMMA PersistResultKeeps ==
    ASSUME IInv, NEW h \in Handlers, PersistResult(h)
    PROVE  IInv'
<1> DEFINE r == req[h].id
<1>1. r \in RowIds /\ owner[r] \in Orgs /\ answered[r] # None /\ req[h].op = "persist"
  BY DEF PersistResult, IInv, RowsExist
<1>2. /\ req' \in [Handlers -> Request]
      /\ req'[h].op = "link" /\ req'[h].id = r /\ req'[h].name = req[h].name
      /\ \A g \in Handlers \ {h} : req'[g] = req[g]
  BY GotoTypes DEF PersistResult, IInv, Steps
<1>3. /\ status' = [status EXCEPT ![r] = "SUCCESS"]
      /\ company' = [company EXCEPT ![r] = answered[r]]
      /\ UNCHANGED <<names, linked, owner, inFlight, replies, toonExpo>>
  BY DEF PersistResult, RecordedStatus, RecordedCompany
<1>4. TypeOK'
  BY <1>1, <1>2, <1>3 DEF IInv, TypeOK, Statuses, names, toonExpo
<1>5. RowsExist'
  BY <1>1, <1>2, <1>3 DEF IInv, RowsExist, toonExpo
<1>6. NamesAgree'
  BY <1>1, <1>2, <1>3 DEF IInv, NamesAgree, names
<1>7. SuccessIsBacked'
  BY <1>1, <1>3 DEF IInv, SuccessIsBacked, TypeOK, toonExpo
<1> QED
  BY <1>3, <1>4, <1>5, <1>6, <1>7
     DEF IInv, AnswersAgree, LinkIsBacked, names, toonExpo

\* For an organization never renamed, the write stores what is already there.
LEMMA LinkedValue ==
    ASSUME IInv, NEW h \in Handlers, LinkOrganization(h)
    PROVE  LET o == owner[req[h].id] IN
           /\ req[h].id \in RowIds /\ o \in Orgs
           /\ linked' = [linked EXCEPT ![o] = answered[req[h].id]]
           /\ answered[req[h].id] \in Companies
           /\ linked[o] # None /\ o \notin renamed => linked[o] = answered[req[h].id]
<1> DEFINE o == owner[req[h].id]
<1>1. req[h].id \in RowIds /\ o \in Orgs /\ answered[req[h].id] # None
  BY DEF LinkOrganization, IInv, RowsExist
<1>2. answered[req[h].id] \in Companies
  BY <1>1 DEF IInv, TypeOK
<1>3. ASSUME linked[o] # None, o \notin renamed
      PROVE  linked[o] = answered[req[h].id]
  <2>1. PICK s \in RowIds : owner[s] = o /\ answered[s] = linked[o]
    BY <1>1, <1>3 DEF IInv, LinkIsBacked
  <2> QED BY <1>1, <1>3, <2>1 DEF IInv, AnswersAgree
<1> QED BY <1>1, <1>2, <1>3 DEF LinkOrganization

LEMMA LinkKeeps ==
    ASSUME IInv, NEW h \in Handlers, LinkOrganization(h)
    PROVE  IInv'
<1>1. /\ req' \in [Handlers -> Request]
      /\ req'[h].op = "idle"
      /\ \A g \in Handlers \ {h} : req'[g] = req[g]
  BY RespondTypes DEF LinkOrganization, IInv
<1>2. UNCHANGED <<names, owner, status, company, inFlight, replies, toonExpo>>
  BY DEF LinkOrganization
<1>3. TypeOK'
  BY <1>1, <1>2, LinkedValue DEF IInv, TypeOK, names, toonExpo
<1>4. RowsExist' /\ NamesAgree'
  BY <1>1, <1>2 DEF IInv, RowsExist, NamesAgree, names, toonExpo
<1>5. LinkIsBacked'
  BY <1>2, LinkedValue DEF IInv, LinkIsBacked, TypeOK, toonExpo
<1> QED
  BY <1>2, <1>3, <1>4, <1>5
     DEF IInv, AnswersAgree, SuccessIsBacked, names, toonExpo

LEMMA FailuresKeep ==
    ASSUME IInv, NEW h \in Handlers, PersistFailure(h) \/ StatementFails(h)
    PROVE  IInv'
<1>1. CASE PersistFailure(h)
  <2>1. /\ req' \in [Handlers -> Request]
        /\ req'[h].op = "idle"
        /\ \A g \in Handlers \ {h} : req'[g] = req[g]
    BY <1>1, RespondTypes DEF PersistFailure, IInv
  <2>2. /\ req[h].id \in RowIds /\ status' = [status EXCEPT ![req[h].id] = "FAILED"]
        /\ UNCHANGED <<names, linked, owner, company, inFlight, replies, toonExpo>>
    BY <1>1 DEF PersistFailure, IInv, RowsExist
  <2>3. TypeOK'
    BY <2>1, <2>2 DEF IInv, TypeOK, Statuses, names, toonExpo
  <2>4. RowsExist' /\ NamesAgree'
    BY <2>1, <2>2 DEF IInv, RowsExist, NamesAgree, names, toonExpo
  <2>5. SuccessIsBacked'
    BY <2>2 DEF IInv, SuccessIsBacked, TypeOK, toonExpo
  <2> QED
    BY <2>2, <2>3, <2>4, <2>5
       DEF IInv, AnswersAgree, LinkIsBacked, names, toonExpo
<1>2. CASE StatementFails(h)
  <2>1. \/ req[h].op \in {"persist", "link"} /\ Goto(h, "persist_failure")
        \/ req[h].op = "persist_failure" /\ Respond(h)
    BY <1>2 DEF StatementFails
  <2>2. /\ req' \in [Handlers -> Request]
        /\ \A g \in Handlers \ {h} : req'[g] = req[g]
        /\ \/ req'[h].op = "idle"
           \/ /\ req'[h].op = "persist_failure" /\ req[h].op \in {"persist", "link"}
              /\ req'[h].id = req[h].id /\ req'[h].name = req[h].name
    BY <2>1, GotoTypes, RespondTypes DEF IInv, Steps
  <2>3. UNCHANGED <<names, table, inFlight, replies, toonExpo>>
    BY <1>2 DEF StatementFails
  <2>4. TypeOK'
    BY <2>2, <2>3 DEF IInv, TypeOK, names, table, toonExpo
  <2>5. RowsExist' /\ NamesAgree'
    BY <2>2, <2>3 DEF IInv, RowsExist, NamesAgree, names, table, toonExpo
  <2> QED BY <2>3, <2>4, <2>5, RequestsOnly
<1> QED BY <1>1, <1>2

LEMMA RestartKeeps ==
    ASSUME IInv, Restart
    PROVE  IInv'
<1>1. TypeOK'
  BY DEF Restart, IInv, TypeOK, names, table, toonExpo, Request, Idle, Steps
<1>2. RowsExist' /\ NamesAgree'
  BY DEF Restart, IInv, RowsExist, NamesAgree, Idle, names, table, toonExpo
<1> QED BY <1>1, <1>2, RequestsOnly DEF Restart

LEMMA NextIInv == IInv /\ [Next]_vars => IInv'
<1> SUFFICES ASSUME IInv, [Next]_vars
             PROVE  IInv'
  OBVIOUS
<1>1. CASE UNCHANGED vars
  <2>1. TypeOK' /\ RowsExist' /\ NamesAgree'
    BY <1>1 DEF vars, names, table, toonExpo, IInv, TypeOK, RowsExist, NamesAgree
  <2> QED BY <1>1, <2>1, RequestsOnly DEF vars
<1>2. ASSUME NEW h \in Handlers, Create(h) \/ Retry(h) \/ Advance(h) \/ StatementFails(h)
      PROVE  IInv'
  <2>1. CASE Create(h)
    BY <2>1, CreateKeeps
  <2>2. CASE Retry(h)
    BY <2>2, RetryKeeps
  <2>3. CASE Send(h) \/ Receive(h) \/ GiveUp(h)
    BY <2>3, ClientKeeps
  <2>4. CASE PersistResult(h)
    BY <2>4, PersistResultKeeps
  <2>5. CASE LinkOrganization(h)
    BY <2>5, LinkKeeps
  <2>6. CASE PersistFailure(h) \/ StatementFails(h)
    BY <2>6, FailuresKeep
  <2> QED BY <1>2, <2>1, <2>2, <2>3, <2>4, <2>5, <2>6 DEF Advance
<1>3. ASSUME NEW h \in Handlers, NEW r \in RowIds, NEW n \in Names,
             ToonExpoReceives(h, r, n) \/ LoseRequest(h, r, n)
      PROVE  IInv'
  BY <1>3, ToonExpoKeeps, LoseKeeps
<1>4. ASSUME NEW o \in Orgs, Rename(o)
      PROVE  IInv'
  BY <1>4, RenameKeeps
<1>5. CASE Restart
  BY <1>5, RestartKeeps
<1> QED BY <1>1, <1>2, <1>3, <1>4, <1>5 DEF Next

THEOREM Invariance == Spec => []IInv
BY InitIInv, NextIInv, PTL DEF Spec

-----------------------------------------------------------------------------
\* Every reachable state is well typed.
THEOREM TypeCorrect == Spec => []TypeOK
BY Invariance, PTL DEF IInv

\* As long as an organization keeps its name, all its requests, retried, late or
\* concurrent, are answered with one company.
THEOREM OneCompany == Spec => []OneCompanyPerOrganization
<1>1. IInv => OneCompanyPerOrganization
  BY DEF IInv, AnswersAgree, OneCompanyPerOrganization
<1> QED BY <1>1, Invariance, PTL

\* A row that shows success shows the company ToonExpo answered to it.
THEOREM SuccessBacked == Spec => []SuccessIsBacked
BY Invariance, PTL DEF IInv

\* An organization is linked only to a company answered to one of its own requests.
THEOREM LinkBacked == Spec => []LinkIsBacked
BY Invariance, PTL DEF IInv

\* An organization that keeps its name keeps its company, whatever is retried, late or
\* concurrent: each write of the link stores the value that is already there.
THEOREM LinkKept == Spec => LinkIsKept
<1> DEFINE Keeps == \A o \in Orgs :
              linked[o] # None /\ linked'[o] # linked[o] => linked'[o] # None /\ o \in renamed
<1>1. ASSUME IInv, [Next]_vars
      PROVE  Keeps
  <2>1. CASE UNCHANGED linked
    BY <2>1
  <2>2. ASSUME NEW h \in Handlers, LinkOrganization(h)
        PROVE  Keeps
    BY <1>1, <2>2, LinkedValue, NoneIsNothing DEF IInv, TypeOK
  <2> QED
    BY <1>1, <2>1, <2>2
       DEF Next, vars, table, Create, Retry, Advance, StatementFails, Send, Receive,
           GiveUp, PersistResult, PersistFailure, ToonExpoReceives, LoseRequest, Restart,
           Rename
<1> QED BY <1>1, Invariance, PTL DEF Spec, LinkIsKept

\* Rows and links show nothing that ToonExpo has not answered.
THEOREM Backed == Spec => []RecordsAreBacked
BY SuccessBacked, LinkBacked, PTL DEF RecordsAreBacked
=============================================================================
