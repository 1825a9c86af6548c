-------------------------- MODULE MapPublicationProofs --------------------------
(* Theorems about MapPublication for any number of concurrent publish requests,   *)
(* rows, contents and versions, whatever the network loses or delays.             *)
EXTENDS MapPublication, TLAPS

-----------------------------------------------------------------------------
Used == RowIds \ fresh

\* Every version below v has its row.
Covered(v) == \A w \in 1..MaxVersion : w < v => \E s \in rows : version[s] = w

\* The rows that exist were created by an attempt; an id that was never used has
\* neither a status nor an answer.
RowsKnown ==
    /\ rows \subseteq Used
    /\ \A r \in Used : checksum[r] \in Checksums /\ version[r] >= 1
    /\ \A r \in fresh : status[r] = "PENDING" /\ outcome[r] = "none"

\* What the steps of prepareAttemptRow rely on.
Attempts ==
    \A h \in Handlers :
        /\ req[h].op \in {"read_last", "delete", "insert"} => req[h].checksum \in Checksums
        /\ req[h].op \in {"delete", "insert"} => req[h].version >= 1 /\ Covered(req[h].version)
        /\ req[h].op = "insert" =>
               \A s \in req[h].seen : s \in Used /\ version[s] = req[h].version

\* What is sent, answered and recorded is about a row that was created.
Sent ==
    /\ \A h \in Handlers :
           /\ req[h].op \in {"send", "wait", "persist", "plan_update", "persist_failure"}
                  => req[h].id \in Used
           /\ req[h].op = "persist" => outcome[req[h].id] # "none"
    /\ inFlight \subseteq Used
    /\ \A r \in replies : r \in Used /\ outcome[r] # "none"

\* A positive answer, and a row that records one, stand for an accepted map; the
\* highest accepted version is an upper bound.
Acceptances ==
    /\ \A r \in RowIds : outcome[r] \in {"published", "already_published"} =>
                             <<version[r], checksum[r]>> \in accepted
    /\ \A r \in RowIds : status[r] \in PublishedLike =>
                             <<version[r], checksum[r]>> \in accepted
    /\ \A m \in accepted : m[1] <= maxVersion

IInv == /\ TypeOK /\ RowsKnown /\ Attempts /\ Sent /\ Acceptances
        /\ OneRowPerVersion /\ VersionsAreContiguous

LEMMA InitIInv == Init => IInv
<1> SUFFICES ASSUME Init PROVE IInv
  OBVIOUS
<1>1. TypeOK
  BY MaxVersionIsNat DEF Init, TypeOK, Idle, Request, Steps, Versions, RowStatuses, Outcomes
<1>2. RowsKnown /\ Attempts /\ Sent /\ Acceptances /\ OneRowPerVersion /\ VersionsAreContiguous
  BY DEF Init, RowsKnown, Used, Attempts, Sent, Acceptances, OneRowPerVersion,
         VersionsAreContiguous, Idle, PublishedLike
<1> QED BY <1>1, <1>2 DEF IInv

-----------------------------------------------------------------------------
LEMMA GotoTypes ==
    ASSUME TypeOK, NEW h \in Handlers, NEW step \in Steps, Goto(h, step)
    PROVE  /\ req' \in [Handlers -> Request]
           /\ req'[h] = [req[h] EXCEPT !.op = step]
           /\ req'[h].op = step /\ req'[h].id = req[h].id
           /\ \A g \in Handlers \ {h} : req'[g] = req[g]
BY DEF TypeOK, Goto, Request

LEMMA RespondTypes ==
    ASSUME TypeOK, NEW h \in Handlers, Respond(h)
    PROVE  /\ req' \in [Handlers -> Request]
           /\ req'[h].op = "idle"
           /\ \A g \in Handlers \ {h} : req'[g] = req[g]
BY MaxVersionIsNat DEF TypeOK, Respond, Request, Idle, Steps, Versions

\* Steps that leave every table, message and answer alone and answer a request.
LEMMA AnswerKeeps ==
    ASSUME IInv, NEW h \in Handlers, Respond(h),
           UNCHANGED <<content, table, inFlight, replies, toonExpo>>
    PROVE  IInv'
<1>1. /\ req' \in [Handlers -> Request]
      /\ req'[h].op = "idle"
      /\ \A g \in Handlers \ {h} : req'[g] = req[g]
  BY RespondTypes DEF IInv
<1>2. TypeOK'
  BY <1>1 DEF IInv, TypeOK, table, toonExpo
<1>3. Attempts'
  BY <1>1 DEF IInv, Attempts, Covered, Used, table
<1>4. Sent'
  BY <1>1 DEF IInv, Sent, Used, table, toonExpo
<1> QED
  BY <1>2, <1>3, <1>4 DEF IInv, RowsKnown, Used, Acceptances, OneRowPerVersion,
                          VersionsAreContiguous, table, toonExpo

\* Steps that leave the tables alone and move one request to its failure handler.
LEMMA FailKeeps ==
    ASSUME IInv, NEW h \in Handlers, Goto(h, "persist_failure"), req[h].id \in Used,
           UNCHANGED <<content, table, inFlight, toonExpo>>, replies' \subseteq replies
    PROVE  IInv'
<1>1. /\ req' \in [Handlers -> Request]
      /\ req'[h].op = "persist_failure" /\ req'[h].id = req[h].id
      /\ \A g \in Handlers \ {h} : req'[g] = req[g]
  BY GotoTypes DEF IInv, Steps
<1>2. TypeOK'
  BY <1>1 DEF IInv, TypeOK, table, toonExpo
<1>3. Attempts'
  BY <1>1 DEF IInv, Attempts, Covered, Used, table
<1>4. Sent'
  BY <1>1 DEF IInv, Sent, Used, table, toonExpo
<1> QED
  BY <1>2, <1>3, <1>4 DEF IInv, RowsKnown, Used, Acceptances, OneRowPerVersion,
                          VersionsAreContiguous, table, toonExpo

-----------------------------------------------------------------------------
\* Each step keeps the invariant: reading the map and preparing the row.
LEMMA PublishKeeps ==
    ASSUME IInv, NEW h \in Handlers, Publish(h)
    PROVE  IInv'
<1> DEFINE q == [Idle EXCEPT !.op = "read_last", !.checksum = content]
<1>1. q \in Request /\ q.op = "read_last" /\ q.checksum \in Checksums
  <2>1. Idle \in Request
    BY MaxVersionIsNat DEF Idle, Request, Steps, Versions
  <2>2. content \in Checksums
    BY DEF IInv, TypeOK
  <2> QED BY <2>1, <2>2 DEF Request, Steps
<1>2. req' = [req EXCEPT ![h] = q]
  BY DEF Publish
<1> HIDE DEF q
<1>3. TypeOK'
  BY <1>1, <1>2 DEF Publish, IInv, TypeOK, table, toonExpo
<1>4. Attempts'
  BY <1>1, <1>2 DEF Publish, IInv, TypeOK, Attempts, Covered, Used, table
<1>5. Sent'
  BY <1>1, <1>2 DEF Publish, IInv, TypeOK, Sent, Used, table, toonExpo
<1> QED
  BY <1>3, <1>4, <1>5 DEF Publish, IInv, RowsKnown, Used, Acceptances, OneRowPerVersion,
                          VersionsAreContiguous, table, toonExpo

\* The version of an attempt is positive, and all lower versions have rows.
LEMMA AttemptIsCovered ==
    ASSUME IInv, NEW c \in Checksums, NEW v \in Versions, AttemptVersion(c, v)
    PROVE  v >= 1 /\ Covered(v)
<1>1. CASE rows = {}
  BY <1>1 DEF AttemptVersion, Covered
<1>2. CASE rows # {}
  <2>1. PICK r \in rows : /\ IsNewest(r)
                          /\ v = IF checksum[r] = c THEN version[r] ELSE version[r] + 1
    BY <1>2 DEF AttemptVersion
  <2>2. version[r] \in Int /\ version[r] >= 1
    BY <2>1, MaxVersionIsNat DEF IInv, TypeOK, RowsKnown, Used, Versions
  <2>3. Covered(v)
    BY <2>1, <2>2, MaxVersionIsNat DEF IInv, VersionsAreContiguous, Covered
  <2> QED BY <2>1, <2>2, <2>3
<1> QED BY <1>1, <1>2

LEMMA ReadLastKeeps ==
    ASSUME IInv, NEW h \in Handlers, ReadLast(h)
    PROVE  IInv'
<1>1. CASE Respond(h)
  BY <1>1, AnswerKeeps DEF ReadLast
<1>2. ASSUME NEW v \in Versions, AttemptVersion(req[h].checksum, v),
             req' = [req EXCEPT ![h].op = "delete", ![h].version = v]
      PROVE  IInv'
  <2>1. req[h].checksum \in Checksums
    BY DEF ReadLast, IInv, Attempts
  <2>2. v >= 1 /\ Covered(v)
    BY <1>2, <2>1, AttemptIsCovered
  <2>3. /\ req' \in [Handlers -> Request]
        /\ req'[h].op = "delete" /\ req'[h].version = v
        /\ req'[h].checksum = req[h].checksum
        /\ \A g \in Handlers \ {h} : req'[g] = req[g]
    <3> DEFINE q == [req[h] EXCEPT !.op = "delete", !.version = v]
    <3>1. /\ q \in Request /\ q.op = "delete" /\ q.version = v
          /\ q.checksum = req[h].checksum
      BY DEF IInv, TypeOK, Request, Steps
    <3>2. req' = [req EXCEPT ![h] = q]
      BY <1>2
    <3> HIDE DEF q
    <3> QED BY <3>1, <3>2 DEF IInv, TypeOK
  <2>4. TypeOK'
    BY <2>3 DEF ReadLast, IInv, TypeOK, table, toonExpo
  <2>5. Covered(v)'
    BY <2>2 DEF ReadLast, Covered, table
  <2>6. Attempts'
    BY <2>1, <2>2, <2>3, <2>5 DEF ReadLast, IInv, Attempts, Covered, Used, table
  <2>7. Sent'
    BY <2>3 DEF ReadLast, IInv, Sent, Used, table, toonExpo
  <2> QED
    BY <2>4, <2>6, <2>7 DEF ReadLast, IInv, RowsKnown, Used, Acceptances,
                            OneRowPerVersion, VersionsAreContiguous, table, toonExpo
<1> QED BY <1>1, <1>2 DEF ReadLast

LEMMA DeleteKeeps ==
    ASSUME IInv, NEW h \in Handlers, DeleteOldRow(h)
    PROVE  IInv'
<1> DEFINE S == RowsAt(req[h].version)
<1>1. /\ S \subseteq RowIds
      /\ \A s \in S : s \in Used /\ version[s] = req[h].version
  BY DEF IInv, RowsKnown, Used, RowsAt
<1> HIDE DEF S
<1>2. /\ req' \in [Handlers -> Request]
      /\ req'[h].op = "insert" /\ req'[h].version = req[h].version
      /\ req'[h].checksum = req[h].checksum /\ req'[h].seen = S
      /\ \A g \in Handlers \ {h} : req'[g] = req[g]
  BY <1>1 DEF DeleteOldRow, OldRows, S, IInv, TypeOK, Request, Steps
<1>3. req[h].op = "delete" /\ UNCHANGED <<content, table, inFlight, replies, toonExpo>>
  BY DEF DeleteOldRow
<1>4. TypeOK'
  BY <1>2, <1>3 DEF IInv, TypeOK, table, toonExpo
<1>5. Attempts'
  BY <1>1, <1>2, <1>3 DEF IInv, Attempts, Covered, Used, table
<1>6. Sent'
  BY <1>2, <1>3 DEF IInv, Sent, Used, table, toonExpo
<1> QED
  BY <1>3, <1>4, <1>5, <1>6 DEF IInv, RowsKnown, Used, Acceptances, OneRowPerVersion,
                                VersionsAreContiguous, table, toonExpo

\* Replacing the rows of one version by one new row of that version.
LEMMA InsertKeeps ==
    ASSUME IInv, NEW h \in Handlers, InsertRow(h)
    PROVE  IInv'
<1> DEFINE v == req[h].version
<1>1. CASE Respond(h) /\ UNCHANGED table
  BY <1>1, AnswerKeeps DEF InsertRow
<1>2. ASSUME ~UniqueViolation(v, req[h].seen), UNCHANGED <<planStatus, status>>,
             NEW r \in fresh,
             fresh' = fresh \ {r}, rows' = (rows \ req[h].seen) \cup {r},
             version' = [version EXCEPT ![r] = v],
             checksum' = [checksum EXCEPT ![r] = req[h].checksum],
             req' = [req EXCEPT ![h].op = "send", ![h].id = r, ![h].seen = {}]
      PROVE  IInv'
  <2>1. /\ req[h].checksum \in Checksums /\ v \in Versions /\ v >= 1 /\ Covered(v)
        /\ \A s \in req[h].seen : s \in Used /\ version[s] = v
    BY DEF InsertRow, IInv, Attempts, TypeOK, Request
  <2>2. r \in RowIds /\ r \notin Used
    BY <1>2 DEF Used, IInv, TypeOK
  <2>3. Used' = Used \cup {r}
    BY <1>2, <2>2 DEF Used
  <2>4. /\ version'[r] = v /\ checksum'[r] = req[h].checksum
        /\ \A s \in RowIds \ {r} : version'[s] = version[s] /\ checksum'[s] = checksum[s]
    BY <1>2, <2>2 DEF IInv, TypeOK
  <2>5. /\ req' \in [Handlers -> Request]
        /\ req'[h].op = "send" /\ req'[h].id = r
        /\ \A g \in Handlers \ {h} : req'[g] = req[g]
    <3> DEFINE q == [req[h] EXCEPT !.op = "send", !.id = r, !.seen = {}]
    <3>1. q \in Request /\ q.op = "send" /\ q.id = r
      BY <2>2 DEF IInv, TypeOK, Request, Steps
    <3>2. req' = [req EXCEPT ![h] = q]
      BY <1>2
    <3> HIDE DEF q
    <3> QED BY <3>1, <3>2 DEF IInv, TypeOK
  <2>6. UNCHANGED <<content, inFlight, replies, toonExpo>>
    BY DEF InsertRow
  <2>7. TypeOK'
    BY <1>2, <2>1, <2>2, <2>5, <2>6 DEF IInv, TypeOK, toonExpo
  <2>8. \A s \in Used : s # r /\ version'[s] = version[s] /\ checksum'[s] = checksum[s]
    BY <2>2, <2>4 DEF Used
  <2>9. \A w \in Versions : (\E s \in rows : version[s] = w) => (\E s \in rows' : version'[s] = w)
    BY <1>2, <2>1, <2>4, <2>8 DEF IInv, RowsKnown
  <2>10. \A w \in Versions : Covered(w) => Covered(w)'
    BY <2>9, MaxVersionIsNat DEF Covered, Versions
  <2>11. RowsKnown'
    BY <1>2, <2>1, <2>3, <2>4, <2>6, <2>8 DEF IInv, RowsKnown, toonExpo
  <2>12. Attempts'
    <3> SUFFICES ASSUME NEW g \in Handlers
                 PROVE  /\ req'[g].op \in {"read_last", "delete", "insert"}
                              => req'[g].checksum \in Checksums
                        /\ req'[g].op \in {"delete", "insert"}
                              => req'[g].version >= 1 /\ Covered(req[g].version)'
                        /\ req'[g].op = "insert" =>
                              \A s \in req'[g].seen : s \in Used' /\ version'[s] = req'[g].version
      BY DEF Attempts
    <3>1. CASE g = h
      BY <2>5, <3>1
    <3>2. CASE g # h
      <4>1. req'[g] = req[g] /\ req[g].version \in Versions
        BY <2>5, <3>2 DEF IInv, TypeOK, Request
      <4>2. req[g].op \in {"delete", "insert"} => Covered(req[g].version)'
        BY <2>10, <4>1 DEF IInv, Attempts, Covered
      <4> QED BY <2>3, <2>8, <4>1, <4>2 DEF IInv, Attempts
    <3> QED BY <3>1, <3>2
  <2>13. Sent'
    BY <2>3, <2>5, <2>6 DEF IInv, Sent, toonExpo
  <2>14. Acceptances'
    <3>1. status[r] = "PENDING" /\ outcome[r] = "none"
      BY <1>2 DEF IInv, RowsKnown
    <3> QED BY <1>2, <2>4, <2>6, <3>1 DEF IInv, Acceptances, PublishedLike, toonExpo
  <2>15. OneRowPerVersion'
    <3>1. \A s \in rows \ req[h].seen : version[s] # v
      BY <1>2 DEF UniqueViolation, RowsAt
    <3>2. \A s \in rows \ req[h].seen : s # r /\ version'[s] = version[s]
      BY <2>8 DEF IInv, RowsKnown
    <3> QED BY <1>2, <2>4, <3>1, <3>2 DEF IInv, OneRowPerVersion
  <2>16. VersionsAreContiguous'
    <3>1. \A s \in rows' : version'[s] \in Versions /\ Covered(version'[s])
      <4>1. \A s \in rows : version[s] \in Versions /\ Covered(version[s])
        BY DEF IInv, RowsKnown, Used, TypeOK, VersionsAreContiguous, Covered
      <4> QED BY <1>2, <2>1, <2>4, <2>8, <4>1 DEF IInv, RowsKnown
    <3> QED BY <2>9, <3>1, MaxVersionIsNat DEF VersionsAreContiguous, Covered, Versions
  <2> QED BY <2>7, <2>11, <2>12, <2>13, <2>14, <2>15, <2>16 DEF IInv
<1> QED BY <1>1, <1>2 DEF InsertRow

-----------------------------------------------------------------------------
\* Each step keeps the invariant: the messages and ToonExpo.
LEMMA SendKeeps ==
    ASSUME IInv, NEW h \in Handlers, Send(h)
    PROVE  IInv'
<1>1. /\ req' \in [Handlers -> Request]
      /\ req'[h].op = "wait" /\ req'[h].id = req[h].id
      /\ \A g \in Handlers \ {h} : req'[g] = req[g]
  BY GotoTypes DEF Send, IInv, Steps
<1>2. req[h].id \in Used
  BY DEF Send, IInv, Sent
<1>3. TypeOK'
  BY <1>1, <1>2 DEF Send, IInv, TypeOK, Used, table, toonExpo
<1>4. Attempts'
  BY <1>1 DEF Send, IInv, Attempts, Covered, Used, table
<1>5. Sent'
  BY <1>1, <1>2 DEF Send, IInv, Sent, Used, table, toonExpo
<1> QED
  BY <1>3, <1>4, <1>5 DEF Send, IInv, RowsKnown, Used, Acceptances, OneRowPerVersion,
                          VersionsAreContiguous, table, toonExpo

LEMMA ReceiveKeeps ==
    ASSUME IInv, NEW h \in Handlers, Receive(h)
    PROVE  IInv'
<1>1. /\ req' \in [Handlers -> Request]
      /\ req'[h].op = "persist" /\ req'[h].id = req[h].id
      /\ \A g \in Handlers \ {h} : req'[g] = req[g]
  BY GotoTypes DEF Receive, IInv, Steps
<1>2. req[h].id \in Used /\ outcome[req[h].id] # "none"
  BY DEF Receive, IInv, Sent
<1>3. TypeOK'
  BY <1>1 DEF Receive, IInv, TypeOK, table, toonExpo
<1>4. Attempts'
  BY <1>1 DEF Receive, IInv, Attempts, Covered, Used, table
<1>5. Sent'
  BY <1>1, <1>2 DEF Receive, IInv, Sent, Used, table, toonExpo
<1> QED
  BY <1>3, <1>4, <1>5 DEF Receive, IInv, RowsKnown, Used, Acceptances, OneRowPerVersion,
                          VersionsAreContiguous, table, toonExpo

LEMMA EnvironmentKeeps ==
    ASSUME IInv, EditMap \/ (\E r \in RowIds : LoseRequest(r)) \/ Restart
    PROVE  IInv'
<1>1. TypeOK'
  BY MaxVersionIsNat
     DEF EditMap, LoseRequest, Restart, IInv, TypeOK, Idle, Request, Steps, Versions, table,
         toonExpo
<1>2. Attempts'
  BY DEF EditMap, LoseRequest, Restart, IInv, Attempts, Covered, Used, Idle, table
<1>3. Sent'
  BY DEF EditMap, LoseRequest, Restart, IInv, Sent, Used, Idle, table, toonExpo
<1> QED
  BY <1>1, <1>2, <1>3
     DEF EditMap, LoseRequest, Restart, IInv, RowsKnown, Used, Acceptances,
         OneRowPerVersion, VersionsAreContiguous, table, toonExpo

\* ToonExpo either accepts a version above all it has accepted, or accepts nothing.
LEMMA AcceptsAbove ==
    ASSUME IInv, NEW r \in RowIds, ToonExpoReceives(r)
    PROVE  /\ version[r] \in Versions /\ checksum[r] \in Checksums
           /\ \/ /\ PublishStatus(r) = "published"
                 /\ accepted' = accepted \cup {<<version[r], checksum[r]>>}
                 /\ maxVersion' = version[r]
                 /\ \A m \in accepted : m[1] < version[r]
              \/ /\ PublishStatus(r) \in {"already_published", "rejected"}
                 /\ PublishStatus(r) = "already_published" =>
                        <<version[r], checksum[r]>> \in accepted
                 /\ UNCHANGED <<accepted, maxVersion>>
<1>1. version[r] \in Versions /\ checksum[r] \in Checksums
  BY DEF ToonExpoReceives, IInv, Sent, RowsKnown, TypeOK
<1>2. CASE PublishStatus(r) = "published"
  <2>1. ~(version[r] <= maxVersion)
    BY <1>2 DEF PublishStatus, OlderIsRejected
  <2>2. maxVersion < version[r]
    BY <1>1, <2>1, MaxVersionIsNat DEF IInv, TypeOK, Versions
  <2>3. \A m \in accepted : m[1] \in Int /\ m[1] <= maxVersion
    BY MaxVersionIsNat DEF IInv, TypeOK, Acceptances, Versions
  <2>4. \A m \in accepted : m[1] < version[r]
    BY <1>1, <2>2, <2>3, MaxVersionIsNat DEF IInv, TypeOK, Versions
  <2> QED BY <1>1, <1>2, <2>4 DEF ToonExpoReceives
<1>3. CASE PublishStatus(r) # "published"
  <2>1. /\ PublishStatus(r) \in {"already_published", "rejected"}
        /\ PublishStatus(r) = "already_published" => <<version[r], checksum[r]>> \in accepted
    BY <1>3 DEF PublishStatus
  <2> QED BY <1>1, <1>3, <2>1 DEF ToonExpoReceives
<1> QED BY <1>2, <1>3

LEMMA ToonExpoKeeps ==
    ASSUME IInv, NEW r \in RowIds, ToonExpoReceives(r)
    PROVE  IInv'
<1>1. r \in Used /\ UNCHANGED <<content, table, req>>
  BY DEF ToonExpoReceives, IInv, Sent
<1>2. /\ outcome'[r] = PublishStatus(r)
      /\ \A s \in RowIds \ {r} : outcome'[s] = outcome[s]
      /\ outcome' = [outcome EXCEPT ![r] = PublishStatus(r)]
  BY DEF ToonExpoReceives, IInv, TypeOK
<1>3. PublishStatus(r) \in Outcomes \ {"none"} /\ accepted \subseteq accepted'
  BY AcceptsAbove DEF Outcomes
<1>3a. version[r] \in Versions /\ checksum[r] \in Checksums
  BY AcceptsAbove
<1>3b. \/ /\ accepted' = accepted \cup {<<version[r], checksum[r]>>}
          /\ maxVersion' = version[r]
          /\ \A m \in accepted : m[1] < version[r]
       \/ UNCHANGED <<accepted, maxVersion>>
  BY AcceptsAbove
<1>4. inFlight' \subseteq inFlight /\ replies' \subseteq replies \cup {r}
  BY DEF ToonExpoReceives
<1>5. TypeOK'
  <2>1. accepted' \subseteq Versions \X Checksums /\ maxVersion' \in Versions
    <3>1. accepted \subseteq Versions \X Checksums /\ maxVersion \in Versions
      BY DEF IInv, TypeOK
    <3> QED BY <3>1, <1>3a, <1>3b
  <2>2. outcome' \in [RowIds -> Outcomes]
    BY <1>2, <1>3 DEF IInv, TypeOK
  <2> QED BY <1>1, <1>4, <2>1, <2>2 DEF IInv, TypeOK, table
<1>6. Attempts'
  BY <1>1 DEF IInv, Attempts, Covered, Used, table
<1>7. Sent'
  <2>1. \A s \in RowIds : outcome[s] # "none" => outcome'[s] # "none"
    BY <1>2, <1>3
  <2>2. outcome'[r] # "none" /\ r \in RowIds
    BY <1>2, <1>3
  <2> QED BY <1>1, <1>4, <2>1, <2>2 DEF IInv, Sent, Used, table
<1>8. RowsKnown'
  BY <1>1, <1>2 DEF IInv, RowsKnown, Used, TypeOK, table
<1>9. Acceptances'
  <2>1. \A m \in accepted' : m[1] <= maxVersion'
    <3>1. \A m \in accepted : m[1] \in Int /\ m[1] <= maxVersion
      BY MaxVersionIsNat DEF IInv, Acceptances, TypeOK, Versions
    <3>2. version[r] \in Int
      BY <1>3a, MaxVersionIsNat DEF Versions
    <3>3. CASE accepted' = accepted \cup {<<version[r], checksum[r]>>} /\ maxVersion' = version[r]
               /\ \A m \in accepted : m[1] < version[r]
      BY <3>1, <3>2, <3>3
    <3>4. CASE UNCHANGED <<accepted, maxVersion>>
      BY <3>1, <3>4
    <3> QED BY <1>3b, <3>3, <3>4
  <2>2. PublishStatus(r) \in {"published", "already_published"} =>
            <<version[r], checksum[r]>> \in accepted'
    BY AcceptsAbove
  <2> QED BY <1>1, <1>2, <1>3, <2>1, <2>2 DEF IInv, Acceptances, table
<1> QED
  BY <1>1, <1>5, <1>6, <1>7, <1>8, <1>9 DEF IInv, OneRowPerVersion,
     VersionsAreContiguous, table

-----------------------------------------------------------------------------
\* Each step keeps the invariant: recording the outcome.
LEMMA PersistKeeps ==
    ASSUME IInv, NEW h \in Handlers,
           PersistResult(h) \/ UpdatePlan(h) \/ PersistFailure(h)
    PROVE  IInv'
<1> DEFINE r == req[h].id
<1>1. r \in Used /\ r \in RowIds
  BY DEF PersistResult, UpdatePlan, PersistFailure, IInv, Sent, Used
<1>2. UNCHANGED <<content, fresh, rows, version, checksum, inFlight, replies, toonExpo>>
  BY DEF PersistResult, UpdatePlan, PersistFailure
<1>3. /\ req' \in [Handlers -> Request]
      /\ \A g \in Handlers \ {h} : req'[g] = req[g]
      /\ \/ req'[h].op = "idle"
         \/ req'[h].op \in {"persist_failure", "plan_update"} /\ req'[h].id = r
  BY GotoTypes, RespondTypes DEF PersistResult, UpdatePlan, PersistFailure, IInv, Steps
<1>4. \/ UNCHANGED status
      \/ status' = [status EXCEPT ![r] = "FAILED"]
      \/ status' = [status EXCEPT ![r] = FromWire[outcome[r]]] /\ outcome[r] # "none"
  BY DEF PersistResult, UpdatePlan, PersistFailure, StatusFrom, IInv, Sent
<1>5. outcome[r] \in Outcomes /\ r \notin fresh
  BY <1>1 DEF IInv, TypeOK, Used
<1>6. outcome[r] # "none" =>
        /\ FromWire[outcome[r]] \in RowStatuses
        /\ FromWire[outcome[r]] \in PublishedLike =>
              outcome[r] \in {"published", "already_published"}
  BY <1>5 DEF FromWire, Outcomes, RowStatuses, PublishedLike
<1>7. /\ status' \in [RowIds -> RowStatuses]
      /\ \A s \in fresh : status'[s] = status[s]
      /\ \A s \in RowIds : status'[s] \in PublishedLike =>
             status[s] \in PublishedLike \/ outcome[s] \in {"published", "already_published"}
  BY <1>1, <1>4, <1>5, <1>6 DEF IInv, TypeOK, RowStatuses, PublishedLike
<1>8. planStatus' \in {"UNPUBLISHED", "PUBLISHED"}
  BY DEF PersistResult, UpdatePlan, PersistFailure, IInv, TypeOK
<1>9. TypeOK'
  BY <1>2, <1>3, <1>7, <1>8 DEF IInv, TypeOK, toonExpo
<1>10. Attempts'
  BY <1>2, <1>3 DEF IInv, Attempts, Covered, Used
<1>11. Sent'
  BY <1>1, <1>2, <1>3 DEF IInv, Sent, Used, toonExpo
<1>12. RowsKnown'
  BY <1>2, <1>7 DEF IInv, RowsKnown, Used, toonExpo
<1>13. Acceptances'
  BY <1>2, <1>7 DEF IInv, Acceptances, toonExpo
<1> QED
  BY <1>2, <1>9, <1>10, <1>11, <1>12, <1>13 DEF IInv, OneRowPerVersion,
     VersionsAreContiguous

LEMMA StatementFailsKeeps ==
    ASSUME IInv, NEW h \in Handlers, StatementFails(h)
    PROVE  IInv'
<1>1. UNCHANGED <<content, table, inFlight, replies, toonExpo>>
  BY DEF StatementFails
<1>2. CASE Respond(h)
  BY <1>1, <1>2, AnswerKeeps
<1>3. CASE req[h].op \in {"send", "persist", "plan_update"} /\ Goto(h, "persist_failure")
  BY <1>1, <1>3, FailKeeps DEF IInv, Sent
<1> QED BY <1>2, <1>3 DEF StatementFails

LEMMA GiveUpKeeps ==
    ASSUME IInv, NEW h \in Handlers, GiveUp(h)
    PROVE  IInv'
BY FailKeeps DEF GiveUp, IInv, Sent

LEMMA NextIInv == IInv /\ [Next]_vars => IInv'
<1> SUFFICES ASSUME IInv, [Next]_vars
             PROVE  IInv'
  OBVIOUS
<1>1. CASE UNCHANGED vars
  BY <1>1 DEF vars, table, toonExpo, IInv, TypeOK, RowsKnown, Used, Attempts, Covered, Sent,
              Acceptances, OneRowPerVersion, VersionsAreContiguous
<1>2. ASSUME NEW h \in Handlers, Publish(h) \/ Advance(h) \/ StatementFails(h)
      PROVE  IInv'
  BY <1>2, PublishKeeps, ReadLastKeeps, DeleteKeeps, InsertKeeps, SendKeeps, ReceiveKeeps,
     GiveUpKeeps, PersistKeeps, StatementFailsKeeps
     DEF Advance
<1>3. ASSUME NEW r \in RowIds, ToonExpoReceives(r)
      PROVE  IInv'
  BY <1>3, ToonExpoKeeps
<1>4. CASE EditMap \/ (\E r \in RowIds : LoseRequest(r)) \/ Restart
  BY <1>4, EnvironmentKeeps
<1> QED BY <1>1, <1>2, <1>3, <1>4 DEF Next

THEOREM Invariance == Spec => []IInv
BY InitIInv, NextIInv, PTL DEF Spec

-----------------------------------------------------------------------------
\* Every reachable state is well typed.
THEOREM TypeCorrect == Spec => []TypeOK
BY Invariance, PTL DEF IInv

\* Concurrent attempts never leave two rows of one version.
THEOREM OneRow == Spec => []OneRowPerVersion
BY Invariance, PTL DEF IInv

\* The versions of the rows have no gaps, however attempts replace each other's rows.
THEOREM Contiguous == Spec => []VersionsAreContiguous
BY Invariance, PTL DEF IInv

\* A row that BOS shows as published stands for a map that ToonExpo has accepted.
THEOREM PublishedAccepted == Spec => []PublishedIsAccepted
<1>1. IInv => PublishedIsAccepted
  BY DEF IInv, RowsKnown, Used, Acceptances, PublishedIsAccepted
<1> QED BY <1>1, Invariance, PTL

\* ToonExpo's map only moves forward: publishing implements PublishedMap.
LEMMA StepRefines == IInv /\ [Next]_vars => [Promise!Next]_accepted
<1> SUFFICES ASSUME IInv, [Next]_vars, accepted' # accepted
             PROVE  Promise!Next
  OBVIOUS
<1>1. \E r \in RowIds : ToonExpoReceives(r)
  BY DEF Next, vars, table, toonExpo, EditMap, Publish, Advance, ReadLast, DeleteOldRow,
         InsertRow, Send, Receive, GiveUp, PersistResult, UpdatePlan, PersistFailure,
         StatementFails, LoseRequest, Restart
<1>2. PICK r \in RowIds : ToonExpoReceives(r)
  BY <1>1
<1>3. Promise!Accept(version[r], checksum[r])
  BY <1>2, AcceptsAbove DEF Promise!Accept
<1> QED BY <1>2, <1>3, AcceptsAbove DEF Promise!Next

THEOREM Implements == Spec => ImplementsPublishedMap
<1>1. Init => Promise!Init
  BY DEF Init, Promise!Init
<1> QED BY <1>1, StepRefines, Invariance, PTL
        DEF Spec, ImplementsPublishedMap, Promise!Spec

\* The rows form a history of versions, whatever fails, restarts or runs at the same time.
THEOREM History == Spec => []RowsAreAHistory
BY OneRow, Contiguous, PTL DEF RowsAreAHistory

-----------------------------------------------------------------------------
\* A publish goes forward: it has few steps to take, and takes each once.

\* How many steps a publish has left to take, at most.
StepsLeft(op) ==
    CASE op = "idle"            -> 0
      [] op = "persist_failure" -> 1
      [] op = "plan_update"     -> 2
      [] op = "persist"         -> 3
      [] op = "wait"            -> 4
      [] op = "send"            -> 5
      [] op = "insert"          -> 6
      [] op = "delete"          -> 7
      [] op = "read_last"       -> 8

\* A step brings its publish closer to the answer, and no step of another publish, of
\* ToonExpo or of the network, no failure and no restart sends it back.
GoesForward ==
    \A h \in Handlers :
        /\ Advance(h) => StepsLeft(req'[h].op) < StepsLeft(req[h].op)
        /\ req[h].op # "idle" /\ req'[h].op # req[h].op =>
               StepsLeft(req'[h].op) < StepsLeft(req[h].op)

LEMMA IdleIsLast ==
    ASSUME NEW op \in Steps, op # "idle"
    PROVE  StepsLeft("idle") < StepsLeft(op)
BY DEF Steps, StepsLeft

\* What a step of h, or a failure in it, does to h and to the other requests.
LEMMA StepGoesForward ==
    ASSUME TypeOK, NEW h \in Handlers, Advance(h) \/ StatementFails(h)
    PROVE  /\ StepsLeft(req'[h].op) < StepsLeft(req[h].op)
           /\ \A g \in Handlers \ {h} : req'[g] = req[g]
<1>1. req \in [Handlers -> Request] /\ req[h].op \in Steps /\ Idle.op = "idle"
  BY DEF TypeOK, Request, Idle
<1>2. ASSUME Respond(h), req[h].op # "idle"
      PROVE  /\ StepsLeft(req'[h].op) < StepsLeft(req[h].op)
             /\ \A g \in Handlers \ {h} : req'[g] = req[g]
  BY <1>1, <1>2, IdleIsLast DEF Respond
<1>3. ASSUME NEW op, Goto(h, op)
      PROVE  req'[h].op = op /\ \A g \in Handlers \ {h} : req'[g] = req[g]
  BY <1>1, <1>3 DEF Goto, Request
<1>4. /\ StepsLeft("delete") < StepsLeft("read_last")  /\ StepsLeft("insert") < StepsLeft("delete")
      /\ StepsLeft("send") < StepsLeft("insert")       /\ StepsLeft("wait") < StepsLeft("send")
      /\ StepsLeft("persist") < StepsLeft("wait")      /\ StepsLeft("plan_update") < StepsLeft("persist")
      /\ \A op \in {"send", "wait", "persist", "plan_update"} :
             StepsLeft("persist_failure") < StepsLeft(op)
  BY DEF StepsLeft
<1>5. CASE ReadLast(h) \/ DeleteOldRow(h)
  BY <1>1, <1>2, <1>4, <1>5 DEF ReadLast, DeleteOldRow, Request
<1>6. CASE InsertRow(h)
  BY <1>1, <1>2, <1>4, <1>6 DEF InsertRow, Request
<1>7. CASE Send(h) \/ Receive(h) \/ GiveUp(h)
  BY <1>3, <1>4, <1>7 DEF Send, Receive, GiveUp
<1>8. CASE PersistResult(h) \/ UpdatePlan(h) \/ PersistFailure(h)
  BY <1>2, <1>3, <1>4, <1>8 DEF PersistResult, UpdatePlan, PersistFailure
<1>9. CASE StatementFails(h)
  BY <1>2, <1>3, <1>4, <1>9 DEF StatementFails
<1> QED BY <1>5, <1>6, <1>7, <1>8, <1>9 DEF Advance

\* Every step of a publish brings it closer to its answer, whatever fails, is lost or is
\* late: it takes eight steps at most, one of them the wait that the client's timer ends.
THEOREM PublishesGoForward == Spec => [][GoesForward]_vars
<1>1. TypeOK /\ [Next]_vars => [GoesForward]_vars
  <2> SUFFICES ASSUME TypeOK, Next PROVE GoesForward
    OBVIOUS
  <2>1. req \in [Handlers -> Request] /\ Idle.op = "idle" /\ \A h \in Handlers : req[h].op \in Steps
    BY DEF TypeOK, Request, Idle
  <2>2. SUFFICES ASSUME NEW g \in Handlers, ~Advance(g), req[g].op # "idle", req'[g].op # req[g].op
                 PROVE  StepsLeft(req'[g].op) < StepsLeft(req[g].op)
    BY StepGoesForward DEF GoesForward
  <2>3. CASE \E h \in Handlers : Advance(h) \/ StatementFails(h)
    BY <2>2, <2>3, StepGoesForward
  <2>4. CASE \E h \in Handlers : Publish(h)
    BY <2>1, <2>2, <2>4 DEF Publish
  <2>5. CASE (\E r \in RowIds : ToonExpoReceives(r) \/ LoseRequest(r)) \/ EditMap
    BY <2>2, <2>5 DEF ToonExpoReceives, LoseRequest, EditMap
  <2>6. CASE Restart
    <3>1. req'[g].op = "idle"
      BY <2>1, <2>6 DEF Restart
    <3> QED BY <2>1, <2>2, <3>1, IdleIsLast
  <2> QED BY <2>3, <2>4, <2>5, <2>6 DEF Next
<1> QED BY <1>1, TypeCorrect, PTL DEF Spec

-----------------------------------------------------------------------------
\* Publish requests one after the other.  Messages of earlier ones may still be on their way.
OneAtATime == \A g, h \in Handlers : g = h

\* The newest version that was ever attempted is the one of a row.
NewestHasRow == \A s \in Used : \E r \in rows : version[s] <= version[r]

\* What ToonExpo has accepted was attempted.
AcceptedIsAttempted ==
    /\ \A m \in accepted : \E s \in Used : m = <<version[s], checksum[s]>>
    /\ maxVersion = 0 \/ \E m \in accepted : m[1] = maxVersion

\* Only an attempt with a later one is refused.
Outdated(r) == \E s \in Used : version[r] < version[s]
RefusedIsOutdated ==
    \A r \in Used : status[r] = "REJECTED" \/ outcome[r] = "rejected" => Outdated(r)

\* What a request that prepares its row knows, as no other one runs.
Prepared ==
    \A h \in Handlers :
        /\ req[h].op \in {"delete", "insert"} =>
               \A s \in Used : version[s] = req[h].version => checksum[s] = req[h].checksum
        /\ req[h].op = "insert" => req[h].seen = RowsAt(req[h].version)

SInv == /\ IInv /\ VersionIdentifiesContent
        /\ NewestHasRow /\ AcceptedIsAttempted /\ RefusedIsOutdated /\ Prepared

\* Steps that attempt, answer and record nothing.
LEMMA RestStays ==
    ASSUME SInv, IInv', UNCHANGED <<fresh, rows, version, checksum, toonExpo>>, Prepared',
           \A r \in Used : status'[r] = "REJECTED" =>
               status[r] = "REJECTED" \/ outcome[r] = "rejected"
    PROVE  SInv'
<1>1. VersionIdentifiesContent'
  BY DEF SInv, VersionIdentifiesContent
<1>2. NewestHasRow' /\ AcceptedIsAttempted'
  BY DEF SInv, NewestHasRow, AcceptedIsAttempted, Used, toonExpo
<1>3. RefusedIsOutdated'
  BY DEF SInv, RefusedIsOutdated, Outdated, Used, toonExpo
<1> QED BY <1>1, <1>2, <1>3 DEF SInv

LEMMA PreparedStays ==
    ASSUME SInv, UNCHANGED <<fresh, rows, version, checksum>>,
           \A h \in Handlers : req'[h].op \in {"delete", "insert"} => req'[h] = req[h]
    PROVE  Prepared'
BY DEF SInv, Prepared, Used, RowsAt

\* The one request reads the newest row: its version is new, or has this content.
LEMMA ReadLastAlone ==
    ASSUME OneAtATime, SInv, IInv', NEW h \in Handlers, ReadLast(h)
    PROVE  SInv'
<1> DEFINE c == req[h].checksum
<1>1. UNCHANGED <<content, table, toonExpo>>
  BY DEF ReadLast
<1>2. CASE Respond(h)
  <2>1. \A g \in Handlers : req'[g].op = "idle"
    BY <1>2, RespondTypes DEF OneAtATime, SInv, IInv
  <2>2. Prepared'
    BY <1>1, <2>1, PreparedStays DEF table
  <2> QED BY <1>1, <2>2, RestStays DEF table
<1>3. ASSUME NEW v \in Versions, AttemptVersion(c, v),
             req' = [req EXCEPT ![h].op = "delete", ![h].version = v]
      PROVE  SInv'
  <2>1. \A s \in Used : version[s] = v => checksum[s] = c
    <3>1. CASE rows = {}
      BY <3>1 DEF SInv, NewestHasRow
    <3>2. CASE rows # {}
      <4>1. PICK r \in rows : /\ IsNewest(r)
                              /\ v = IF checksum[r] = c THEN version[r] ELSE version[r] + 1
        BY <1>3, <3>2 DEF AttemptVersion
      <4>2. r \in Used /\ \A s \in Used : version[s] \in Int
        BY <4>1, MaxVersionIsNat DEF SInv, IInv, RowsKnown, TypeOK, Used, Versions
      <4>3. \A s \in Used : version[s] <= version[r]
        <5> SUFFICES ASSUME NEW s \in Used PROVE version[s] <= version[r]
          OBVIOUS
        <5>1. PICK t \in rows : version[s] <= version[t]
          BY DEF SInv, NewestHasRow
        <5>2. version[t] <= version[r] /\ t \in Used
          BY <4>1 DEF IsNewest, SInv, IInv, RowsKnown
        <5> QED BY <4>2, <5>1, <5>2
      <4>4. \A s \in Used : version[s] = version[r] => checksum[s] = checksum[r]
        BY <4>2 DEF SInv, VersionIdentifiesContent, Used
      <4>5. CASE checksum[r] = c
        BY <4>1, <4>4, <4>5
      <4>6. CASE checksum[r] # c
        BY <4>1, <4>2, <4>3, <4>6
      <4> QED BY <4>5, <4>6
    <3> QED BY <3>1, <3>2
  <2>2. \A g \in Handlers : /\ req'[g].op = "delete" /\ req'[g].version = v
                            /\ req'[g].checksum = c
    BY <1>3 DEF OneAtATime, SInv, IInv, TypeOK, Request, Steps
  <2>3. Prepared'
    BY <1>1, <2>1, <2>2 DEF Prepared, Used, table
  <2> QED BY <1>1, <2>3, RestStays DEF table
<1> QED BY <1>2, <1>3 DEF ReadLast

LEMMA DeleteAlone ==
    ASSUME OneAtATime, SInv, IInv', NEW h \in Handlers, DeleteOldRow(h)
    PROVE  SInv'
<1> DEFINE v == req[h].version
           S == RowsAt(v)
<1>1. UNCHANGED <<content, table, toonExpo>> /\ req[h].op = "delete"
  BY DEF DeleteOldRow
<1>2. S \subseteq RowIds
  BY DEF SInv, IInv, TypeOK, RowsAt
<1>3. S = {r \in rows' : version'[r] = v}
  BY <1>1 DEF RowsAt, table
<1>4. req' = [req EXCEPT ![h].op = "insert", ![h].seen = S]
  BY DEF DeleteOldRow, OldRows
<1> HIDE DEF S
<1>5. /\ req'[h].op = "insert" /\ req'[h].version = v /\ req'[h].seen = S
      /\ req'[h].checksum = req[h].checksum
  BY <1>2, <1>4 DEF SInv, IInv, TypeOK, Request, Steps
<1>6. \A s \in Used : version[s] = v => checksum[s] = req[h].checksum
  BY <1>1 DEF SInv, Prepared
<1>7. Prepared'
  BY <1>1, <1>3, <1>5, <1>6 DEF Prepared, OneAtATime, Used, RowsAt, table
<1> QED BY <1>1, <1>7, RestStays DEF table

\* The new row has the content of the earlier attempts at its version, and no other row
\* of that version is left.
LEMMA InsertAlone ==
    ASSUME OneAtATime, SInv, IInv', NEW h \in Handlers, InsertRow(h)
    PROVE  SInv'
<1> DEFINE v == req[h].version
           c == req[h].checksum
<1>1. CASE Respond(h) /\ UNCHANGED table
  <2>1. UNCHANGED toonExpo
    BY DEF InsertRow
  <2>2. \A g \in Handlers : req'[g].op = "idle"
    BY <1>1, RespondTypes DEF OneAtATime, SInv, IInv
  <2>3. Prepared'
    BY <1>1, <2>2, PreparedStays DEF table
  <2> QED BY <1>1, <2>1, <2>3, RestStays DEF table
<1>2. ASSUME UNCHANGED <<planStatus, status>>, NEW r \in fresh,
             fresh' = fresh \ {r}, rows' = (rows \ req[h].seen) \cup {r},
             version' = [version EXCEPT ![r] = v],
             checksum' = [checksum EXCEPT ![r] = c],
             req' = [req EXCEPT ![h].op = "send", ![h].id = r, ![h].seen = {}]
      PROVE  SInv'
  <2>1. /\ r \in RowIds /\ r \notin Used /\ Used' = Used \cup {r} /\ r \in rows'
        /\ \A s \in Used : s # r /\ s \in RowIds
    BY <1>2 DEF Used, SInv, IInv, TypeOK
  <2>2. /\ version'[r] = v /\ checksum'[r] = c
        /\ \A s \in Used : version'[s] = version[s] /\ checksum'[s] = checksum[s]
    BY <1>2, <2>1 DEF SInv, IInv, TypeOK
  <2>3. /\ v \in Int /\ \A s \in Used : version[s] \in Int
        /\ rows \subseteq Used
    BY MaxVersionIsNat DEF SInv, IInv, TypeOK, Request, Versions, Used, RowsKnown
  <2>4. /\ \A s \in Used : version[s] = v => checksum[s] = c
        /\ \A s \in req[h].seen : s \in Used /\ version[s] = v
        /\ UNCHANGED toonExpo
    BY DEF InsertRow, SInv, Prepared, IInv, Attempts
  <2>5. VersionIdentifiesContent'
    <3>1. \A s \in Used : version'[s] = v => checksum'[s] = c
      BY <2>2, <2>4
    <3>2. \A s, t \in Used : version'[s] = version'[t] => checksum'[s] = checksum'[t]
      BY <2>2 DEF SInv, VersionIdentifiesContent, Used
    <3>3. \A s, t \in Used \cup {r} : version'[s] = version'[t] => checksum'[s] = checksum'[t]
      BY <2>2, <3>1, <3>2
    <3> QED BY <2>1, <3>3 DEF VersionIdentifiesContent, Used
  <2>6. NewestHasRow'
    <3>1. \A s \in Used : \E t \in rows' : version'[s] <= version'[t]
      <4> SUFFICES ASSUME NEW s \in Used PROVE \E t \in rows' : version'[s] <= version'[t]
        OBVIOUS
      <4>1. PICK t \in rows : version[s] <= version[t]
        BY DEF SInv, NewestHasRow
      <4>2. CASE t \in req[h].seen
        BY <2>1, <2>2, <2>4, <4>1, <4>2
      <4>3. CASE t \notin req[h].seen
        BY <1>2, <2>2, <2>3, <4>1, <4>3
      <4> QED BY <4>2, <4>3
    <3>2. version'[r] <= version'[r]
      BY <2>2, <2>3
    <3> QED BY <2>1, <3>1, <3>2 DEF NewestHasRow
  <2>7. AcceptedIsAttempted'
    <3>1. \A m \in accepted : \E s \in Used : m = <<version'[s], checksum'[s]>>
      BY <2>2 DEF SInv, AcceptedIsAttempted
    <3>2. accepted' = accepted /\ maxVersion' = maxVersion
      BY <2>4 DEF toonExpo
    <3> QED BY <2>1, <3>1, <3>2 DEF SInv, AcceptedIsAttempted
  <2>8. RefusedIsOutdated'
    <3>1. status[r] = "PENDING" /\ outcome[r] = "none"
      BY DEF SInv, IInv, RowsKnown
    <3>2. \A s \in Used : Outdated(s) => \E t \in Used : version'[s] < version'[t]
      BY <2>2 DEF Outdated
    <3>3. status' = status /\ outcome' = outcome
      BY <1>2, <2>4 DEF toonExpo
    <3> QED BY <2>1, <3>1, <3>2, <3>3 DEF SInv, RefusedIsOutdated, Outdated
  <2>9. req'[h].op = "send"
    BY <1>2 DEF SInv, IInv, TypeOK, Request
  <2>10. Prepared'
    BY <2>9 DEF Prepared, OneAtATime
  <2> QED BY <2>5, <2>6, <2>7, <2>8, <2>10 DEF SInv
<1> QED BY <1>1, <1>2 DEF InsertRow

\* ToonExpo refuses a late request only if a later version has overtaken it.
LEMMA ToonExpoAlone ==
    ASSUME OneAtATime, SInv, IInv', NEW r \in RowIds, ToonExpoReceives(r)
    PROVE  SInv'
<1>1. /\ r \in Used /\ UNCHANGED <<content, table, req>>
      /\ outcome' = [outcome EXCEPT ![r] = PublishStatus(r)]
  BY DEF ToonExpoReceives, SInv, IInv, Sent
<1>2. /\ outcome'[r] = PublishStatus(r)
      /\ \A s \in Used \ {r} : outcome'[s] = outcome[s]
  BY <1>1 DEF SInv, IInv, TypeOK, Used
<1>3. PublishStatus(r) = "rejected" => Outdated(r)
  <2> SUFFICES ASSUME PublishStatus(r) = "rejected" PROVE Outdated(r)
    OBVIOUS
  <2>1. \A s \in Used : version[s] \in Int /\ version[s] >= 1
    BY MaxVersionIsNat DEF SInv, IInv, RowsKnown, TypeOK, Used, Versions
  <2>2. ~(\E m \in accepted : m[1] = version[r])
    <3> SUFFICES ASSUME NEW m \in accepted, m[1] = version[r] PROVE FALSE
      OBVIOUS
    <3>1. PICK s \in Used : m = <<version[s], checksum[s]>>
      BY DEF SInv, AcceptedIsAttempted
    <3>2. checksum[s] = checksum[r] /\ version[s] = version[r]
      BY <1>1, <3>1 DEF SInv, VersionIdentifiesContent, Used
    <3> QED BY <3>1, <3>2 DEF PublishStatus
  <2>3. version[r] <= maxVersion /\ maxVersion \in Int
    BY <2>2, MaxVersionIsNat DEF PublishStatus, OlderIsRejected, SInv, IInv, TypeOK, Versions
  <2>4. PICK m \in accepted : m[1] = maxVersion
    BY <1>1, <2>1, <2>3 DEF SInv, AcceptedIsAttempted
  <2>5. PICK s \in Used : m = <<version[s], checksum[s]>>
    BY DEF SInv, AcceptedIsAttempted
  <2>6. version[r] < version[s]
    BY <1>1, <2>1, <2>2, <2>3, <2>4, <2>5
  <2> QED BY <2>6 DEF Outdated
<1>4. RefusedIsOutdated'
  BY <1>1, <1>2, <1>3 DEF SInv, RefusedIsOutdated, Outdated, Used, table
<1>5. AcceptedIsAttempted'
  <2>1. \/ /\ accepted' = accepted \cup {<<version[r], checksum[r]>>}
           /\ maxVersion' = version[r]
        \/ UNCHANGED <<accepted, maxVersion>>
    BY AcceptsAbove DEF SInv
  <2>2. Used' = Used /\ version' = version /\ checksum' = checksum
    BY <1>1 DEF Used, table
  <2>3. CASE UNCHANGED <<accepted, maxVersion>>
    BY <2>2, <2>3 DEF SInv, AcceptedIsAttempted
  <2>4. CASE /\ accepted' = accepted \cup {<<version[r], checksum[r]>>}
             /\ maxVersion' = version[r]
    <3>1. \A m \in accepted' : \E s \in Used : m = <<version[s], checksum[s]>>
      BY <1>1, <2>4 DEF SInv, AcceptedIsAttempted
    <3>2. \E m \in accepted' : m[1] = maxVersion'
      <4>1. <<version[r], checksum[r]>> \in accepted' /\ <<version[r], checksum[r]>>[1] = maxVersion'
        BY <2>4
      <4> QED BY <4>1
    <3> QED BY <2>2, <3>1, <3>2 DEF AcceptedIsAttempted
  <2> QED BY <2>1, <2>3, <2>4
<1>6. Prepared'
  BY <1>1, PreparedStays DEF table
<1>7. VersionIdentifiesContent' /\ NewestHasRow'
  BY <1>1 DEF SInv, VersionIdentifiesContent, NewestHasRow, Used, table
<1> QED BY <1>4, <1>5, <1>6, <1>7 DEF SInv

LEMMA PersistAlone ==
    ASSUME OneAtATime, SInv, IInv', NEW h \in Handlers,
           PersistResult(h) \/ UpdatePlan(h) \/ PersistFailure(h)
    PROVE  SInv'
<1> DEFINE r == req[h].id
<1>1. /\ UNCHANGED <<fresh, rows, version, checksum, toonExpo>>
      /\ r \in Used
  BY DEF PersistResult, UpdatePlan, PersistFailure, SInv, IInv, Sent
<1>2. \A g \in Handlers : req'[g].op \notin {"delete", "insert"}
  BY GotoTypes, RespondTypes
     DEF PersistResult, UpdatePlan, PersistFailure, OneAtATime, SInv, IInv, Steps
<1>3. Prepared'
  BY <1>1, <1>2, PreparedStays
<1>4. \/ UNCHANGED status
      \/ status' = [status EXCEPT ![r] = "FAILED"]
      \/ status' = [status EXCEPT ![r] = FromWire[outcome[r]]] /\ outcome[r] # "none"
  BY DEF PersistResult, UpdatePlan, PersistFailure, StatusFrom, SInv, IInv, Sent
<1>5. outcome[r] # "none" /\ FromWire[outcome[r]] = "REJECTED" => outcome[r] = "rejected"
  BY <1>1 DEF FromWire, SInv, IInv, TypeOK, Outcomes, Used
<1>6. \A s \in Used : status'[s] = "REJECTED" => status[s] = "REJECTED" \/ outcome[s] = "rejected"
  BY <1>1, <1>4, <1>5 DEF SInv, IInv, TypeOK, Used
<1> QED BY <1>1, <1>3, <1>6, RestStays

LEMMA NextSInv == ASSUME OneAtATime PROVE SInv /\ [Next]_vars => SInv'
<1> SUFFICES ASSUME SInv, [Next]_vars PROVE SInv'
  OBVIOUS
<1>1. IInv'
  BY NextIInv DEF SInv
<1>2. ASSUME UNCHANGED <<table, toonExpo>>,
             \A h \in Handlers : req'[h].op \in {"delete", "insert"} => req'[h] = req[h]
      PROVE  SInv'
  <2>1. Prepared'
    BY <1>2, PreparedStays DEF table
  <2> QED BY <1>1, <1>2, <2>1, RestStays DEF table
<1>3. CASE UNCHANGED vars \/ EditMap \/ (\E r \in RowIds : LoseRequest(r)) \/ Restart
  <2>1. UNCHANGED <<table, toonExpo>>
    BY <1>3 DEF vars, EditMap, LoseRequest, Restart
  <2>2. \A h \in Handlers : req'[h] = req[h] \/ req'[h].op = "idle"
    BY <1>3 DEF vars, EditMap, LoseRequest, Restart, Idle
  <2> QED BY <1>2, <2>1, <2>2
<1>4. ASSUME NEW h \in Handlers,
             Publish(h) \/ Send(h) \/ Receive(h) \/ GiveUp(h) \/ StatementFails(h)
      PROVE  SInv'
  <2>1. UNCHANGED <<table, toonExpo>>
    BY <1>4 DEF Publish, Send, Receive, GiveUp, StatementFails
  <2>2. req'[h].op \notin {"delete", "insert"}
    <3>1. CASE Publish(h)
      <4> DEFINE q == [Idle EXCEPT !.op = "read_last", !.checksum = content]
      <4>1. q.op = "read_last" /\ req' = [req EXCEPT ![h] = q]
        BY <3>1 DEF Publish, Idle
      <4> HIDE DEF q
      <4> QED BY <4>1 DEF SInv, IInv, TypeOK
    <3>2. CASE \E step \in Steps \ {"delete", "insert"} : Goto(h, step)
      BY <3>2, GotoTypes DEF SInv, IInv
    <3>3. CASE Respond(h)
      BY <3>3, RespondTypes DEF SInv, IInv
    <3> QED BY <1>4, <3>1, <3>2, <3>3 DEF Send, Receive, GiveUp, StatementFails, Steps
  <2>3. \A g \in Handlers : req'[g].op \notin {"delete", "insert"}
    BY <2>2 DEF OneAtATime
  <2> QED BY <1>2, <2>1, <2>3
<1>5. ASSUME NEW h \in Handlers, Advance(h) PROVE SInv'
  BY <1>1, <1>4, <1>5, ReadLastAlone, DeleteAlone, InsertAlone, PersistAlone DEF Advance
<1>6. ASSUME NEW r \in RowIds, ToonExpoReceives(r) PROVE SInv'
  BY <1>1, <1>6, ToonExpoAlone
<1> QED BY <1>3, <1>4, <1>5, <1>6 DEF Next

LEMMA InitSInv == Init => SInv
<1> SUFFICES ASSUME Init PROVE SInv
  OBVIOUS
<1>1. IInv /\ Used = {} /\ accepted = {} /\ maxVersion = 0
  BY InitIInv DEF Init, Used
<1>2. \A h \in Handlers : req[h].op = "idle"
  BY DEF Init, Idle
<1>3. Prepared
  BY <1>2 DEF Prepared
<1> QED BY <1>1, <1>3 DEF SInv, VersionIdentifiesContent, Used, NewestHasRow,
                          AcceptedIsAttempted, RefusedIsOutdated

\* If the publish requests of a plan do not overlap, a version keeps its content, the newest
\* attempt is never refused and the unique key never fails, whatever ToonExpo receives late.
THEOREM DoNotCollide == ASSUME OneAtATime PROVE Spec => []AttemptsDoNotCollide
<1>1. SInv => AttemptsDoNotCollide
  <2> SUFFICES ASSUME SInv PROVE NewestIsNotRejected /\ UniqueIsNeverViolated
    BY DEF SInv, AttemptsDoNotCollide
  <2>1. ASSUME NEW r \in rows, IsNewest(r), status[r] = "REJECTED" PROVE FALSE
    <3>1. r \in Used /\ \A s \in Used : version[s] \in Int
      BY MaxVersionIsNat DEF SInv, IInv, RowsKnown, TypeOK, Used, Versions
    <3>2. PICK s \in Used : version[r] < version[s]
      BY <2>1, <3>1 DEF SInv, RefusedIsOutdated, Outdated
    <3>3. PICK t \in rows : version[s] <= version[t]
      BY DEF SInv, NewestHasRow
    <3>4. version[t] <= version[r] /\ t \in Used
      BY <2>1 DEF IsNewest, SInv, IInv, RowsKnown
    <3> QED BY <3>1, <3>2, <3>3, <3>4
  <2>2. UniqueIsNeverViolated
    BY DEF SInv, Prepared, UniqueIsNeverViolated, UniqueViolation
  <2> QED BY <2>1, <2>2 DEF NewestIsNotRejected
<1> QED BY <1>1, InitSInv, NextSInv, PTL DEF Spec
=============================================================================
