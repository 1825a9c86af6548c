----------------------------- MODULE MapPublication -----------------------------
(* Publishing the map of one venue plan to ToonExpo:                              *)
(* VenueMapPublicationsService.publish, the client that posts the snapshot, and   *)
(* ToonExpo's side of the contract as scripts/toonexpo-stub.mjs implements it.    *)
(*                                                                                *)
(* A publication request first reads the plan, then the newest publication row,   *)
(* then replaces the row of its version in a transaction, posts the snapshot and  *)
(* records the outcome.  Administrators edit the map meanwhile, requests of other *)
(* administrators run in between, the network loses or delays messages, the       *)
(* client gives up after ten seconds, statements fail and the API restarts.       *)
(*                                                                                *)
(* The plan has an image and a calibration: without them publish answers before   *)
(* it changes anything.  Plans share no row, so one plan is enough.               *)
(*                                                                                *)
(* An operator Op_Fault is Op with a plausible fault, used by no specification.   *)
EXTENDS Integers, FiniteSets

CONSTANTS
    Checksums,    \* contents of the map, told apart by their checksum
    RowIds,       \* VenueMapPublication ids; an id is used once
    Handlers,     \* publish requests that may be in flight together
    MaxVersion,   \* bound: highest snapshot version
    None          \* no checksum, no row

ASSUME MaxVersionIsNat == MaxVersion \in Nat
ASSUME NoneIsNothing == None \notin Checksums \cup RowIds
ASSUME SomeChecksum == Checksums # {}
ASSUME RowIdsFinite == IsFiniteSet(RowIds)

VARIABLES
    content,      \* checksum of the map as the plan describes it now
    planStatus,   \* VenuePlan.publishStatus
    fresh,        \* row ids not used yet
    rows,         \* the VenueMapPublication rows that exist
    version,      \* row id -> snapshotVersion, which is also sent
    checksum,     \* row id -> checksum, which is also sent
    status,       \* row id -> status
    req,          \* handler -> the request it is running
    inFlight,     \* ids of the requests on their way to ToonExpo
    replies,      \* ids of the requests whose response is on its way back
    outcome,      \* row id -> what ToonExpo answered (byRequestId)
    accepted,     \* ToonExpo: accepted pairs of version and checksum (byVersion)
    maxVersion    \* ToonExpo: highest accepted version

table == <<planStatus, fresh, rows, version, checksum, status>>
toonExpo == <<outcome, accepted, maxVersion>>
vars == <<content, table, req, inFlight, replies, toonExpo>>

RowStatuses == {"PENDING", "PUBLISHED", "ALREADY_PUBLISHED", "REJECTED", "FAILED"}
PublishedLike == {"PUBLISHED", "ALREADY_PUBLISHED"}
Outcomes == {"none", "published", "already_published", "rejected"}

\* mapPublishStatusFromWire
FromWire == [published |-> "PUBLISHED", already_published |-> "ALREADY_PUBLISHED",
             rejected |-> "REJECTED"]

Steps == {"idle", "read_last", "delete", "insert", "send", "wait", "persist",
          "plan_update", "persist_failure"}
Versions == 0..MaxVersion

\* "seen" holds the rows that the deleteMany of an open transaction has deleted.
Request == [op : Steps, checksum : Checksums \cup {None}, version : Versions,
            id : RowIds \cup {None}, seen : SUBSET RowIds]

Idle == [op |-> "idle", checksum |-> None, version |-> 0, id |-> None, seen |-> {}]

TypeOK ==
    /\ content \in Checksums
    /\ planStatus \in {"UNPUBLISHED", "PUBLISHED"}
    /\ fresh \subseteq RowIds /\ rows \subseteq RowIds
    /\ version \in [RowIds -> Versions]
    /\ checksum \in [RowIds -> Checksums \cup {None}]
    /\ status \in [RowIds -> RowStatuses]
    /\ req \in [Handlers -> Request]
    /\ inFlight \subseteq RowIds /\ replies \subseteq RowIds
    /\ outcome \in [RowIds -> Outcomes]
    /\ accepted \subseteq Versions \X Checksums
    /\ maxVersion \in Versions

Init ==
    /\ content \in Checksums
    /\ planStatus = "UNPUBLISHED"
    /\ fresh = RowIds /\ rows = {}
    /\ version = [r \in RowIds |-> 0]
    /\ checksum = [r \in RowIds |-> None]
    /\ status = [r \in RowIds |-> "PENDING"]
    /\ req = [h \in Handlers |-> Idle]
    /\ inFlight = {} /\ replies = {}
    /\ outcome = [r \in RowIds |-> "none"]
    /\ accepted = {} /\ maxVersion = 0

Respond(h) == req' = [req EXCEPT ![h] = Idle]
Goto(h, step) == req' = [req EXCEPT ![h].op = step]

-----------------------------------------------------------------------------
\* The map is edited: any of its areas, cells, labels, allocations or images.
EditMap ==
    /\ \E c \in Checksums \ {content} : content' = c
    /\ UNCHANGED <<table, req, inFlight, replies, toonExpo>>

\* getCalibratedPlanOrThrow, buildSnapshotContent, computeContentChecksum.
Publish(h) ==
    /\ req[h].op = "idle"
    /\ req' = [req EXCEPT ![h] = [Idle EXCEPT !.op = "read_last", !.checksum = content]]
    /\ UNCHANGED <<content, table, inFlight, replies, toonExpo>>

-----------------------------------------------------------------------------
\* prepareAttemptRow: the newest row decides the version, then a transaction
\* replaces the row of that version.

IsNewest(r) == r \in rows /\ \A s \in rows : version[s] <= version[r]

\* Unchanged content keeps the version of the newest row, any other gets the next.
AttemptVersion_NeverBumped(c, v) ==
    IF rows = {} THEN v = 1 ELSE \E r \in rows : IsNewest(r) /\ v = version[r]
AttemptVersion(c, v) ==
    IF rows = {} THEN v = 1
    ELSE \E r \in rows : /\ IsNewest(r)
                         /\ v = IF checksum[r] = c THEN version[r] ELSE version[r] + 1

ReadLast(h) ==
    /\ req[h].op = "read_last"
    /\ \/ \E v \in Versions :
             /\ AttemptVersion(req[h].checksum, v)
             /\ req' = [req EXCEPT ![h].op = "delete", ![h].version = v]
       \/ /\ \A v \in Versions : ~AttemptVersion(req[h].checksum, v)   \* bound: MaxVersion
          /\ Respond(h)
    /\ UNCHANGED <<content, table, inFlight, replies, toonExpo>>

RowsAt(v) == {r \in rows : version[r] = v}

\* deleteMany({ venuePlanId, snapshotVersion })
OldRows(v) == RowsAt(v)

DeleteOldRow(h) ==
    /\ req[h].op = "delete"
    /\ req' = [req EXCEPT ![h].op = "insert", ![h].seen = OldRows(req[h].version)]
    /\ UNCHANGED <<content, table, inFlight, replies, toonExpo>>

\* @@unique([venuePlanId, snapshotVersion]), apart from the rows just deleted.
UniqueViolation_NoIndex(v, mine) == FALSE
UniqueViolation(v, mine) == RowsAt(v) \ mine # {}

\* The insert and the commit, or the failure of the whole transaction.  Of two open
\* transactions for one version the second waits for the first and then fails.
InsertRow(h) ==
    LET v == req[h].version
    IN  /\ req[h].op = "insert"
        /\ \/ /\ UniqueViolation(v, req[h].seen) \/ fresh = {}    \* bound: ids used up
              /\ Respond(h)
              /\ UNCHANGED table
           \/ /\ ~UniqueViolation(v, req[h].seen)
              /\ \E r \in fresh :
                    /\ fresh' = fresh \ {r}
                    /\ rows' = (rows \ req[h].seen) \cup {r}
                    /\ version' = [version EXCEPT ![r] = v]
                    /\ checksum' = [checksum EXCEPT ![r] = req[h].checksum]
                    /\ req' = [req EXCEPT ![h].op = "send", ![h].id = r, ![h].seen = {}]
              /\ UNCHANGED <<planStatus, status>>
    /\ UNCHANGED <<content, inFlight, replies, toonExpo>>

-----------------------------------------------------------------------------
\* sendPublishRequest and ToonExpoClientService.post.

Send(h) ==
    /\ req[h].op = "send"
    /\ Goto(h, "wait")
    /\ inFlight' = inFlight \cup {req[h].id}
    /\ UNCHANGED <<content, table, replies, toonExpo>>

\* resolvePublishStatus
OlderIsRejected_NotChecked(v) == FALSE
OlderIsRejected(v) == v <= maxVersion

PublishStatus(r) ==
    IF \E m \in accepted : m[1] = version[r]
    THEN IF <<version[r], checksum[r]>> \in accepted THEN "already_published" ELSE "rejected"
    ELSE IF OlderIsRejected(version[r]) THEN "rejected" ELSE "published"

\* handleVenueMapPublish; no id is posted twice, so the cached response of a
\* repeated request_id is never used.
ToonExpoReceives(r) ==
    /\ r \in inFlight
    /\ inFlight' = inFlight \ {r}
    /\ outcome' = [outcome EXCEPT ![r] = PublishStatus(r)]
    /\ IF PublishStatus(r) = "published"
       THEN /\ accepted' = accepted \cup {<<version[r], checksum[r]>>}
            /\ maxVersion' = version[r]
       ELSE UNCHANGED <<accepted, maxVersion>>
    /\ replies' = IF \E h \in Handlers : req[h].op = "wait" /\ req[h].id = r
                  THEN replies \cup {r} ELSE replies
    /\ UNCHANGED <<content, table, req>>

LoseRequest(r) ==
    /\ r \in inFlight
    /\ inFlight' = inFlight \ {r}
    /\ UNCHANGED <<content, table, req, replies, toonExpo>>

Receive(h) ==
    /\ req[h].op = "wait" /\ req[h].id \in replies
    /\ Goto(h, "persist")
    /\ replies' = replies \ {req[h].id}
    /\ UNCHANGED <<content, table, inFlight, toonExpo>>

\* The abort after ten seconds, a connection that breaks, or a response that is
\* not 2xx JSON: the response, if there is one, is not read.  A request that is
\* still on its way may arrive later.
GiveUp_NeverAborts(h) == FALSE
GiveUp(h) ==
    /\ req[h].op = "wait"
    /\ Goto(h, "persist_failure")
    /\ replies' = replies \ {req[h].id}
    /\ UNCHANGED <<content, table, inFlight, toonExpo>>

-----------------------------------------------------------------------------
\* persistResult: the row, then the plan.  Another request may have replaced the
\* row; the update then fails and publish goes on with persistFailure.

StatusFrom_Optimistic(r) == "PUBLISHED"
StatusFrom(r) == FromWire[outcome[r]]

PersistResult(h) ==
    LET r == req[h].id
    IN  /\ req[h].op = "persist"
        /\ IF r \notin rows
           THEN Goto(h, "persist_failure") /\ UNCHANGED status
           ELSE /\ status' = [status EXCEPT ![r] = StatusFrom(r)]
                /\ IF StatusFrom(r) \in PublishedLike THEN Goto(h, "plan_update")
                                                      ELSE Respond(h)
        /\ UNCHANGED <<content, planStatus, fresh, rows, version, checksum, inFlight,
                       replies, toonExpo>>

UpdatePlan(h) ==
    /\ req[h].op = "plan_update"
    /\ planStatus' = "PUBLISHED"
    /\ Respond(h)
    /\ UNCHANGED <<content, fresh, rows, version, checksum, status, inFlight, replies,
                   toonExpo>>

PersistFailure(h) ==
    LET r == req[h].id
    IN  /\ req[h].op = "persist_failure"
        /\ status' = IF r \in rows THEN [status EXCEPT ![r] = "FAILED"] ELSE status
        /\ Respond(h)
        /\ UNCHANGED <<content, planStatus, fresh, rows, version, checksum, inFlight,
                       replies, toonExpo>>

-----------------------------------------------------------------------------
\* A statement, or signing the image url, fails.  Within the try block publish goes
\* on with persistFailure, elsewhere the request ends with an error.
StatementFails(h) ==
    /\ \/ req[h].op \in {"read_last", "delete", "insert", "persist_failure"} /\ Respond(h)
       \/ req[h].op \in {"send", "persist", "plan_update"} /\ Goto(h, "persist_failure")
    /\ UNCHANGED <<content, table, inFlight, replies, toonExpo>>

\* The API process stops: its requests are gone, those at ToonExpo are not.
Restart ==
    /\ req' = [h \in Handlers |-> Idle]
    /\ replies' = {}
    /\ UNCHANGED <<content, table, inFlight, toonExpo>>

Advance(h) == \/ ReadLast(h) \/ DeleteOldRow(h) \/ InsertRow(h) \/ Send(h)
              \/ Receive(h) \/ GiveUp(h)
              \/ PersistResult(h) \/ UpdatePlan(h) \/ PersistFailure(h)

Next == \/ \E h \in Handlers : Publish(h) \/ Advance(h) \/ StatementFails(h)
        \/ \E r \in RowIds : ToonExpoReceives(r) \/ LoseRequest(r)
        \/ EditMap
        \/ Restart

Spec == Init /\ [][Next]_vars

\* Node.js runs every handler on, and the abort of the client is a timer.  Nothing is
\* assumed of the network, of ToonExpo or of the administrators.
Fairness == \A h \in Handlers : WF_vars(Advance(h))

LiveSpec == Spec /\ Fairness

-----------------------------------------------------------------------------
\* @@unique([venuePlanId, snapshotVersion]): concurrent attempts for one version do
\* not leave two rows.
OneRowPerVersion == \A r, s \in rows : version[r] = version[s] => r = s

\* A row that BOS shows as published has a snapshot that ToonExpo accepted, with this
\* version and this content, whatever was lost, late or concurrent.
PublishedIsAccepted ==
    \A r \in rows : status[r] \in PublishedLike => <<version[r], checksum[r]>> \in accepted

\* The versions of the rows have no gaps: no attempt skips a version or starts again.
VersionsAreContiguous ==
    \A r \in rows, v \in 1..MaxVersion :
        v < version[r] => \E s \in rows : version[s] = v

\* The rows are a history of versions: one row for each, from the first to the newest.
RowsAreAHistory == OneRowPerVersion /\ VersionsAreContiguous

\* ToonExpo never accepts a version that is not higher than all it has accepted, and
\* an accepted version keeps its content: "map version cannot move backwards".
Promise == INSTANCE PublishedMap
ImplementsPublishedMap == Promise!Spec

\* "any content change bumps to the next version": a version that was attempted with
\* one content is not attempted with another.
VersionIdentifiesContent ==
    \A r, s \in RowIds \ fresh : version[r] = version[s] => checksum[r] = checksum[s]

\* Publishing the newest attempt again is never refused by ToonExpo, after any lost
\* or late message: an administrator alone can always bring ToonExpo up to date.
NewestIsNotRejected == \A r \in rows : IsNewest(r) => status[r] # "REJECTED"

\* The deletion of the old row at the target version leaves nothing to conflict with:
\* "the @@unique constraint on (venuePlanId, snapshotVersion) is never violated".
UniqueIsNeverViolated ==
    \A h \in Handlers : req[h].op = "insert" => ~UniqueViolation(req[h].version, req[h].seen)

\* One administrator after the other: an attempt meets neither another content under its
\* version, nor a refusal, nor the unique key.
AttemptsDoNotCollide == VersionIdentifiesContent /\ NewestIsNotRejected /\ UniqueIsNeverViolated

\* Every publish request is answered, ToonExpo or not.
EveryPublishIsAnswered ==
    \A h \in Handlers : req[h].op # "idle" ~> req[h].op = "idle"
=============================================================================
