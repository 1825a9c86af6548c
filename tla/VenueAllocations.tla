---------------------------- MODULE VenueAllocations ----------------------------
(* Space allocations of the venue map, and the deal, partner and area services    *)
(* that read and write them.                                                      *)
(*                                                                                *)
(* Every API request is an async handler.  A handler runs as one action per       *)
(* database statement: between two awaits any other handler may run.  A statement *)
(* outside $transaction commits by itself.  The statements of a $transaction run  *)
(* at READ COMMITTED: each sees what is committed when it runs, its own writes    *)
(* stay invisible until commit, and the rows it wrote stay locked until then.     *)
(* The constraints of the schema (foreign keys with ON DELETE RESTRICT, the       *)
(* partial unique index on active allocations) are enforced by the statement      *)
(* that would break them.                                                         *)
(*                                                                                *)
(* An operator Op_Fault is Op with a plausible fault.  No specification uses it;  *)
(* it is there to show that a property notices the fault.                         *)
EXTENDS FiniteSets, Naturals

CONSTANTS
    Areas,        \* SpaceArea ids
    Deals,        \* BuilderDeal ids
    Partners,     \* PartnerParticipation ids
    Cycles,       \* EventCycle ids
    Rows,         \* SpaceAllocation ids; a row id is used once
    Handlers,     \* requests that may be in flight together
    PlanCycle,    \* area -> the cycle of its venue plan, which never changes
    HomeCycle,    \* deal or partner -> the cycle it was created in
    MoveTo,       \* bound: the cycles an update may move a deal or partner to
    None          \* a field a request does not use

Targets == Deals \cup Partners

ActiveDealStages    == {"NEW", "CONTACTED", "NEGOTIATION"}
ActivePartnerStages == {"NEW", "CONTACTED"}
DealStages    == ActiveDealStages \cup {"WON", "LOST"}
PartnerStages == ActivePartnerStages \cup {"CONFIRMED", "DECLINED"}
StagesOf(t)   == IF t \in Deals THEN DealStages ELSE PartnerStages
Absent        == "ABSENT"      \* the row of the deal or partner is deleted

ASSUME KindsAreDisjoint == Deals \cap Partners = {}
ASSUME CyclesAreGiven ==
    /\ PlanCycle \in [Areas -> Cycles]
    /\ HomeCycle \in [Targets -> Cycles]
ASSUME MovesAreToCycles == MoveTo \subseteq Cycles
ASSUME MarksAreNoTargets == {"free", "gone"} \cap Targets = {}
ASSUME NoneIsNoId == None \notin Areas \cup Targets \cup Cycles \cup Rows

VARIABLES
    areas,   \* the SpaceArea rows that exist
    stage,   \* target -> its stage, or Absent
    cycle,   \* target -> its eventCycleId
    alloc,   \* row id -> the SpaceAllocation row
    req,     \* handler -> the request it is running
    overtaken  \* history: requests whose check another has undone

vars == <<areas, stage, cycle, alloc, req, overtaken>>

AllocRow == [status : {"unused", "active", "released", "deleted"},
             area   : Areas \cup {None},
             target : Targets \cup {None}]

NoRow(status) == [status |-> status, area |-> None, target |-> None]

\* What a request has still to do ("op" names its next statement), its input, and
\* the rows its open transaction has deleted without having committed.
Steps == {"idle", "assign_target", "assign_insert", "release_update",
          "deal_allocation_check", "deal_write", "deal_lock", "deal_release",
          "deal_remove", "deal_delete", "partner_write", "partner_remove",
          "partner_delete", "area_remove", "area_delete"}

Request == [op      : Steps,
            area    : Areas \cup {None},
            target  : Targets \cup {None},
            row     : Rows \cup {None},
            stage   : DealStages \cup PartnerStages \cup {None},
            cycle   : Cycles \cup {None},
            deleted : SUBSET Rows]

Idle == [op |-> "idle", area |-> None, target |-> None, row |-> None,
         stage |-> None, cycle |-> None, deleted |-> {}]

\* The fields each step relies on.
RequestOK(r) ==
    /\ r.op \in {"assign_target", "assign_insert"} =>
           r.area \in Areas /\ r.target \in Targets
    /\ r.op = "release_update" => r.row \in Rows
    /\ r.op \in {"deal_allocation_check", "deal_write", "deal_lock", "deal_release"} =>
           r.target \in Deals /\ r.stage \in DealStages \cup {None}
    /\ r.op = "deal_allocation_check" => r.stage = "WON"
    /\ r.op \in {"deal_lock", "deal_release"} => r.stage = "LOST"
    /\ r.op \in {"deal_remove", "deal_delete"} => r.target \in Deals
    /\ r.op = "partner_write" =>
           r.target \in Partners /\ r.stage \in PartnerStages \cup {None}
    /\ r.op \in {"partner_remove", "partner_delete"} => r.target \in Partners
    /\ r.op \in {"area_remove", "area_delete"} => r.area \in Areas
    /\ r.op \notin {"deal_delete", "partner_delete", "area_delete"} => r.deleted = {}

\* The rows and the requests, without the history.
StateOK ==
    /\ areas \subseteq Areas
    /\ stage \in [Targets -> DealStages \cup PartnerStages \cup {Absent}]
    /\ \A t \in Targets : stage[t] \in StagesOf(t) \cup {Absent}
    /\ cycle \in [Targets -> Cycles]
    /\ alloc \in [Rows -> AllocRow]
    /\ req \in [Handlers -> Request]
    /\ \A h \in Handlers : RequestOK(req[h])

TypeOK == StateOK /\ overtaken \subseteq Handlers

Init ==
    /\ areas = Areas
    /\ stage = [t \in Targets |-> "NEW"]
    /\ cycle = HomeCycle
    /\ alloc = [i \in Rows |-> NoRow("unused")]
    /\ req = [h \in Handlers |-> Idle]
    /\ overtaken = {}

-----------------------------------------------------------------------------
\* What statements see and wait for.

Stored(i)     == alloc[i].status \in {"active", "released"}
ActiveRows    == {i \in Rows : alloc[i].status = "active"}
RowsOfArea(a) == {i \in Rows : Stored(i) /\ alloc[i].area = a}
RowsOf(t)     == {i \in Rows : Stored(i) /\ alloc[i].target = t}

AreaIsAssigned(a) == \E i \in ActiveRows : alloc[i].area = a

DealHasActiveAllocation(d) == \E i \in ActiveRows : alloc[i].target = d

\* Another open transaction has written one of these rows: the statement waits.
RowsLocked(h, S) == \E g \in Handlers \ {h} : S \cap req[g].deleted # {}

\* Another transaction has updated this deal's row and has not committed.
DealLocked(h, d) ==
    \E g \in Handlers \ {h} : req[g].op = "deal_release" /\ req[g].target = d

Respond(h)  == req' = [req EXCEPT ![h] = Idle]
Goto(h, op) == req' = [req EXCEPT ![h].op = op]
Accept(h, r) == req[h].op = "idle" /\ req' = [req EXCEPT ![h] = r]

-----------------------------------------------------------------------------
\* SpaceAllocationsService.assign: read the area with its active allocations, read
\* the target, insert.  The unique index decides when two requests passed the read.

AssignReadArea(h) ==
    \E a \in areas, t \in Targets :
        /\ ~AreaIsAssigned(a)
        /\ Accept(h, [Idle EXCEPT !.op = "assign_target", !.area = a, !.target = t])
        /\ UNCHANGED <<areas, stage, cycle, alloc>>

DealIsAssignable_AnyCycle(d, c) == stage[d] \notin {Absent, "LOST"}
DealIsAssignable(d, c) == /\ stage[d] # Absent
                          /\ cycle[d] = c
                          /\ stage[d] # "LOST"

PartnerIsAssignable(p, c) == stage[p] # Absent /\ cycle[p] = c

AssignCheckTarget(h) ==
    LET t == req[h].target
        c == PlanCycle[req[h].area]
    IN  /\ req[h].op = "assign_target"
        /\ IF \/ t \in Deals /\ DealIsAssignable(t, c)
              \/ t \in Partners /\ PartnerIsAssignable(t, c)
           THEN Goto(h, "assign_insert")
           ELSE Respond(h)
        /\ UNCHANGED <<areas, stage, cycle, alloc>>

\* SpaceAllocation_one_active_per_area
AreaIsTaken_NoIndex(a) == FALSE
AreaIsTaken(a) == \E i \in ActiveRows : alloc[i].area = a

\* The insert waits while an open transaction is deleting the row it conflicts with.
AssignInsert(h) ==
    LET a == req[h].area
        t == req[h].target
    IN  /\ req[h].op = "assign_insert"
        /\ ~RowsLocked(h, {i \in ActiveRows : alloc[i].area = a})
        /\ \/ /\ a \in areas /\ stage[t] # Absent /\ ~AreaIsTaken(a)
              /\ \E i \in Rows :
                    /\ alloc[i].status = "unused"
                    /\ alloc' = [alloc EXCEPT ![i] =
                          [status |-> "active", area |-> a, target |-> t]]
           \/ /\ a \notin areas \/ stage[t] = Absent \/ AreaIsTaken(a)
              /\ UNCHANGED alloc
           \/ /\ \A i \in Rows : alloc[i].status # "unused"   \* bound: ids used up
              /\ UNCHANGED alloc
        /\ Respond(h)
        /\ UNCHANGED <<areas, stage, cycle>>

-----------------------------------------------------------------------------
\* SpaceAllocationsService.release: read the row, then update it by id alone.

ReleaseRead(h) ==
    \E i \in ActiveRows :
        /\ Accept(h, [Idle EXCEPT !.op = "release_update", !.row = i])
        /\ UNCHANGED <<areas, stage, cycle, alloc>>

ReleaseUpdate(h) ==
    LET i == req[h].row
    IN  /\ req[h].op = "release_update"
        /\ ~RowsLocked(h, {i})
        /\ alloc' = IF Stored(i) THEN [alloc EXCEPT ![i].status = "released"] ELSE alloc
        /\ Respond(h)
        /\ UNCHANGED <<areas, stage, cycle>>

-----------------------------------------------------------------------------
\* DealsService.update and remove.

\* assertValidStageTransition, but for the allocation a deal needs to be WON.
DealStageStep(current, next) ==
    \/ current = next
    \/ current = "NEGOTIATION" /\ next = "WON"
    \/ current \in ActiveDealStages /\ next \in ActiveDealStages \cup {"LOST"}
    \/ current = "LOST" /\ next \in ActiveDealStages

NeedsAllocation_NotChecked(current, next) == FALSE
NeedsAllocation(current, next) == current # "WON" /\ next = "WON"

\* The stage is checked against the row read first; only a move to WON reads more.
\* releaseAreas matters only with stage LOST.
DealUpdateRead(h) ==
    \E d \in Deals, s \in DealStages \cup {None}, c \in MoveTo \cup {None},
       op \in {"deal_allocation_check", "deal_write", "deal_lock"} :
        /\ stage[d] # Absent
        /\ s # None \/ c # None
        /\ s # None => DealStageStep(stage[d], s)
        /\ op = "deal_allocation_check" <=> NeedsAllocation(stage[d], s)
        /\ op = "deal_lock" => s = "LOST"
        /\ Accept(h, [Idle EXCEPT !.op = op, !.target = d, !.stage = s, !.cycle = c])
        /\ UNCHANGED <<areas, stage, cycle, alloc>>

DealCheckAllocation(h) ==
    /\ req[h].op = "deal_allocation_check"
    /\ IF DealHasActiveAllocation(req[h].target) THEN Goto(h, "deal_write") ELSE Respond(h)
    /\ UNCHANGED <<areas, stage, cycle, alloc>>

\* The row as the update leaves it: fields the request does not supply are kept.
Supplied(new, old) == IF new = None THEN old ELSE new

WriteTarget(h, t) ==
    /\ stage' = [stage EXCEPT ![t] = Supplied(req[h].stage, @)]
    /\ cycle' = [cycle EXCEPT ![t] = Supplied(req[h].cycle, @)]

\* The autocommitted update.
DealWrite(h) ==
    LET d == req[h].target
    IN  /\ req[h].op = "deal_write"
        /\ ~DealLocked(h, d)
        /\ IF stage[d] = Absent THEN UNCHANGED <<stage, cycle>> ELSE WriteTarget(h, d)
        /\ Respond(h)
        /\ UNCHANGED <<areas, alloc>>

\* The same update as the first statement of the transaction that also releases the
\* deal's areas: it locks the row, and its effect comes with the commit.
DealLock(h) ==
    LET d == req[h].target
    IN  /\ req[h].op = "deal_lock"
        /\ ~DealLocked(h, d)
        /\ IF stage[d] = Absent THEN Respond(h) ELSE Goto(h, "deal_release")
        /\ UNCHANGED <<areas, stage, cycle, alloc>>

\* releaseAllActiveAllocationsForDeal
ReleasedByDeal_EveryDeal(d) == ActiveRows
ReleasedByDeal(d) == {i \in ActiveRows : alloc[i].target = d}

\* releaseAllActiveAllocationsForDeal, then commit.
DealReleaseCommit(h) ==
    LET d == req[h].target
        S == ReleasedByDeal(d)
    IN  /\ req[h].op = "deal_release"
        /\ ~RowsLocked(h, S)
        /\ WriteTarget(h, d)
        /\ alloc' = [i \in Rows |->
               IF i \in S THEN [alloc[i] EXCEPT !.status = "released"] ELSE alloc[i]]
        /\ Respond(h)
        /\ UNCHANGED areas

\* remove: read the deal, then one transaction deletes its allocations and the deal.
DealRemoveRead(h) ==
    \E d \in Deals :
        /\ stage[d] # Absent
        /\ Accept(h, [Idle EXCEPT !.op = "deal_remove", !.target = d])
        /\ UNCHANGED <<areas, stage, cycle, alloc>>

\* First statements of a removal: the rows are deleted, invisibly, and locked.
DeleteAllocations(h, S, next) ==
    /\ ~RowsLocked(h, S)
    /\ req' = [req EXCEPT ![h].op = next, ![h].deleted = S]
    /\ UNCHANGED <<areas, stage, cycle, alloc>>

\* ON DELETE RESTRICT: a row inserted since then still points at the parent.
StillReferenced(h, S) == S \ req[h].deleted # {}

CommitDeletedRows(h) ==
    alloc' = [i \in Rows |-> IF i \in req[h].deleted THEN NoRow("deleted") ELSE alloc[i]]

\* Last statement of a removal: delete the target and commit, or roll back because
\* it is gone or still referenced.
DeleteTarget(h, t) ==
    /\ IF stage[t] = Absent \/ StillReferenced(h, RowsOf(t))
       THEN UNCHANGED <<stage, alloc>>
       ELSE /\ stage' = [stage EXCEPT ![t] = Absent]
            /\ CommitDeletedRows(h)
    /\ Respond(h)
    /\ UNCHANGED <<areas, cycle>>

DealRemoveAllocations(h) ==
    /\ req[h].op = "deal_remove"
    /\ DeleteAllocations(h, RowsOf(req[h].target), "deal_delete")

DealDelete(h) ==
    /\ req[h].op = "deal_delete"
    /\ ~DealLocked(h, req[h].target)
    /\ DeleteTarget(h, req[h].target)

-----------------------------------------------------------------------------
\* PartnersService.update and remove.

PartnerStageStep(current, next) ==
    \/ current = next
    \/ current \in ActivePartnerStages /\ next \in ActivePartnerStages \cup {"DECLINED"}
    \/ current = "CONTACTED" /\ next = "CONFIRMED"
    \/ current \in {"CONFIRMED", "DECLINED"} /\ next \in ActivePartnerStages

PartnerUpdateRead(h) ==
    \E p \in Partners, s \in PartnerStages \cup {None}, c \in MoveTo \cup {None} :
        /\ stage[p] # Absent
        /\ s # None \/ c # None
        /\ s # None => PartnerStageStep(stage[p], s)
        /\ Accept(h, [Idle EXCEPT
               !.op = "partner_write", !.target = p, !.stage = s, !.cycle = c])
        /\ UNCHANGED <<areas, stage, cycle, alloc>>

PartnerWrite(h) ==
    LET p == req[h].target
    IN  /\ req[h].op = "partner_write"
        /\ IF stage[p] = Absent THEN UNCHANGED <<stage, cycle>> ELSE WriteTarget(h, p)
        /\ Respond(h)
        /\ UNCHANGED <<areas, alloc>>

PartnerRemoveRead(h) ==
    \E p \in Partners :
        /\ stage[p] # Absent
        /\ Accept(h, [Idle EXCEPT !.op = "partner_remove", !.target = p])
        /\ UNCHANGED <<areas, stage, cycle, alloc>>

PartnerRemoveAllocations(h) ==
    /\ req[h].op = "partner_remove"
    /\ DeleteAllocations(h, RowsOf(req[h].target), "partner_delete")

PartnerDelete(h) ==
    /\ req[h].op = "partner_delete"
    /\ DeleteTarget(h, req[h].target)

-----------------------------------------------------------------------------
\* SpaceAreasService.remove: refuse an assigned area, then delete its whole
\* allocation history and the area in one transaction.

AreaMayBeRemoved_Assigned(a) == a \in areas
AreaMayBeRemoved(a) == a \in areas /\ ~AreaIsAssigned(a)

AreaRemoveRead(h) ==
    \E a \in Areas :
        /\ AreaMayBeRemoved(a)
        /\ Accept(h, [Idle EXCEPT !.op = "area_remove", !.area = a])
        /\ UNCHANGED <<areas, stage, cycle, alloc>>

AreaRemoveAllocations(h) ==
    /\ req[h].op = "area_remove"
    /\ DeleteAllocations(h, RowsOfArea(req[h].area), "area_delete")

AreaDelete(h) ==
    LET a == req[h].area
    IN  /\ req[h].op = "area_delete"
        /\ IF a \notin areas \/ StillReferenced(h, RowsOfArea(a))
           THEN UNCHANGED <<areas, alloc>>
           ELSE /\ areas' = areas \ {a}
                /\ CommitDeletedRows(h)
        /\ Respond(h)
        /\ UNCHANGED <<stage, cycle>>

-----------------------------------------------------------------------------
\* A statement fails (connection, transaction timeout, process restart): the open
\* transaction is rolled back and nothing of the request remains.
DatabaseError(h) ==
    /\ req[h].op # "idle"
    /\ Respond(h)
    /\ UNCHANGED <<areas, stage, cycle, alloc>>

WaitsFor_NoDetector(h, g) == FALSE

\* The transaction of h waits for a lock the transaction of g holds.
WaitsFor(h, g) ==
    \/ /\ req[h].op = "deal_release"
       /\ ReleasedByDeal(req[h].target) \cap req[g].deleted # {}
    \/ /\ req[h].op = "deal_delete" /\ req[g].op = "deal_release"
       /\ req[h].target = req[g].target

\* PostgreSQL aborts one of two transactions that wait for each other.
DeadlockVictim(h) ==
    /\ \E g \in Handlers \ {h} : WaitsFor(h, g) /\ WaitsFor(g, h)
    /\ Respond(h)
    /\ UNCHANGED <<areas, stage, cycle, alloc>>

Arrive(h) == \/ AssignReadArea(h)    \/ ReleaseRead(h)
             \/ DealUpdateRead(h)    \/ DealRemoveRead(h)
             \/ PartnerUpdateRead(h) \/ PartnerRemoveRead(h)
             \/ AreaRemoveRead(h)

Advance(h) == \/ AssignCheckTarget(h)        \/ AssignInsert(h)
              \/ ReleaseUpdate(h)
              \/ DealCheckAllocation(h)      \/ DealWrite(h)
              \/ DealLock(h)                 \/ DealReleaseCommit(h)
              \/ DealRemoveAllocations(h)    \/ DealDelete(h)
              \/ PartnerWrite(h)
              \/ PartnerRemoveAllocations(h) \/ PartnerDelete(h)
              \/ AreaRemoveAllocations(h)    \/ AreaDelete(h)

\* The step undoes what g has checked and is about to rely on: the target of its
\* assignment moves, the deal it updates moves or loses an allocation, the area it
\* removes is assigned.
Overtakes(g) ==
    LET t == req[g].target
    IN  \/ req[g].op = "assign_insert" /\ (stage'[t] # stage[t] \/ cycle'[t] # cycle[t])
        \/ /\ req[g].op = "deal_write"
           /\ \/ stage'[t] # stage[t]
              \/ \E i \in ActiveRows \ ActiveRows' : alloc[i].target = t
        \/ /\ req[g].op = "area_remove"
           /\ \E i \in ActiveRows' \ ActiveRows : alloc'[i].area = req[g].area

\* The history, for a step of h.  No action reads it.
Observe(h) ==
    overtaken' = {g \in Handlers : /\ req'[g].op # "idle"
                                   /\ g \in overtaken \/ (g # h /\ Overtakes(g))}

Next == \E h \in Handlers :
            /\ Arrive(h) \/ Advance(h) \/ DeadlockVictim(h) \/ DatabaseError(h)
            /\ Observe(h)

Spec == Init /\ [][Next]_vars

\* The event loop resumes every handler, PostgreSQL queues lock waiters (a lock
\* that is free again and again is granted) and always breaks a deadlock.
Fairness == \A h \in Handlers : /\ SF_vars(Advance(h) /\ Observe(h))
                                /\ WF_vars(DeadlockVictim(h) /\ Observe(h))

LiveSpec == Spec /\ Fairness

-----------------------------------------------------------------------------
\* Invariants.

\* An area is held by at most one deal or partner, whatever requests interleave.
OneActivePerArea ==
    \A i, j \in ActiveRows : alloc[i].area = alloc[j].area => i = j

\* Every stored allocation, active or historical, points at an area that exists and
\* at a deal or partner that exists: no removal leaves an orphan behind.
NoDanglingAllocation ==
    \A i \in Rows : Stored(i) =>
        /\ alloc[i].area \in areas
        /\ alloc[i].target \in Targets /\ stage[alloc[i].target] # Absent

\* The rows an open transaction has deleted are still there for everyone else, and
\* no two transactions delete the same row.
DeletedRowsAreLocked ==
    \A h \in Handlers :
        /\ \A i \in req[h].deleted : Stored(i)
        /\ ~RowsLocked(h, req[h].deleted)

\* What the table promises while assignments, releases and removals interleave: one
\* holder for an area, no orphans, and a row is deleted by one transaction at most.
AllocationsAreSound == OneActivePerArea /\ NoDanglingAllocation /\ DeletedRowsAreLocked

-----------------------------------------------------------------------------
\* The map a reader sees, and the abstract specification it implements.

Occupant == [a \in Areas |->
    IF a \notin areas THEN "gone"
    ELSE IF AreaIsAssigned(a)
         THEN alloc[CHOOSE i \in ActiveRows : alloc[i].area = a].target
         ELSE "free"]

\* The areas whose removal passed its check and has not been answered.
Retiring == {a \in Areas : \E h \in Handlers :
                 req[h].op \in {"area_remove", "area_delete"} /\ req[h].area = a}

Occupancy == INSTANCE AreaOccupancy
             WITH occupant <- Occupant, retiring <- Retiring,
                  Free <- "free", Gone <- "gone"

\* Every step of the handlers is a step of AreaOccupancy or leaves the map alone.
ImplementsOccupancy == Occupancy!Spec

-----------------------------------------------------------------------------
\* Action properties: what the validation of a request promises about the write it
\* leads to.  Each holds unless the very request that writes was overtaken: checks and
\* writes are separate statements.

Inserted(i) == alloc[i].status = "unused" /\ alloc'[i].status = "active"

\* The step answers a request another one has overtaken.
AnswersOvertaken == \E h \in overtaken : req'[h].op = "idle"

\* "A deal cannot move to won without an active map allocation": when it becomes
\* WON it holds one, unless its allocation or its row was changed under the update.
WonRequiresAllocation ==
    [][\A d \in Deals : stage[d] # "WON" /\ stage'[d] = "WON"
                            => DealHasActiveAllocation(d) \/ AnswersOvertaken]_vars

\* "The target does not belong to the same event cycle as the venue plan", "a lost
\* deal cannot be assigned": an area is given to a target of its plan's cycle that is
\* not LOST, unless the target was changed between the check and the insert.
OnlyEligibleIsAssigned ==
    [][\A i \in Rows : Inserted(i) =>
           \/ /\ cycle[alloc'[i].target] = PlanCycle[alloc'[i].area]
              /\ stage[alloc'[i].target] # "LOST"
           \/ AnswersOvertaken]_vars

\* "Release the area before deleting it": a deleted area was not assigned, unless it
\* was assigned while its removal was under way.
ReleasedBeforeRemoval ==
    [][\A a \in areas \ areas' : AreaIsAssigned(a) => AnswersOvertaken]_vars

\* docs/07-ACCEPTANCE.md: "An assigned area must be released before deletion."  The
\* code checks it outside the transaction that deletes, so it does not hold.
AssignedAreaIsNotDeleted ==
    [][\A a \in areas \ areas' : ~AreaIsAssigned(a)]_vars

\* Every request is answered: no handler waits for a lock for ever.
EveryRequestIsAnswered ==
    \A h \in Handlers : req[h].op # "idle" ~> req[h].op = "idle"
=============================================================================
