------------------------- MODULE VenueAllocationsProofs -------------------------
(* Theorems about VenueAllocations for any number of areas, deals, partners,      *)
(* allocation rows and concurrent requests.                                       *)
EXTENDS VenueAllocations, TLAPS

\* Every request that is accepted has the fields its steps rely on.
LEMMA IdleIsRequest == Idle \in Request /\ RequestOK(Idle)
BY NoneIsNoId DEF Idle, Request, RequestOK, Steps

\* Answering a request leaves the others as they are.
LEMMA RespondTypes ==
    ASSUME StateOK, NEW h \in Handlers, Respond(h)
    PROVE  req' \in [Handlers -> Request] /\ \A g \in Handlers : RequestOK(req'[g])
BY IdleIsRequest DEF StateOK, Respond

\* The database tables alone, without the requests.
TablesOK ==
    /\ areas \subseteq Areas
    /\ \A t \in Targets : stage[t] \in StagesOf(t) \cup {Absent}
    /\ stage \in [Targets -> DealStages \cup PartnerStages \cup {Absent}]
    /\ cycle \in [Targets -> Cycles]
    /\ alloc \in [Rows -> AllocRow]

RequestsOK == req \in [Handlers -> Request] /\ \A h \in Handlers : RequestOK(req[h])

LEMMA StateOKParts == StateOK <=> TablesOK /\ RequestsOK
BY DEF StateOK, TablesOK, RequestsOK

\* Each statement leaves well-typed tables and well-typed requests.
LEMMA AssignTypes ==
    ASSUME StateOK, NEW h \in Handlers,
           AssignReadArea(h) \/ AssignCheckTarget(h) \/ AssignInsert(h)
    PROVE  StateOK'
<1>1. CASE AssignReadArea(h)
  <2>1. PICK a \in areas, t \in Targets :
            Accept(h, [Idle EXCEPT !.op = "assign_target", !.area = a, !.target = t])
    BY <1>1 DEF AssignReadArea
  <2> DEFINE r == [Idle EXCEPT !.op = "assign_target", !.area = a, !.target = t]
  <2>2. r \in Request /\ RequestOK(r)
    BY NoneIsNoId DEF Idle, Request, RequestOK, Steps, StateOK, Targets
  <2>3. RequestsOK'
    BY <2>1, <2>2 DEF Accept, StateOK, RequestsOK
  <2>4. TablesOK'
    BY <1>1 DEF AssignReadArea, StateOK, TablesOK, StagesOf
  <2> QED BY <2>3, <2>4 DEF StateOK, TablesOK, RequestsOK
<1>2. CASE AssignCheckTarget(h)
  <2>1. CASE Respond(h)
    BY <1>2, <2>1, RespondTypes DEF AssignCheckTarget, StateOK, StagesOf
  <2>2. CASE Goto(h, "assign_insert")
    <3> DEFINE r == [req[h] EXCEPT !.op = "assign_insert"]
    <3>1. r \in Request /\ RequestOK(r)
      BY <1>2 DEF AssignCheckTarget, StateOK, Request, RequestOK, Steps
    <3>2. req' = [req EXCEPT ![h] = r]
      BY <2>2 DEF Goto
    <3>3. RequestsOK'
      BY <3>1, <3>2 DEF StateOK, RequestsOK
    <3> QED BY <1>2, <3>3 DEF AssignCheckTarget, StateOK, RequestsOK, StagesOf
  <2> QED BY <1>2, <2>1, <2>2 DEF AssignCheckTarget
<1>3. CASE AssignInsert(h)
  <2>1. RequestsOK'
    BY <1>3, RespondTypes DEF AssignInsert, RequestsOK
  <2>2. alloc' \in [Rows -> AllocRow]
    <3>1. req[h].area \in Areas /\ req[h].target \in Targets
      BY <1>3 DEF AssignInsert, StateOK, RequestOK
    <3> QED BY <1>3, <3>1 DEF AssignInsert, StateOK, AllocRow
  <2> QED BY <1>3, <2>1, <2>2 DEF AssignInsert, StateOK, RequestsOK, StagesOf
<1> QED BY <1>1, <1>2, <1>3

LEMMA UnchangedTables ==
    ASSUME StateOK, UNCHANGED <<areas, stage, cycle, alloc>>
    PROVE  TablesOK'
BY DEF StateOK, TablesOK, StagesOf

\* The statement that writes a deal or a partner keeps its stage in its own set.
LEMMA WriteTargetTypes ==
    ASSUME StateOK, NEW h \in Handlers, NEW t \in Targets, WriteTarget(h, t),
           req[h].stage \in StagesOf(t) \cup {None}
    PROVE  /\ stage' \in [Targets -> DealStages \cup PartnerStages \cup {Absent}]
           /\ \A u \in Targets : stage'[u] \in StagesOf(u) \cup {Absent}
           /\ cycle' \in [Targets -> Cycles]
<1>1. req[h].cycle \in Cycles \cup {None}
  BY DEF StateOK, Request
<1>2. Supplied(req[h].stage, stage[t]) \in StagesOf(t) \cup {Absent}
  BY DEF Supplied, StateOK
<1>3. Supplied(req[h].cycle, cycle[t]) \in Cycles
  BY <1>1 DEF Supplied, StateOK
<1>4. StagesOf(t) \subseteq DealStages \cup PartnerStages
  BY DEF StagesOf
<1> QED BY <1>2, <1>3, <1>4 DEF WriteTarget, StateOK, StagesOf

LEMMA DeletedTypes ==
    ASSUME StateOK, NEW h \in Handlers, CommitDeletedRows(h)
    PROVE  alloc' \in [Rows -> AllocRow]
BY DEF StateOK, CommitDeletedRows, AllocRow, NoRow

LEMMA DeleteTargetTypes ==
    ASSUME StateOK, NEW h \in Handlers, NEW t \in Targets, DeleteTarget(h, t)
    PROVE  StateOK'
<1>1. RequestsOK'
  BY RespondTypes DEF DeleteTarget, RequestsOK
<1>2. alloc' \in [Rows -> AllocRow]
  BY DeletedTypes DEF DeleteTarget, StateOK
<1> QED BY <1>1, <1>2 DEF DeleteTarget, StateOK, RequestsOK, StagesOf

LEMMA DeleteAllocationsTypes ==
    ASSUME StateOK, NEW h \in Handlers, NEW S \in SUBSET Rows,
           NEW next,
           \/ req[h].op = "deal_remove" /\ next = "deal_delete"
           \/ req[h].op = "partner_remove" /\ next = "partner_delete"
           \/ req[h].op = "area_remove" /\ next = "area_delete",
           DeleteAllocations(h, S, next)
    PROVE  StateOK'
<1> DEFINE r == [req[h] EXCEPT !.op = next, !.deleted = S]
<1>1. r \in Request /\ RequestOK(r)
  BY DEF StateOK, Request, RequestOK, Steps
<1>2. req' = [req EXCEPT ![h] = r]
  BY DEF DeleteAllocations, StateOK
<1>3. RequestsOK'
  BY <1>1, <1>2 DEF StateOK, RequestsOK
<1> QED BY <1>3, UnchangedTables DEF DeleteAllocations, StateOK, TablesOK, RequestsOK

LEMMA ReleaseTypes ==
    ASSUME StateOK, NEW h \in Handlers, ReleaseRead(h) \/ ReleaseUpdate(h)
    PROVE  StateOK'
<1>1. CASE ReleaseRead(h)
  <2>1. PICK i \in ActiveRows :
            Accept(h, [Idle EXCEPT !.op = "release_update", !.row = i])
    BY <1>1 DEF ReleaseRead
  <2> DEFINE r == [Idle EXCEPT !.op = "release_update", !.row = i]
  <2>2. r \in Request /\ RequestOK(r)
    BY NoneIsNoId DEF Idle, Request, RequestOK, Steps, ActiveRows
  <2>3. RequestsOK'
    BY <2>1, <2>2 DEF Accept, StateOK, RequestsOK
  <2> QED BY <1>1, <2>3, UnchangedTables DEF ReleaseRead, StateOK, TablesOK, RequestsOK
<1>2. CASE ReleaseUpdate(h)
  <2>1. RequestsOK'
    BY <1>2, RespondTypes DEF ReleaseUpdate, RequestsOK
  <2>2. alloc' \in [Rows -> AllocRow]
    <3>1. req[h].row \in Rows
      BY <1>2 DEF ReleaseUpdate, StateOK, RequestOK
    <3> QED BY <1>2, <3>1 DEF ReleaseUpdate, StateOK, AllocRow
  <2> QED BY <1>2, <2>1, <2>2 DEF ReleaseUpdate, StateOK, RequestsOK, StagesOf
<1> QED BY <1>1, <1>2

LEMMA DealUpdateRequest ==
    ASSUME NEW op \in {"deal_allocation_check", "deal_write", "deal_lock"},
           NEW d \in Deals, NEW s \in DealStages \cup {None},
           NEW c \in MoveTo \cup {None},
           op = "deal_allocation_check" => s = "WON", op = "deal_lock" => s = "LOST"
    PROVE  LET r == [Idle EXCEPT !.op = op, !.target = d, !.stage = s, !.cycle = c]
           IN  r \in Request /\ RequestOK(r)
<1> DEFINE r == [Idle EXCEPT !.op = op, !.target = d, !.stage = s, !.cycle = c]
<1>1. op \in Steps /\ d \in Targets /\ c \in Cycles \cup {None}
  BY MovesAreToCycles DEF Steps, Targets
<1>2. r \in Request
  BY <1>1 DEF Idle, Request, Steps
<1>3. r.op = op /\ r.target = d /\ r.stage = s /\ r.deleted = {}
  BY DEF Idle
<1>4. RequestOK(r)
  BY <1>3 DEF RequestOK
<1> QED BY <1>2, <1>4

LEMMA DealTypes ==
    ASSUME StateOK, NEW h \in Handlers,
           \/ DealUpdateRead(h) \/ DealCheckAllocation(h) \/ DealWrite(h)
           \/ DealLock(h) \/ DealReleaseCommit(h) \/ DealRemoveRead(h)
           \/ DealRemoveAllocations(h) \/ DealDelete(h)
    PROVE  StateOK'
<1>1. CASE DealUpdateRead(h)
  <2>1. PICK d \in Deals, s \in DealStages \cup {None}, c \in MoveTo \cup {None},
             op \in {"deal_allocation_check", "deal_write", "deal_lock"} :
          /\ op = "deal_allocation_check" => s = "WON"
          /\ op = "deal_lock" => s = "LOST"
          /\ Accept(h, [Idle EXCEPT !.op = op, !.target = d, !.stage = s, !.cycle = c])
    BY <1>1 DEF DealUpdateRead, NeedsAllocation
  <2> DEFINE r == [Idle EXCEPT !.op = op, !.target = d, !.stage = s, !.cycle = c]
  <2>2. r \in Request /\ RequestOK(r)
    BY <2>1, DealUpdateRequest
  <2>3. RequestsOK'
    BY <2>1, <2>2 DEF Accept, StateOK, RequestsOK
  <2> QED BY <1>1, <2>3, UnchangedTables
          DEF DealUpdateRead, StateOK, TablesOK, RequestsOK
<1>2. CASE DealCheckAllocation(h)
  <2>1. CASE Respond(h)
    BY <1>2, <2>1, RespondTypes DEF DealCheckAllocation, StateOK, StagesOf
  <2>2. CASE Goto(h, "deal_write")
    <3> DEFINE r == [req[h] EXCEPT !.op = "deal_write"]
    <3>1. r \in Request /\ RequestOK(r)
      BY <1>2 DEF DealCheckAllocation, StateOK, Request, RequestOK, Steps
    <3>2. RequestsOK'
      BY <2>2, <3>1 DEF Goto, StateOK, RequestsOK
    <3> QED BY <1>2, <3>2, UnchangedTables
            DEF DealCheckAllocation, StateOK, TablesOK, RequestsOK
  <2> QED BY <1>2, <2>1, <2>2 DEF DealCheckAllocation
<1>3. CASE DealWrite(h)
  <2>1. /\ req[h].target \in Deals /\ req[h].target \in Targets
        /\ req[h].stage \in StagesOf(req[h].target) \cup {None}
    BY <1>3 DEF DealWrite, StateOK, RequestOK, Targets, StagesOf
  <2>2. CASE UNCHANGED <<stage, cycle>>
    BY <1>3, <2>2, RespondTypes DEF DealWrite, StateOK, StagesOf
  <2>3. CASE WriteTarget(h, req[h].target)
    BY <1>3, <2>1, <2>3, RespondTypes, WriteTargetTypes DEF DealWrite, StateOK
  <2> QED BY <1>3, <2>2, <2>3 DEF DealWrite
<1>8. CASE DealLock(h)
  <2>1. CASE Respond(h)
    BY <1>8, <2>1, RespondTypes DEF DealLock, StateOK, StagesOf
  <2>2. CASE Goto(h, "deal_release")
    <3> DEFINE r == [req[h] EXCEPT !.op = "deal_release"]
    <3>1. r \in Request /\ RequestOK(r)
      BY <1>8 DEF DealLock, StateOK, Request, RequestOK, Steps
    <3>2. RequestsOK'
      BY <2>2, <3>1 DEF Goto, StateOK, RequestsOK
    <3> QED BY <1>8, <3>2, UnchangedTables DEF DealLock, StateOK, TablesOK, RequestsOK
  <2> QED BY <1>8, <2>1, <2>2 DEF DealLock
<1>4. CASE DealReleaseCommit(h)
  <2>1. /\ req[h].target \in Deals /\ req[h].target \in Targets
        /\ req[h].stage \in StagesOf(req[h].target) \cup {None}
    BY <1>4 DEF DealReleaseCommit, StateOK, RequestOK, Targets, StagesOf
  <2>2. alloc' \in [Rows -> AllocRow]
    BY <1>4 DEF DealReleaseCommit, StateOK, AllocRow
  <2> QED BY <1>4, <2>1, <2>2, RespondTypes, WriteTargetTypes
          DEF DealReleaseCommit, StateOK
<1>5. CASE DealRemoveRead(h)
  <2>1. PICK d \in Deals :
            Accept(h, [Idle EXCEPT !.op = "deal_remove", !.target = d])
    BY <1>5 DEF DealRemoveRead
  <2> DEFINE r == [Idle EXCEPT !.op = "deal_remove", !.target = d]
  <2>2. r \in Request /\ RequestOK(r)
    BY NoneIsNoId DEF Idle, Request, RequestOK, Steps, Targets
  <2>3. RequestsOK'
    BY <2>1, <2>2 DEF Accept, StateOK, RequestsOK
  <2> QED BY <1>5, <2>3, UnchangedTables
          DEF DealRemoveRead, StateOK, TablesOK, RequestsOK
<1>6. CASE DealRemoveAllocations(h)
  <2>1. RowsOf(req[h].target) \in SUBSET Rows
    BY DEF RowsOf
  <2> QED BY <1>6, <2>1, DeleteAllocationsTypes DEF DealRemoveAllocations, Steps
<1>7. CASE DealDelete(h)
  <2>1. req[h].target \in Targets
    BY <1>7 DEF DealDelete, StateOK, RequestOK, Targets
  <2> QED BY <1>7, <2>1, DeleteTargetTypes DEF DealDelete
<1> QED BY <1>1, <1>2, <1>3, <1>4, <1>5, <1>6, <1>7, <1>8

LEMMA PartnerTypes ==
    ASSUME StateOK, NEW h \in Handlers,
           \/ PartnerUpdateRead(h) \/ PartnerWrite(h) \/ PartnerRemoveRead(h)
           \/ PartnerRemoveAllocations(h) \/ PartnerDelete(h)
    PROVE  StateOK'
<1>1. CASE PartnerUpdateRead(h)
  <2>1. PICK p \in Partners, s \in PartnerStages \cup {None}, c \in MoveTo \cup {None} :
          Accept(h, [Idle EXCEPT !.op = "partner_write", !.target = p, !.stage = s,
                                 !.cycle = c])
    BY <1>1 DEF PartnerUpdateRead
  <2> DEFINE r == [Idle EXCEPT !.op = "partner_write", !.target = p, !.stage = s,
                               !.cycle = c]
  <2>2. p \in Targets /\ c \in Cycles \cup {None}
    BY MovesAreToCycles DEF Targets
  <2>3. r \in Request
    BY <2>2 DEF Idle, Request, Steps
  <2>4. r.op = "partner_write" /\ r.target = p /\ r.stage = s /\ r.deleted = {}
    BY DEF Idle
  <2>5. RequestOK(r)
    BY <2>4 DEF RequestOK
  <2>6. RequestsOK'
    BY <2>1, <2>3, <2>5 DEF Accept, StateOK, RequestsOK
  <2> QED BY <1>1, <2>6, UnchangedTables
          DEF PartnerUpdateRead, StateOK, TablesOK, RequestsOK
<1>2. CASE PartnerWrite(h)
  <2>1. /\ req[h].target \in Partners /\ req[h].target \in Targets
        /\ req[h].stage \in StagesOf(req[h].target) \cup {None}
    BY <1>2, KindsAreDisjoint DEF PartnerWrite, StateOK, RequestOK, Targets, StagesOf
  <2>2. CASE UNCHANGED <<stage, cycle>>
    BY <1>2, <2>2, RespondTypes DEF PartnerWrite, StateOK, StagesOf
  <2>3. CASE WriteTarget(h, req[h].target)
    BY <1>2, <2>1, <2>3, RespondTypes, WriteTargetTypes DEF PartnerWrite, StateOK
  <2> QED BY <1>2, <2>2, <2>3 DEF PartnerWrite
<1>3. CASE PartnerRemoveRead(h)
  <2>1. PICK x \in Partners :
            Accept(h, [Idle EXCEPT !.op = "partner_remove", !.target = x])
    BY <1>3 DEF PartnerRemoveRead
  <2> DEFINE r == [Idle EXCEPT !.op = "partner_remove", !.target = x]
  <2>2. r \in Request /\ RequestOK(r)
    BY NoneIsNoId DEF Idle, Request, RequestOK, Steps, Targets
  <2>3. RequestsOK'
    BY <2>1, <2>2 DEF Accept, StateOK, RequestsOK
  <2> QED BY <1>3, <2>3, UnchangedTables
          DEF PartnerRemoveRead, StateOK, TablesOK, RequestsOK
<1>4. CASE PartnerRemoveAllocations(h)
  <2>1. RowsOf(req[h].target) \in SUBSET Rows
    BY DEF RowsOf
  <2> QED BY <1>4, <2>1, DeleteAllocationsTypes DEF PartnerRemoveAllocations
<1>5. CASE PartnerDelete(h)
  <2>1. req[h].target \in Targets
    BY <1>5 DEF PartnerDelete, StateOK, RequestOK, Targets
  <2> QED BY <1>5, <2>1, DeleteTargetTypes DEF PartnerDelete
<1> QED BY <1>1, <1>2, <1>3, <1>4, <1>5

LEMMA AreaTypes ==
    ASSUME StateOK, NEW h \in Handlers,
           AreaRemoveRead(h) \/ AreaRemoveAllocations(h) \/ AreaDelete(h)
    PROVE  StateOK'
<1>1. CASE AreaRemoveRead(h)
  <2>1. PICK x \in Areas :
            Accept(h, [Idle EXCEPT !.op = "area_remove", !.area = x])
    BY <1>1 DEF AreaRemoveRead, AreaMayBeRemoved
  <2> DEFINE r == [Idle EXCEPT !.op = "area_remove", !.area = x]
  <2>2. r \in Request /\ RequestOK(r)
    BY NoneIsNoId DEF Idle, Request, RequestOK, Steps, Targets
  <2>3. RequestsOK'
    BY <2>1, <2>2 DEF Accept, StateOK, RequestsOK
  <2> QED BY <1>1, <2>3, UnchangedTables
          DEF AreaRemoveRead, StateOK, TablesOK, RequestsOK
<1>2. CASE AreaRemoveAllocations(h)
  <2>1. RowsOfArea(req[h].area) \in SUBSET Rows
    BY DEF RowsOfArea
  <2> QED BY <1>2, <2>1, DeleteAllocationsTypes DEF AreaRemoveAllocations
<1>3. CASE AreaDelete(h)
  <2>1. RequestsOK'
    BY <1>3, RespondTypes DEF AreaDelete, RequestsOK
  <2>2. alloc' \in [Rows -> AllocRow]
    BY <1>3, DeletedTypes DEF AreaDelete, StateOK
  <2>3. areas' \subseteq Areas
    BY <1>3 DEF AreaDelete, StateOK
  <2> QED BY <1>3, <2>1, <2>2, <2>3 DEF AreaDelete, StateOK, RequestsOK, StagesOf
<1> QED BY <1>1, <1>2, <1>3

LEMMA FailureTypes ==
    ASSUME StateOK, NEW h \in Handlers, DatabaseError(h) \/ DeadlockVictim(h)
    PROVE  StateOK'
BY RespondTypes DEF DatabaseError, DeadlockVictim, StateOK, StagesOf

LEMMA InitTypes == Init => StateOK
<1> SUFFICES ASSUME Init PROVE StateOK
  OBVIOUS
<1>1. TablesOK
  BY CyclesAreGiven DEF Init, TablesOK, StagesOf, DealStages, PartnerStages,
     ActiveDealStages, ActivePartnerStages, NoRow, AllocRow
<1>2. RequestsOK
  BY IdleIsRequest DEF Init, RequestsOK
<1> QED BY <1>1, <1>2, StateOKParts

LEMMA NextTypes == StateOK /\ [Next]_vars => StateOK'
<1> SUFFICES ASSUME StateOK, [Next]_vars PROVE StateOK'
  OBVIOUS
<1>1. CASE UNCHANGED vars
  BY <1>1 DEF vars, StateOK, StagesOf
<1>2. ASSUME NEW h \in Handlers,
             Arrive(h) \/ Advance(h) \/ DeadlockVictim(h) \/ DatabaseError(h)
      PROVE  StateOK'
  BY <1>2, AssignTypes, ReleaseTypes, DealTypes, PartnerTypes, AreaTypes, FailureTypes
     DEF Arrive, Advance
<1> QED BY <1>1, <1>2 DEF Next

LEMMA StateCorrect == Spec => []StateOK
BY InitTypes, NextTypes, PTL DEF Spec

\* Every row and every request in flight has its type in every reachable state.
THEOREM TypeCorrect == Spec => []TypeOK
<1>1. Init => TypeOK
  BY InitTypes DEF TypeOK, Init
<1>2. TypeOK /\ [Next]_vars => TypeOK'
  <2> SUFFICES ASSUME TypeOK, [Next]_vars PROVE TypeOK'
    OBVIOUS
  <2>1. StateOK'
    BY NextTypes DEF TypeOK
  <2>2. overtaken' \subseteq Handlers
    BY DEF TypeOK, Next, Observe, vars
  <2> QED BY <2>1, <2>2 DEF TypeOK
<1> QED BY <1>1, <1>2, PTL DEF Spec

-----------------------------------------------------------------------------
(* Rows enter the table in one place, AssignInsert; every other statement keeps   *)
(* a row, releases it or deletes it.                                              *)

Step(h) == Arrive(h) \/ Advance(h) \/ DeadlockVictim(h) \/ DatabaseError(h)

RowsOnlyLeave ==
    \A i \in Rows :
        /\ Stored(i)' => /\ Stored(i)
                         /\ alloc'[i].area = alloc[i].area
                         /\ alloc'[i].target = alloc[i].target
        /\ alloc'[i].status = "active" => alloc[i].status = "active"

LEMMA UnchangedRows ==
    ASSUME alloc' = alloc
    PROVE  RowsOnlyLeave
BY DEF RowsOnlyLeave, Stored

LEMMA DeletedRowsLeave ==
    ASSUME NEW h \in Handlers, CommitDeletedRows(h)
    PROVE  RowsOnlyLeave
BY DEF RowsOnlyLeave, CommitDeletedRows, Stored, NoRow

LEMMA DeleteTargetRows ==
    ASSUME NEW h \in Handlers, NEW t, DeleteTarget(h, t)
    PROVE  RowsOnlyLeave
BY UnchangedRows, DeletedRowsLeave DEF DeleteTarget

LEMMA OnlyInsertAdds ==
    ASSUME StateOK, NEW h \in Handlers, Step(h), ~AssignInsert(h)
    PROVE  RowsOnlyLeave
<1>1. CASE ReleaseUpdate(h)
  <2>1. req[h].row \in Rows
    BY <1>1 DEF ReleaseUpdate, StateOK, RequestOK
  <2> QED BY <1>1, <2>1 DEF ReleaseUpdate, StateOK, AllocRow, RowsOnlyLeave, Stored
<1>2. CASE DealReleaseCommit(h)
  <2>1. ReleasedByDeal(req[h].target) \subseteq ActiveRows
    BY DEF ReleasedByDeal
  <2>2. \A i \in Rows : \/ alloc'[i] = alloc[i]
                       \/ /\ alloc[i].status = "active"
                          /\ alloc'[i] = [alloc[i] EXCEPT !.status = "released"]
    BY <1>2, <2>1 DEF DealReleaseCommit, ActiveRows
  <2>3. \A i \in Rows : alloc[i] \in AllocRow
    BY DEF StateOK
  <2> QED BY <2>2, <2>3 DEF AllocRow, RowsOnlyLeave, Stored
<1>3. CASE DealDelete(h) \/ PartnerDelete(h)
  BY <1>3, DeleteTargetRows DEF DealDelete, PartnerDelete
<1>4. CASE AreaDelete(h)
  BY <1>4, UnchangedRows, DeletedRowsLeave DEF AreaDelete
<1>5. CASE alloc' = alloc
  BY <1>5, UnchangedRows
<1> QED
  BY <1>1, <1>2, <1>3, <1>4, <1>5
     DEF Step, Arrive, Advance, DeadlockVictim, DatabaseError, AssignReadArea,
         AssignCheckTarget, ReleaseRead, DealUpdateRead, DealCheckAllocation,
         DealWrite, DealLock, DealRemoveRead, DealRemoveAllocations,
         PartnerUpdateRead, PartnerWrite, PartnerRemoveRead,
         PartnerRemoveAllocations, AreaRemoveRead, AreaRemoveAllocations,
         DeleteAllocations

LEMMA InsertedRow ==
    ASSUME StateOK, NEW h \in Handlers, AssignInsert(h), alloc' # alloc
    PROVE  /\ req[h].area \in areas
           /\ req[h].target \in Targets
           /\ stage[req[h].target] # Absent
           /\ ~AreaIsTaken(req[h].area)
           /\ \E i \in Rows :
                 /\ alloc[i].status = "unused"
                 /\ alloc' = [alloc EXCEPT ![i] = [status |-> "active",
                                 area |-> req[h].area, target |-> req[h].target]]
BY DEF AssignInsert, StateOK, RequestOK

LEMMA OneActiveInit == Init => OneActivePerArea
BY DEF Init, OneActivePerArea, ActiveRows, NoRow

LEMMA OneActiveNext ==
    ASSUME StateOK, OneActivePerArea, [Next]_vars
    PROVE  OneActivePerArea'
<1>1. CASE UNCHANGED vars
  BY <1>1 DEF vars, OneActivePerArea, ActiveRows
<1>2. ASSUME NEW h \in Handlers, Step(h), ~AssignInsert(h)
      PROVE  OneActivePerArea'
  BY <1>2, OnlyInsertAdds DEF RowsOnlyLeave, OneActivePerArea, ActiveRows, Stored
<1>3. ASSUME NEW h \in Handlers, AssignInsert(h)
      PROVE  OneActivePerArea'
  <2>1. CASE alloc' = alloc
    BY <2>1 DEF OneActivePerArea, ActiveRows
  <2>2. CASE alloc' # alloc
    BY <1>3, <2>2, InsertedRow
       DEF StateOK, OneActivePerArea, ActiveRows, AreaIsTaken
  <2> QED BY <2>1, <2>2
<1> QED BY <1>1, <1>2, <1>3 DEF Next, Step

\* However requests interleave, an area has at most one active allocation.
THEOREM OneActive == Spec => []OneActivePerArea
<1>1. StateOK /\ OneActivePerArea /\ [Next]_vars => OneActivePerArea'
  BY OneActiveNext
<1> QED BY <1>1, OneActiveInit, StateCorrect, PTL DEF Spec

-----------------------------------------------------------------------------
(* No stored allocation outlives its area or its deal or partner.                 *)

LEMMA DanglingInit == Init => NoDanglingAllocation
BY DEF Init, NoDanglingAllocation, Stored, NoRow

\* A written deal or partner does not become a deleted one.
LEMMA WriteKeepsTargets ==
    ASSUME StateOK, NEW h \in Handlers, NEW t \in Targets, WriteTarget(h, t),
           req[h].stage \in DealStages \cup PartnerStages \cup {None},
           NEW u \in Targets, stage[u] # Absent
    PROVE  stage'[u] # Absent
<1>1. Absent \notin DealStages \cup PartnerStages
  BY DEF Absent, DealStages, PartnerStages, ActiveDealStages, ActivePartnerStages
<1> QED BY <1>1 DEF WriteTarget, Supplied, StateOK

LEMMA DeleteTargetDangling ==
    ASSUME StateOK, NoDanglingAllocation, NEW h \in Handlers, NEW t \in Targets,
           DeleteTarget(h, t)
    PROVE  NoDanglingAllocation'
<1>1. CASE UNCHANGED <<stage, alloc>>
  BY <1>1 DEF DeleteTarget, NoDanglingAllocation, Stored
<1>2. CASE /\ ~StillReferenced(h, RowsOf(t))
           /\ stage' = [stage EXCEPT ![t] = Absent]
           /\ CommitDeletedRows(h)
  <2>1. RowsOnlyLeave
    BY <1>2, DeletedRowsLeave
  <2>2. \A i \in Rows : Stored(i)' => alloc[i].target # t
    BY <1>2, <2>1 DEF RowsOnlyLeave, StillReferenced, RowsOf, CommitDeletedRows,
       Stored, NoRow
  <2> QED BY <1>2, <2>1, <2>2
          DEF DeleteTarget, NoDanglingAllocation, RowsOnlyLeave, StateOK
<1> QED BY <1>1, <1>2 DEF DeleteTarget

LEMMA DanglingNext ==
    ASSUME StateOK, NoDanglingAllocation, [Next]_vars
    PROVE  NoDanglingAllocation'
<1>1. CASE UNCHANGED vars
  BY <1>1 DEF vars, NoDanglingAllocation, Stored
<1>2. ASSUME NEW h \in Handlers, AssignInsert(h)
      PROVE  NoDanglingAllocation'
  <2>1. CASE alloc' = alloc
    BY <1>2, <2>1 DEF AssignInsert, NoDanglingAllocation, Stored
  <2>2. CASE alloc' # alloc
    BY <1>2, <2>2, InsertedRow DEF AssignInsert, StateOK, NoDanglingAllocation, Stored
  <2> QED BY <2>1, <2>2
<1>3. ASSUME NEW h \in Handlers, Step(h), ~AssignInsert(h)
      PROVE  NoDanglingAllocation'
  <2>1. RowsOnlyLeave
    BY <1>3, OnlyInsertAdds
  <2>2. CASE DealWrite(h) \/ DealReleaseCommit(h) \/ PartnerWrite(h)
    <3>1. /\ req[h].target \in Targets
          /\ req[h].stage \in DealStages \cup PartnerStages \cup {None}
      BY <2>2 DEF DealWrite, DealReleaseCommit, PartnerWrite, StateOK, RequestOK, Targets
    <3>2. \A u \in Targets : stage[u] # Absent => stage'[u] # Absent
      BY <2>2, <3>1, WriteKeepsTargets DEF DealWrite, DealReleaseCommit, PartnerWrite
    <3>3. areas' = areas
      BY <2>2 DEF DealWrite, DealReleaseCommit, PartnerWrite
    <3> QED BY <2>1, <3>2, <3>3 DEF RowsOnlyLeave, NoDanglingAllocation
  <2>3. CASE DealDelete(h) \/ PartnerDelete(h)
    <3>1. req[h].target \in Targets
      BY <2>3 DEF DealDelete, PartnerDelete, StateOK, RequestOK, Targets
    <3> QED BY <2>3, <3>1, DeleteTargetDangling DEF DealDelete, PartnerDelete
  <2>4. CASE AreaDelete(h)
    <3>1. CASE UNCHANGED <<areas, alloc>>
      BY <2>4, <3>1 DEF AreaDelete, NoDanglingAllocation, Stored
    <3>2. CASE /\ ~StillReferenced(h, RowsOfArea(req[h].area))
               /\ areas' = areas \ {req[h].area}
               /\ CommitDeletedRows(h)
      <4>1. \A i \in Rows : Stored(i)' => alloc[i].area # req[h].area
        BY <2>1, <3>2 DEF RowsOnlyLeave, StillReferenced, RowsOfArea,
           CommitDeletedRows, Stored, NoRow
      <4> QED BY <2>1, <2>4, <3>2, <4>1
              DEF AreaDelete, NoDanglingAllocation, RowsOnlyLeave
    <3> QED BY <2>4, <3>1, <3>2 DEF AreaDelete
  <2>5. CASE UNCHANGED <<areas, stage>>
    BY <2>1, <2>5 DEF RowsOnlyLeave, NoDanglingAllocation
  <2> QED
    BY <1>3, <2>2, <2>3, <2>4, <2>5
       DEF Step, Arrive, Advance, DeadlockVictim, DatabaseError, AssignReadArea,
           AssignCheckTarget, ReleaseRead, ReleaseUpdate, DealUpdateRead,
           DealCheckAllocation, DealLock, DealRemoveRead, DealRemoveAllocations,
           PartnerUpdateRead, PartnerRemoveRead, PartnerRemoveAllocations,
           AreaRemoveRead, AreaRemoveAllocations, DeleteAllocations
<1> QED BY <1>1, <1>2, <1>3 DEF Next, Step

\* Removing areas, deals and partners never leaves an allocation behind.
THEOREM NoDangling == Spec => []NoDanglingAllocation
<1>1. StateOK /\ NoDanglingAllocation /\ [Next]_vars => NoDanglingAllocation'
  BY DanglingNext
<1> QED BY <1>1, DanglingInit, StateCorrect, PTL DEF Spec

-----------------------------------------------------------------------------
(* A step moves one request.                                                      *)

\* A statement answers its request, accepts one, or moves it to its next statement.
Moves(h) == \/ Respond(h)
            \/ \E r : Accept(h, r)
            \/ \E op \in {"assign_insert", "deal_write", "deal_release"} : Goto(h, op)
            \/ \E op \in {"deal_delete", "partner_delete", "area_delete"},
                  S \in SUBSET Rows : DeleteAllocations(h, S, op)

LEMMA StepMoves ==
    ASSUME NEW h \in Handlers, Step(h)
    PROVE  Moves(h)
<1>1. CASE Arrive(h)
  <2>1. \E r : Accept(h, r)
    BY <1>1 DEF Arrive, AssignReadArea, ReleaseRead, DealUpdateRead, DealRemoveRead,
       PartnerUpdateRead, PartnerRemoveRead, AreaRemoveRead
  <2> QED BY <2>1 DEF Moves
<1>2. CASE DealRemoveAllocations(h) \/ PartnerRemoveAllocations(h)
             \/ AreaRemoveAllocations(h)
  BY <1>2 DEF DealRemoveAllocations, PartnerRemoveAllocations, AreaRemoveAllocations,
     RowsOf, RowsOfArea, Moves
<1>3. CASE AssignCheckTarget(h) \/ DealCheckAllocation(h) \/ DealLock(h)
  BY <1>3 DEF AssignCheckTarget, DealCheckAllocation, DealLock, Moves
<1>4. CASE \/ AssignInsert(h) \/ ReleaseUpdate(h) \/ DealWrite(h)
           \/ DealReleaseCommit(h) \/ DealDelete(h) \/ PartnerWrite(h)
           \/ PartnerDelete(h) \/ AreaDelete(h) \/ DeadlockVictim(h) \/ DatabaseError(h)
  <2>1. Respond(h)
    BY <1>4 DEF AssignInsert, ReleaseUpdate, DealWrite, DealReleaseCommit, DealDelete,
       PartnerWrite, PartnerDelete, AreaDelete, DeleteTarget, DeadlockVictim,
       DatabaseError
  <2> QED BY <2>1 DEF Moves
<1> QED BY <1>1, <1>2, <1>3, <1>4 DEF Step, Advance

\* Other requests keep what they had in hand.
LEMMA OnlyOneRequestMoves ==
    ASSUME StateOK, NEW h \in Handlers, Step(h)
    PROVE  \A g \in Handlers \ {h} : req'[g] = req[g]
BY StepMoves DEF Moves, StateOK, Accept, Goto, Respond, DeleteAllocations

\* The statement a request waits for after its first read.
LEMMA ArrivalOps ==
    ASSUME StateOK, NEW h \in Handlers
    PROVE  /\ AssignReadArea(h) => req'[h].op = "assign_target"
           /\ ReleaseRead(h) => req'[h].op = "release_update"
           /\ DealUpdateRead(h) =>
                  req'[h].op \in {"deal_allocation_check", "deal_write", "deal_lock"}
           /\ DealRemoveRead(h) => req'[h].op = "deal_remove"
           /\ PartnerUpdateRead(h) => req'[h].op = "partner_write"
           /\ PartnerRemoveRead(h) => req'[h].op = "partner_remove"
           /\ AreaRemoveRead(h) => req'[h].op = "area_remove"
<1>1. ASSUME NEW r, Accept(h, r) PROVE req'[h] = r
  BY <1>1 DEF Accept, StateOK
<1>2. AssignReadArea(h) => req'[h].op = "assign_target"
  BY <1>1 DEF AssignReadArea, Idle
<1>3. ReleaseRead(h) => req'[h].op = "release_update"
  BY <1>1 DEF ReleaseRead, Idle
<1>4. ASSUME DealUpdateRead(h)
      PROVE  req'[h].op \in {"deal_allocation_check", "deal_write", "deal_lock"}
  <2>1. PICK d \in Deals, s \in DealStages \cup {None}, c \in MoveTo \cup {None},
             op \in {"deal_allocation_check", "deal_write", "deal_lock"} :
            Accept(h, [Idle EXCEPT !.op = op, !.target = d, !.stage = s, !.cycle = c])
    BY <1>4 DEF DealUpdateRead
  <2>2. [Idle EXCEPT !.op = op, !.target = d, !.stage = s, !.cycle = c].op = op
    BY DEF Idle
  <2> QED BY <1>1, <2>1, <2>2
<1>5. DealRemoveRead(h) => req'[h].op = "deal_remove"
  BY <1>1 DEF DealRemoveRead, Idle
<1>6. ASSUME PartnerUpdateRead(h) PROVE req'[h].op = "partner_write"
  <2>1. PICK p \in Partners, s \in PartnerStages \cup {None}, c \in MoveTo \cup {None} :
            Accept(h, [Idle EXCEPT !.op = "partner_write", !.target = p, !.stage = s, !.cycle = c])
    BY <1>6 DEF PartnerUpdateRead
  <2>2. [Idle EXCEPT !.op = "partner_write", !.target = p, !.stage = s, !.cycle = c].op = "partner_write"
    BY DEF Idle
  <2> QED BY <1>1, <2>1, <2>2
<1>7. PartnerRemoveRead(h) => req'[h].op = "partner_remove"
  BY <1>1 DEF PartnerRemoveRead, Idle
<1>8. AreaRemoveRead(h) => req'[h].op = "area_remove"
  BY <1>1 DEF AreaRemoveRead, Idle
<1> QED BY <1>2, <1>3, <1>4, <1>5, <1>6, <1>7, <1>8

\* Only an update of a deal may go straight from its read to its write.
LEMMA ArrivalsWriteNothing ==
    ASSUME StateOK, NEW h \in Handlers, Arrive(h), ~DealUpdateRead(h)
    PROVE  req'[h].op \notin {"deal_write", "assign_insert"}
BY ArrivalOps DEF Arrive

-----------------------------------------------------------------------------
(* The row locks of open transactions.                                            *)

LEMMA AcceptedHoldsNothing ==
    ASSUME StateOK, NEW h \in Handlers, Arrive(h)
    PROVE  req'[h].deleted = {} /\ req'[h].op # "deal_release"
<1>1. CASE AssignReadArea(h)
  <2>1. PICK a \in areas, t \in Targets :
            Accept(h, [Idle EXCEPT !.op = "assign_target", !.area = a, !.target = t])
    BY <1>1 DEF AssignReadArea
  <2>2. /\ [Idle EXCEPT !.op = "assign_target", !.area = a, !.target = t].deleted = {}
        /\ [Idle EXCEPT !.op = "assign_target", !.area = a, !.target = t].op # "deal_release"
    BY DEF Idle
  <2> QED BY <2>1, <2>2 DEF Accept, StateOK
<1>2. CASE ReleaseRead(h)
  <2>1. PICK i \in ActiveRows :
            Accept(h, [Idle EXCEPT !.op = "release_update", !.row = i])
    BY <1>2 DEF ReleaseRead
  <2>2. /\ [Idle EXCEPT !.op = "release_update", !.row = i].deleted = {}
        /\ [Idle EXCEPT !.op = "release_update", !.row = i].op # "deal_release"
    BY DEF Idle
  <2> QED BY <2>1, <2>2 DEF Accept, StateOK
<1>3. CASE DealUpdateRead(h)
  <2>1. PICK d \in Deals, s \in DealStages \cup {None}, c \in MoveTo \cup {None},
             op \in {"deal_allocation_check", "deal_write", "deal_lock"} :
            Accept(h, [Idle EXCEPT !.op = op, !.target = d, !.stage = s, !.cycle = c])
    BY <1>3 DEF DealUpdateRead
  <2>2. /\ [Idle EXCEPT !.op = op, !.target = d, !.stage = s, !.cycle = c].deleted = {}
        /\ [Idle EXCEPT !.op = op, !.target = d, !.stage = s, !.cycle = c].op # "deal_release"
    BY DEF Idle
  <2> QED BY <2>1, <2>2 DEF Accept, StateOK
<1>4. CASE DealRemoveRead(h)
  <2>1. PICK d \in Deals :
            Accept(h, [Idle EXCEPT !.op = "deal_remove", !.target = d])
    BY <1>4 DEF DealRemoveRead
  <2>2. /\ [Idle EXCEPT !.op = "deal_remove", !.target = d].deleted = {}
        /\ [Idle EXCEPT !.op = "deal_remove", !.target = d].op # "deal_release"
    BY DEF Idle
  <2> QED BY <2>1, <2>2 DEF Accept, StateOK
<1>5. CASE PartnerUpdateRead(h)
  <2>1. PICK p \in Partners, s \in PartnerStages \cup {None}, c \in MoveTo \cup {None} :
            Accept(h, [Idle EXCEPT !.op = "partner_write", !.target = p, !.stage = s, !.cycle = c])
    BY <1>5 DEF PartnerUpdateRead
  <2>2. /\ [Idle EXCEPT !.op = "partner_write", !.target = p, !.stage = s, !.cycle = c].deleted = {}
        /\ [Idle EXCEPT !.op = "partner_write", !.target = p, !.stage = s, !.cycle = c].op # "deal_release"
    BY DEF Idle
  <2> QED BY <2>1, <2>2 DEF Accept, StateOK
<1>6. CASE PartnerRemoveRead(h)
  <2>1. PICK p \in Partners :
            Accept(h, [Idle EXCEPT !.op = "partner_remove", !.target = p])
    BY <1>6 DEF PartnerRemoveRead
  <2>2. /\ [Idle EXCEPT !.op = "partner_remove", !.target = p].deleted = {}
        /\ [Idle EXCEPT !.op = "partner_remove", !.target = p].op # "deal_release"
    BY DEF Idle
  <2> QED BY <2>1, <2>2 DEF Accept, StateOK
<1>7. CASE AreaRemoveRead(h)
  <2>1. PICK a \in Areas :
            Accept(h, [Idle EXCEPT !.op = "area_remove", !.area = a])
    BY <1>7 DEF AreaRemoveRead
  <2>2. /\ [Idle EXCEPT !.op = "area_remove", !.area = a].deleted = {}
        /\ [Idle EXCEPT !.op = "area_remove", !.area = a].op # "deal_release"
    BY DEF Idle
  <2> QED BY <2>1, <2>2 DEF Accept, StateOK
<1> QED BY <1>1, <1>2, <1>3, <1>4, <1>5, <1>6, <1>7 DEF Arrive

\* A removal holds rows of its own area, deal or partner only.
DeletedBelong ==
    \A h \in Handlers : \A i \in req[h].deleted :
        /\ Stored(i)
        /\ req[h].op \in {"deal_delete", "partner_delete"} =>
               alloc[i].target = req[h].target
        /\ req[h].op = "area_delete" => alloc[i].area = req[h].area

RowsHeldOnce == \A g, h \in Handlers : g # h => req[g].deleted \cap req[h].deleted = {}

LockInv == DeletedBelong /\ RowsHeldOnce

LEMMA LockInit == Init => LockInv
BY DEF Init, LockInv, DeletedBelong, RowsHeldOnce, Idle

\* A row another transaction has deleted stays as it is but for its release.
LEMMA LockedRowsStay ==
    ASSUME StateOK, LockInv, NEW h \in Handlers, Step(h),
           NEW g \in Handlers \ {h}, NEW i \in req[g].deleted
    PROVE  Stored(i)' /\ alloc'[i].area = alloc[i].area
                      /\ alloc'[i].target = alloc[i].target
<1>0. i \in Rows /\ Stored(i) /\ i \notin req[h].deleted
  BY DEF StateOK, Request, LockInv, DeletedBelong, RowsHeldOnce
<1>1. CASE AssignInsert(h)
  <2>1. CASE alloc' = alloc
    BY <1>0, <2>1 DEF Stored
  <2>2. CASE alloc' # alloc
    BY <1>0, <1>1, <2>2, InsertedRow DEF StateOK, Stored
  <2> QED BY <2>1, <2>2
<1>2. CASE ReleaseUpdate(h)
  <2>1. req[h].row \in Rows
    BY <1>2 DEF ReleaseUpdate, StateOK, RequestOK
  <2> QED BY <1>0, <1>2, <2>1 DEF ReleaseUpdate, StateOK, AllocRow, Stored
<1>3. CASE DealReleaseCommit(h)
  <2>1. \/ alloc'[i] = alloc[i]
        \/ alloc'[i] = [alloc[i] EXCEPT !.status = "released"]
    BY <1>0, <1>3 DEF DealReleaseCommit
  <2>2. alloc[i] \in AllocRow
    BY <1>0 DEF StateOK
  <2> QED BY <1>0, <2>1, <2>2 DEF AllocRow, Stored
<1>4. CASE CommitDeletedRows(h)
  BY <1>0, <1>4 DEF CommitDeletedRows, Stored
<1>5. CASE alloc' = alloc
  BY <1>0, <1>5 DEF Stored
<1> QED
  BY <1>1, <1>2, <1>3, <1>4, <1>5
     DEF Step, Arrive, Advance, DeadlockVictim, DatabaseError, AssignReadArea,
         AssignCheckTarget, ReleaseRead, DealUpdateRead, DealCheckAllocation,
         DealWrite, DealLock, DealRemoveRead, DealRemoveAllocations, DealDelete,
         PartnerUpdateRead, PartnerWrite, PartnerRemoveRead,
         PartnerRemoveAllocations, PartnerDelete, AreaRemoveRead,
         AreaRemoveAllocations, AreaDelete, DeleteAllocations, DeleteTarget

LEMMA LockNext ==
    ASSUME StateOK, LockInv, [Next]_vars
    PROVE  LockInv'
<1>1. CASE UNCHANGED vars
  BY <1>1 DEF vars, LockInv, DeletedBelong, RowsHeldOnce, Stored
<1>2. ASSUME NEW h \in Handlers, Step(h)
      PROVE  LockInv'
  <2>1. \A g \in Handlers \ {h} : req'[g] = req[g]
    BY <1>2, OnlyOneRequestMoves
  <2>2. \A g \in Handlers \ {h} : \A i \in req[g].deleted :
            Stored(i)' /\ alloc'[i].area = alloc[i].area
                       /\ alloc'[i].target = alloc[i].target
    BY <1>2, LockedRowsStay
  <2>3. CASE req'[h].deleted = {}
    BY <2>1, <2>2, <2>3 DEF LockInv, DeletedBelong, RowsHeldOnce
  <2>4. CASE \/ DealRemoveAllocations(h) \/ PartnerRemoveAllocations(h)
             \/ AreaRemoveAllocations(h)
    <3>1. PICK op \in {"deal_delete", "partner_delete", "area_delete"}, S \in SUBSET Rows :
            /\ DeleteAllocations(h, S, op)
            /\ \A i \in S : Stored(i)
            /\ op \in {"deal_delete", "partner_delete"} =>
                   \A i \in S : alloc[i].target = req[h].target
            /\ op = "area_delete" => \A i \in S : alloc[i].area = req[h].area
      <4>1. CASE DealRemoveAllocations(h)
        <5> RowsOf(req[h].target) \in SUBSET Rows
          BY DEF RowsOf
        <5> WITNESS "deal_delete" \in {"deal_delete", "partner_delete", "area_delete"},
                    RowsOf(req[h].target) \in SUBSET Rows
        <5>1. \A i \in RowsOf(req[h].target) :
                  Stored(i) /\ alloc[i].target = req[h].target
          BY DEF RowsOf
        <5>2. DeleteAllocations(h, RowsOf(req[h].target), "deal_delete")
          BY <4>1 DEF DealRemoveAllocations
        <5> QED BY <5>1, <5>2
      <4>2. CASE PartnerRemoveAllocations(h)
        <5> RowsOf(req[h].target) \in SUBSET Rows
          BY DEF RowsOf
        <5> WITNESS "partner_delete" \in {"deal_delete", "partner_delete", "area_delete"},
                    RowsOf(req[h].target) \in SUBSET Rows
        <5>1. \A i \in RowsOf(req[h].target) :
                  Stored(i) /\ alloc[i].target = req[h].target
          BY DEF RowsOf
        <5>2. DeleteAllocations(h, RowsOf(req[h].target), "partner_delete")
          BY <4>2 DEF PartnerRemoveAllocations
        <5> QED BY <5>1, <5>2
      <4>3. CASE AreaRemoveAllocations(h)
        <5> RowsOfArea(req[h].area) \in SUBSET Rows
          BY DEF RowsOfArea
        <5> WITNESS "area_delete" \in {"deal_delete", "partner_delete", "area_delete"},
                    RowsOfArea(req[h].area) \in SUBSET Rows
        <5>1. \A i \in RowsOfArea(req[h].area) :
                  Stored(i) /\ alloc[i].area = req[h].area
          BY DEF RowsOfArea
        <5>2. DeleteAllocations(h, RowsOfArea(req[h].area), "area_delete")
          BY <4>3 DEF AreaRemoveAllocations
        <5> QED BY <5>1, <5>2
      <4> QED BY <2>4, <4>1, <4>2, <4>3
    <3>2. req'[h] = [req[h] EXCEPT !.op = op, !.deleted = S]
      BY <3>1 DEF DeleteAllocations, StateOK
    <3>3. req[h] \in Request
      BY DEF StateOK
    <3>4. /\ req'[h].op = op /\ req'[h].deleted = S
          /\ req'[h].target = req[h].target /\ req'[h].area = req[h].area
      BY <3>2, <3>3 DEF Request
    <3>5. \A g \in Handlers \ {h} : S \cap req[g].deleted = {}
      BY <3>1 DEF DeleteAllocations, RowsLocked
    <3>6. alloc' = alloc
      BY <3>1 DEF DeleteAllocations
    <3>7. DeletedBelong'
      BY <2>1, <2>2, <3>1, <3>4, <3>6 DEF LockInv, DeletedBelong, Stored
    <3>8. RowsHeldOnce'
      BY <2>1, <3>4, <3>5 DEF LockInv, RowsHeldOnce
    <3> QED BY <3>7, <3>8 DEF LockInv
  <2>5. CASE Respond(h)
    <3>1. req'[h].deleted = {}
      BY <2>5 DEF Respond, Idle, StateOK
    <3> QED BY <2>3, <3>1
  <2>6. CASE Arrive(h)
    BY <2>3, <2>6, AcceptedHoldsNothing
  <2>7. CASE AssignCheckTarget(h) \/ DealCheckAllocation(h) \/ DealLock(h)
    <3>1. req[h].deleted = {}
      BY <2>7 DEF AssignCheckTarget, DealCheckAllocation, DealLock, StateOK, RequestOK
    <3>2. CASE \E op : Goto(h, op)
      <4>1. req'[h].deleted = {}
        BY <3>1, <3>2 DEF Goto, StateOK, Request
      <4> QED BY <2>3, <4>1
    <3> QED BY <2>5, <2>7, <3>2 DEF AssignCheckTarget, DealCheckAllocation, DealLock
  <2> QED
    BY <1>2, <2>4, <2>5, <2>6, <2>7
       DEF Step, Advance, AssignInsert, ReleaseUpdate, DealWrite, DealReleaseCommit,
           DealDelete, PartnerWrite, PartnerDelete, AreaDelete, DeleteTarget,
           DeadlockVictim, DatabaseError
<1> QED BY <1>1, <1>2 DEF Next, Step

\* Rows an open transaction has deleted stay in place, and belong to it alone.
THEOREM DeletedRowsLocked == Spec => []DeletedRowsAreLocked
<1>1. StateOK /\ LockInv /\ [Next]_vars => LockInv'
  BY LockNext
<1>2. LockInv => DeletedRowsAreLocked
  BY DEF LockInv, DeletedBelong, RowsHeldOnce, DeletedRowsAreLocked, RowsLocked
<1> QED BY <1>1, <1>2, LockInit, StateCorrect, PTL DEF Spec

-----------------------------------------------------------------------------
(* Waits.  DeadlockVictim breaks pairs of transactions that wait for each other:  *)
(* here is why no other deadlock exists, however many requests are in flight.     *)

\* Every handler has its guard: what the next statement of h needs to run.
MayRun(h) ==
    LET t == req[h].target
    IN  CASE req[h].op = "assign_insert" ->
                 ~RowsLocked(h, {i \in ActiveRows : alloc[i].area = req[h].area})
          [] req[h].op = "release_update" -> ~RowsLocked(h, {req[h].row})
          [] req[h].op \in {"deal_write", "deal_lock", "deal_delete"} -> ~DealLocked(h, t)
          [] req[h].op = "deal_release" -> ~RowsLocked(h, ReleasedByDeal(t))
          [] req[h].op \in {"deal_remove", "partner_remove"} -> ~RowsLocked(h, RowsOf(t))
          [] req[h].op = "area_remove" -> ~RowsLocked(h, RowsOfArea(req[h].area))
          [] OTHER -> req[h].op # "idle"

\* The statement of h waits for a row the open transaction of g has written.
IsBehind(h, g) ==
    /\ g \in Handlers \ {h}
    /\ \/ /\ req[h].op = "assign_insert"
          /\ {i \in ActiveRows : alloc[i].area = req[h].area} \cap req[g].deleted # {}
       \/ req[h].op = "release_update" /\ req[h].row \in req[g].deleted
       \/ /\ req[h].op \in {"deal_write", "deal_lock"}
          /\ req[g].op = "deal_release" /\ req[g].target = req[h].target
       \/ /\ req[h].op \in {"deal_remove", "partner_remove"}
          /\ RowsOf(req[h].target) \cap req[g].deleted # {}
       \/ /\ req[h].op = "area_remove"
          /\ RowsOfArea(req[h].area) \cap req[g].deleted # {}
       \/ WaitsFor(h, g)

\* The requests h waits for, through however many others, and h.
Follows(C) == \A k \in C : {g \in Handlers : IsBehind(k, g)} \subseteq C
AheadOf(h) == {g \in Handlers : \A C \in SUBSET Handlers : h \in C /\ Follows(C) => g \in C}

\* The condition of DeadlockVictim.
Paired(h) == \E g \in Handlers \ {h} : WaitsFor(h, g) /\ WaitsFor(g, h)

\* Whoever is in the way of a request, one of those ahead of it (or itself) can run its
\* statement or is one of two that wait for each other.
SomeoneGoesOn ==
    \A h \in Handlers : req[h].op # "idle" =>
        \E g \in AheadOf(h) : req[g].op # "idle" /\ (MayRun(g) \/ Paired(g))

\* The row of a deal is locked by one transaction at a time.
DealRowHeldOnce ==
    \A g, h \in Handlers : g # h /\ req[g].op = "deal_release" /\ req[h].op = "deal_release"
                               => req[g].target # req[h].target

LEMMA DealRowInit == Init => DealRowHeldOnce
BY DEF Init, DealRowHeldOnce, Idle

LEMMA DealRowNext ==
    ASSUME StateOK, DealRowHeldOnce, [Next]_vars
    PROVE  DealRowHeldOnce'
<1>1. CASE UNCHANGED vars
  BY <1>1 DEF vars, DealRowHeldOnce
<1>2. ASSUME NEW h \in Handlers, Step(h)
      PROVE  DealRowHeldOnce'
  <2>1. \A g \in Handlers \ {h} : req'[g] = req[g]
    BY <1>2, OnlyOneRequestMoves
  <2>2. CASE DealLock(h)
    <3>1. CASE Respond(h)
      BY <2>1, <3>1 DEF Respond, Idle, StateOK, DealRowHeldOnce
    <3>2. CASE Goto(h, "deal_release")
      <4>1. req'[h].target = req[h].target
        BY <3>2 DEF Goto, StateOK, Request
      <4>2. \A g \in Handlers \ {h} : req[g].op = "deal_release" => req[g].target # req[h].target
        BY <2>2 DEF DealLock, DealLocked
      <4> QED BY <2>1, <4>1, <4>2 DEF DealRowHeldOnce
    <3> QED BY <2>2, <3>1, <3>2 DEF DealLock
  <2>3. CASE req'[h].op # "deal_release"
    BY <2>1, <2>3 DEF DealRowHeldOnce
  <2>4. CASE Arrive(h)
    BY <2>3, <2>4, AcceptedHoldsNothing
  <2>5. CASE Respond(h)
    <3>1. req'[h].op # "deal_release"
      BY <2>5 DEF Respond, Idle, StateOK
    <3> QED BY <2>3, <3>1
  <2>6. CASE AssignCheckTarget(h) \/ DealCheckAllocation(h)
    <3>1. Respond(h) \/ Goto(h, "assign_insert") \/ Goto(h, "deal_write")
      BY <2>6 DEF AssignCheckTarget, DealCheckAllocation
    <3>2. req'[h].op # "deal_release" \/ Respond(h)
      BY <3>1 DEF Goto, StateOK, Request
    <3> QED BY <2>3, <2>5, <3>2
  <2>7. CASE \/ DealRemoveAllocations(h) \/ PartnerRemoveAllocations(h)
             \/ AreaRemoveAllocations(h)
    <3>1. req'[h].op # "deal_release"
      BY <2>7 DEF DealRemoveAllocations, PartnerRemoveAllocations, AreaRemoveAllocations,
         DeleteAllocations, StateOK, Request
    <3> QED BY <2>3, <3>1
  <2> QED
    BY <1>2, <2>2, <2>4, <2>5, <2>6, <2>7
       DEF Step, Advance, AssignInsert, ReleaseUpdate, DealWrite, DealReleaseCommit,
           DealDelete, PartnerWrite, PartnerDelete, AreaDelete, DeleteTarget,
           DeadlockVictim, DatabaseError
<1> QED BY <1>1, <1>2 DEF Next, Step

\* A statement that cannot run is behind another request.
LEMMA WhoCannotRunIsBehind ==
    ASSUME StateOK, NEW h \in Handlers, req[h].op # "idle", ~MayRun(h)
    PROVE  \E g \in Handlers \ {h} : IsBehind(h, g)
<1>1. CASE req[h].op = "assign_insert"
  BY <1>1 DEF MayRun, RowsLocked, IsBehind
<1>2. CASE req[h].op = "release_update"
  BY <1>2 DEF MayRun, RowsLocked, IsBehind
<1>3. CASE req[h].op \in {"deal_write", "deal_lock"}
  BY <1>3 DEF MayRun, DealLocked, IsBehind
<1>4. CASE req[h].op \in {"deal_release", "deal_delete"}
  BY <1>4 DEF MayRun, RowsLocked, DealLocked, IsBehind, WaitsFor
<1>5. CASE req[h].op \in {"deal_remove", "partner_remove"}
  BY <1>5 DEF MayRun, RowsLocked, IsBehind
<1>6. CASE req[h].op = "area_remove"
  BY <1>6 DEF MayRun, RowsLocked, IsBehind
<1> QED BY <1>1, <1>2, <1>3, <1>4, <1>5, <1>6 DEF MayRun

LEMMA AheadIsClosed ==
    ASSUME NEW h \in Handlers
    PROVE  /\ h \in AheadOf(h) /\ AheadOf(h) \in SUBSET Handlers
           /\ \A k \in AheadOf(h) : \A g \in Handlers : IsBehind(k, g) => g \in AheadOf(h)
BY DEF AheadOf, Follows

\* Only the update of a deal with its release, and the removal of a deal, hold rows while
\* they wait; both wait for rows of the same deal.
LEMMA ReleaseIsSettled ==
    ASSUME StateOK, LockInv, DealRowHeldOnce, NEW h \in Handlers, req[h].op = "deal_release",
           ~MayRun(h)
    PROVE  \E g \in Handlers \ {h} :
               IsBehind(h, g) /\ req[g].op # "idle" /\ (MayRun(g) \/ WaitsFor(g, h))
<1>1. PICK g \in Handlers \ {h} : ReleasedByDeal(req[h].target) \cap req[g].deleted # {}
  BY DEF MayRun, RowsLocked
<1>2. PICK i \in req[g].deleted : alloc[i].target = req[h].target
  BY <1>1 DEF ReleasedByDeal
<1>3. IsBehind(h, g)
  BY <1>1 DEF IsBehind, WaitsFor
<1>4. req[g].op \in {"deal_delete", "partner_delete", "area_delete"}
  BY <1>2 DEF StateOK, RequestOK
<1>5. CASE req[g].op = "deal_delete"
  <2>1. req[g].target = req[h].target
    BY <1>2, <1>5 DEF LockInv, DeletedBelong
  <2>2. WaitsFor(g, h)
    BY <1>5, <2>1 DEF WaitsFor
  <2> QED BY <1>3, <1>5, <2>2
<1>6. CASE req[g].op \in {"partner_delete", "area_delete"}
  BY <1>3, <1>6 DEF MayRun
<1> QED BY <1>4, <1>5, <1>6

LEMMA WaitsLeadSomewhere ==
    ASSUME StateOK, LockInv, DealRowHeldOnce
    PROVE  SomeoneGoesOn
<1> SUFFICES ASSUME NEW h \in Handlers, req[h].op # "idle"
             PROVE  \E g \in AheadOf(h) : req[g].op # "idle" /\ (MayRun(g) \/ Paired(g))
  BY DEF SomeoneGoesOn
<1>1. h \in AheadOf(h) /\ AheadOf(h) \in SUBSET Handlers
  BY AheadIsClosed
<1>2. ASSUME NEW k \in AheadOf(h), req[k].op = "deal_release"
      PROVE  \E g \in AheadOf(h) : req[g].op # "idle" /\ (MayRun(g) \/ Paired(g))
  <2>1. k \in Handlers
    BY <1>1
  <2>2. CASE MayRun(k)
    BY <1>2, <2>2
  <2>3. CASE ~MayRun(k)
    <3>1. PICK g \in Handlers \ {k} :
              IsBehind(k, g) /\ req[g].op # "idle" /\ (MayRun(g) \/ WaitsFor(g, k))
      BY <1>2, <2>1, <2>3, ReleaseIsSettled
    <3>2. g \in AheadOf(h)
      BY <3>1, AheadIsClosed
    <3>3. WaitsFor(k, g)
      BY <1>2, <3>1 DEF IsBehind
    <3> QED BY <2>1, <3>1, <3>2, <3>3 DEF Paired
  <2> QED BY <2>2, <2>3
<1>3. ASSUME NEW k \in AheadOf(h), req[k].op = "deal_delete"
      PROVE  \E g \in AheadOf(h) : req[g].op # "idle" /\ (MayRun(g) \/ Paired(g))
  <2>1. CASE MayRun(k)
    BY <1>3, <2>1
  <2>2. CASE ~MayRun(k)
    <3>1. PICK g \in Handlers \ {k} : req[g].op = "deal_release" /\ req[g].target = req[k].target
      BY <1>3, <2>2 DEF MayRun, DealLocked
    <3>2. IsBehind(k, g)
      BY <1>3, <3>1 DEF IsBehind, WaitsFor
    <3> QED BY <1>2, <3>1, <3>2, AheadIsClosed
  <2> QED BY <2>1, <2>2
<1>4. CASE MayRun(h)
  BY <1>1, <1>4
<1>5. CASE ~MayRun(h)
  <2>1. PICK g \in Handlers \ {h} : IsBehind(h, g)
    BY <1>5, WhoCannotRunIsBehind
  <2>2. g \in AheadOf(h)
    BY <1>1, <2>1, AheadIsClosed
  <2>3. req[g].op \in {"deal_release", "deal_delete", "partner_delete", "area_delete"}
    <3>1. req[g].op = "deal_release" \/ req[g].deleted # {}
      BY <2>1 DEF IsBehind, WaitsFor
    <3> QED BY <3>1 DEF StateOK, RequestOK
  <2>4. CASE req[g].op \in {"partner_delete", "area_delete"}
    BY <2>2, <2>4 DEF MayRun
  <2> QED BY <1>2, <1>3, <2>2, <2>3, <2>4
<1> QED BY <1>4, <1>5

\* However many assignments, releases, updates and removals wait for each other's rows: of
\* those ahead of a request that waits one can run, or it is one of two transactions that
\* wait for each other, which the deadlock detector breaks.  There are no longer circles.
THEOREM DeadlocksArePairs == Spec => []SomeoneGoesOn
<1>1. StateOK /\ LockInv /\ [Next]_vars => LockInv'
  BY LockNext
<1>2. StateOK /\ DealRowHeldOnce /\ [Next]_vars => DealRowHeldOnce'
  BY DealRowNext
<1>3. StateOK /\ LockInv /\ DealRowHeldOnce => SomeoneGoesOn
  BY WaitsLeadSomewhere
<1> QED BY <1>1, <1>2, <1>3, LockInit, DealRowInit, StateCorrect, PTL DEF Spec

-----------------------------------------------------------------------------
\* The other half of an answer: a request has few statements to make, and makes each once.

\* How many statements a request has left to make, at most.
StatementsLeft(op) ==
    IF op = "idle" THEN 0
    ELSE IF op \in {"assign_target", "deal_allocation_check", "deal_lock", "deal_remove",
                    "partner_remove", "area_remove"} THEN 2
    ELSE 1

\* A statement brings its request closer to the answer, and no statement of another
\* request, no failure and no deadlock sends it back.
GoesForward ==
    \A h \in Handlers :
        /\ Advance(h) => StatementsLeft(req'[h].op) < StatementsLeft(req[h].op)
        /\ req[h].op # "idle" /\ req'[h].op # req[h].op =>
               StatementsLeft(req'[h].op) < StatementsLeft(req[h].op)

\* What a statement of h does to the step of h, and to the requests of the others.
LEMMA StatementGoesForward ==
    ASSUME StateOK, NEW h \in Handlers, Advance(h)
    PROVE  /\ StatementsLeft(req'[h].op) < StatementsLeft(req[h].op)
           /\ \A g \in Handlers \ {h} : req'[g] = req[g]
<1>1. req \in [Handlers -> Request] /\ Idle.op = "idle"
  BY DEF StateOK, Idle
<1>2. ASSUME Respond(h)
      PROVE  req'[h].op = "idle" /\ \A g \in Handlers \ {h} : req'[g] = req[g]
  BY <1>1, <1>2 DEF Respond
<1>3. ASSUME NEW op, Goto(h, op)
      PROVE  req'[h].op = op /\ \A g \in Handlers \ {h} : req'[g] = req[g]
  BY <1>1, <1>3 DEF Goto, Request
<1>4. ASSUME NEW op, NEW S, DeleteAllocations(h, S, op)
      PROVE  req'[h].op = op /\ \A g \in Handlers \ {h} : req'[g] = req[g]
  BY <1>1, <1>4 DEF DeleteAllocations, Request
<1>5. CASE \/ AssignInsert(h) \/ ReleaseUpdate(h) \/ DealWrite(h) \/ DealReleaseCommit(h)
           \/ DealDelete(h) \/ PartnerWrite(h) \/ PartnerDelete(h) \/ AreaDelete(h)
  BY <1>2, <1>5 DEF AssignInsert, ReleaseUpdate, DealWrite, DealReleaseCommit, DealDelete,
     PartnerWrite, PartnerDelete, AreaDelete, DeleteTarget, StatementsLeft
<1>6. CASE AssignCheckTarget(h) \/ DealCheckAllocation(h) \/ DealLock(h)
  BY <1>2, <1>3, <1>6 DEF AssignCheckTarget, DealCheckAllocation, DealLock, StatementsLeft
<1>7. CASE DealRemoveAllocations(h) \/ PartnerRemoveAllocations(h) \/ AreaRemoveAllocations(h)
  BY <1>4, <1>7 DEF DealRemoveAllocations, PartnerRemoveAllocations, AreaRemoveAllocations, StatementsLeft
<1> QED BY <1>5, <1>6, <1>7 DEF Advance

\* Every statement of a request, waits and failures included, brings it closer to its
\* answer: after its first read a request makes two statements at most.
THEOREM RequestsGoForward == Spec => [][GoesForward]_vars
<1>1. StateOK /\ [Next]_vars => [GoesForward]_vars
  <2> SUFFICES ASSUME StateOK, Next PROVE GoesForward
    OBVIOUS
  <2>1. req \in [Handlers -> Request] /\ Idle.op = "idle"
    BY DEF StateOK, Idle
  <2>2. PICK h \in Handlers : Arrive(h) \/ Advance(h) \/ DeadlockVictim(h) \/ DatabaseError(h)
    BY DEF Next
  <2>3. SUFFICES ASSUME NEW g \in Handlers, ~Advance(g), req[g].op # "idle", req'[g].op # req[g].op
                 PROVE  StatementsLeft(req'[g].op) < StatementsLeft(req[g].op)
    BY StatementGoesForward DEF GoesForward
  <2>4. CASE Advance(h)
    BY <2>3, <2>4, StatementGoesForward
  <2>5. CASE DeadlockVictim(h) \/ DatabaseError(h)
    <3>1. req' = [req EXCEPT ![h] = Idle]
      BY <2>5 DEF DeadlockVictim, DatabaseError, Respond
    <3>2. req'[g].op = "idle"
      BY <2>1, <2>3, <3>1
    <3> QED BY <2>3, <3>2 DEF StatementsLeft
  <2>6. CASE Arrive(h)
    <3>1. req[h].op = "idle" /\ \E r : req' = [req EXCEPT ![h] = r]
      BY <2>6 DEF Arrive, AssignReadArea, ReleaseRead, DealUpdateRead, DealRemoveRead,
         PartnerUpdateRead, PartnerRemoveRead, AreaRemoveRead, Accept
    <3> QED BY <2>1, <2>3, <3>1
  <2> QED BY <2>2, <2>4, <2>5, <2>6
<1> QED BY <1>1, StateCorrect, PTL DEF Spec

-----------------------------------------------------------------------------
(* The services implement AreaOccupancy.                                          *)

Safe == OneActivePerArea /\ NoDanglingAllocation /\ LockInv

\* What the map shows for an area, without the choice of a row.
LEMMA OccupantIs ==
    ASSUME StateOK, OneActivePerArea, NoDanglingAllocation, NEW a \in Areas
    PROVE  /\ a \notin areas => Occupant[a] = "gone"
           /\ a \in areas /\ ~AreaIsAssigned(a) => Occupant[a] = "free"
           /\ \A i \in ActiveRows : alloc[i].area = a => Occupant[a] = alloc[i].target
<1>1. ASSUME NEW i \in ActiveRows, alloc[i].area = a
      PROVE  Occupant[a] = alloc[i].target
  <2>1. a \in areas /\ AreaIsAssigned(a)
    BY <1>1 DEF NoDanglingAllocation, AreaIsAssigned, ActiveRows, Stored
  <2>2. i = CHOOSE j \in ActiveRows : alloc[j].area = a
    BY <1>1 DEF OneActivePerArea
  <2> QED BY <2>1, <2>2 DEF Occupant
<1> QED BY <1>1 DEF Occupant

LEMMA OccupantType == Occupant = [a \in Areas |-> Occupant[a]]
BY DEF Occupant

\* Equal tables show the same map.
LEMMA OccupantUnchanged ==
    ASSUME UNCHANGED <<areas, alloc>>
    PROVE  Occupant' = Occupant
BY DEF Occupant, AreaIsAssigned, ActiveRows

RemovalOps == {"area_remove", "area_delete"}

\* A request that is no removal, before and after its step, leaves the list alone.
LEMMA RetiringUnchanged ==
    ASSUME StateOK, NEW h \in Handlers, Step(h),
           req[h].op \notin RemovalOps, req'[h].op \notin RemovalOps
    PROVE  Retiring' = Retiring
BY OnlyOneRequestMoves DEF Retiring, RemovalOps

LEMMA StaysNoRemoval ==
    ASSUME StateOK, NEW h \in Handlers, Step(h), req[h].op \notin RemovalOps,
           ~AreaRemoveRead(h), ~AreaRemoveAllocations(h)
    PROVE  req'[h].op \notin RemovalOps
<1>1. CASE Arrive(h)
  BY <1>1, ArrivalOps DEF Arrive, RemovalOps
<1>2. CASE ~Arrive(h)
  <2>1. CASE Respond(h)
    BY <2>1 DEF Respond, Idle, StateOK, RemovalOps
  <2>2. ASSUME NEW op \in {"assign_insert", "deal_write", "deal_release"}, Goto(h, op)
        PROVE  req'[h].op \notin RemovalOps
    BY <2>2 DEF Goto, StateOK, Request, RemovalOps
  <2>3. CASE DealRemoveAllocations(h) \/ PartnerRemoveAllocations(h)
    BY <2>3 DEF DealRemoveAllocations, PartnerRemoveAllocations, DeleteAllocations,
       StateOK, Request, RemovalOps
  <2> QED BY <1>2, <2>1, <2>2, <2>3
          DEF Step, Advance, AssignCheckTarget, AssignInsert, ReleaseUpdate,
              DealCheckAllocation, DealWrite, DealLock, DealReleaseCommit, DealDelete,
              PartnerWrite, PartnerDelete, AreaDelete, DeleteTarget, DeadlockVictim,
              DatabaseError
<1> QED BY <1>1, <1>2

LEMMA NotARemoval ==
    ASSUME StateOK, NEW h \in Handlers, Step(h), req[h].op \notin RemovalOps,
           ~AreaRemoveRead(h), ~AreaRemoveAllocations(h)
    PROVE  Retiring' = Retiring
BY StaysNoRemoval, RetiringUnchanged

LEMMA RemovalGoesOn ==
    ASSUME NEW h \in Handlers, Step(h), req[h].op \in RemovalOps, ~AreaRemoveAllocations(h)
    PROVE  Respond(h)
BY DEF RemovalOps, Step, Arrive, Advance, DeadlockVictim, DatabaseError, AssignReadArea,
   Accept, AssignCheckTarget, AssignInsert, ReleaseRead, ReleaseUpdate, DealUpdateRead,
   DealCheckAllocation, DealWrite, DealLock, DealReleaseCommit, DealRemoveRead,
   DealRemoveAllocations, DealDelete, PartnerUpdateRead, PartnerWrite,
   PartnerRemoveRead, PartnerRemoveAllocations, PartnerDelete, AreaRemoveRead, AreaDelete

\* A removal that is answered takes its area off the list, or leaves it to another.
LEMMA RetiringAnswered ==
    ASSUME StateOK, NEW h \in Handlers, Step(h), Respond(h), req[h].op \in RemovalOps
    PROVE  /\ req[h].area \in Retiring
           /\ Retiring' \in {Retiring, Retiring \ {req[h].area}}
<1>1. req[h].area \in Areas
  BY DEF StateOK, RequestOK, RemovalOps
<1>2. req'[h].op = "idle" /\ \A g \in Handlers \ {h} : req'[g] = req[g]
  BY DEF Respond, StateOK, Idle
<1>3. req[h].area \in Retiring
  BY <1>1 DEF Retiring, RemovalOps
<1>4. \A a \in Areas \ {req[h].area} : a \in Retiring' <=> a \in Retiring
  BY <1>2 DEF Retiring
<1>5. Retiring \subseteq Areas /\ Retiring' \subseteq Areas
  BY DEF Retiring
<1> QED BY <1>3, <1>4, <1>5

\* Rows of one target that stop being active free exactly their areas.
LEMMA RowsVacate ==
    ASSUME StateOK, StateOK', Safe, Safe', NEW t, NEW S \in SUBSET ActiveRows,
           \A i \in S : alloc[i].target = t,
           areas' = areas,
           \A i \in Rows : alloc'[i].status = "active" <=> i \in ActiveRows \ S,
           \A i \in ActiveRows \ S : alloc'[i] = alloc[i],
           Retiring' = Retiring
    PROVE  Occupancy!Vacate(t, {alloc[i].area : i \in S})
<1> DEFINE F == {alloc[i].area : i \in S}
<1>1. \A a \in F : Occupant[a] = t
  <2> TAKE a \in F
  <2>1. PICK i \in S : alloc[i].area = a
    OBVIOUS
  <2>2. a \in Areas
    BY <2>1 DEF Safe, NoDanglingAllocation, StateOK, ActiveRows, Stored
  <2> QED BY <2>1, <2>2, OccupantIs DEF Safe
<1>2. ActiveRows' = ActiveRows \ S
  BY DEF ActiveRows
<1>3. ASSUME NEW a \in Areas
      PROVE  Occupant'[a] = IF a \in F THEN "free" ELSE Occupant[a]
  <2>1. CASE a \in F
    <3>1. PICK i \in S : alloc[i].area = a
      BY <2>1
    <3>2. a \in areas
      BY <3>1 DEF Safe, NoDanglingAllocation, ActiveRows, Stored
    <3>3. \A j \in ActiveRows \ S : alloc[j].area # a
      BY <3>1 DEF Safe, OneActivePerArea
    <3>4. ~AreaIsAssigned(a)'
      BY <1>2, <3>3 DEF AreaIsAssigned
    <3> QED BY <2>1, <3>2, <3>4 DEF Occupant
  <2>2. CASE a \notin F
    <3>1. \A i \in ActiveRows : alloc[i].area = a => i \notin S
      BY <2>2
    <3>2. CASE \E i \in ActiveRows : alloc[i].area = a
      <4>1. PICK i \in ActiveRows : alloc[i].area = a
        BY <3>2
      <4>2. i \in ActiveRows' /\ alloc'[i] = alloc[i]
        BY <1>2, <3>1, <4>1
      <4>3. Occupant[a] = alloc[i].target
        BY <4>1, OccupantIs DEF Safe
      <4>4. a \in areas
        BY <4>1 DEF Safe, NoDanglingAllocation, ActiveRows, Stored
      <4>5. i = CHOOSE j \in ActiveRows' : alloc'[j].area = a
        BY <4>1, <4>2 DEF Safe, OneActivePerArea
      <4>6. Occupant'[a] = alloc'[i].target
        BY <4>1, <4>2, <4>4, <4>5 DEF Occupant, AreaIsAssigned
      <4> QED BY <2>2, <4>2, <4>3, <4>6
    <3>3. CASE ~\E i \in ActiveRows : alloc[i].area = a
      <4>1. ~AreaIsAssigned(a) /\ ~AreaIsAssigned(a)'
        BY <1>2, <3>3 DEF AreaIsAssigned
      <4> QED BY <2>2, <4>1 DEF Occupant
    <3> QED BY <3>2, <3>3
  <2> QED BY <2>1, <2>2
<1>4. Occupant' = [a \in Areas |-> Occupant'[a]]
  BY DEF Occupant
<1>5. Occupant' = [a \in Areas |-> IF a \in F THEN "free" ELSE Occupant[a]]
  BY <1>3, <1>4
<1> QED BY <1>1, <1>5 DEF Occupancy!Vacate

AbstractStep == Occupancy!Next \/ UNCHANGED <<Occupant, Retiring>>

\* A step that frees rows of one target is a Vacate, or frees nothing.
LEMMA VacateIsStep ==
    ASSUME StateOK, StateOK', Safe, Safe', NEW t \in Targets, NEW S \in SUBSET ActiveRows,
           \A i \in S : alloc[i].target = t,
           areas' = areas,
           \A i \in Rows : alloc'[i].status = "active" <=> i \in ActiveRows \ S,
           \A i \in ActiveRows \ S : alloc'[i] = alloc[i],
           Retiring' = Retiring
    PROVE  AbstractStep
<1>1. Occupancy!Vacate(t, {alloc[i].area : i \in S})
  BY RowsVacate
<1>2. {alloc[i].area : i \in S} \in SUBSET Areas
  BY DEF Safe, NoDanglingAllocation, StateOK, ActiveRows, Stored
<1> QED BY <1>1, <1>2 DEF AbstractStep, Occupancy!Next

LEMMA InsertOccupies ==
    ASSUME StateOK, StateOK', Safe, Safe', NEW h \in Handlers, AssignInsert(h),
           alloc' # alloc, Retiring' = Retiring
    PROVE  AbstractStep
<1> DEFINE a == req[h].area
           t == req[h].target
<1>1. /\ a \in areas /\ a \in Areas /\ t \in Targets /\ ~AreaIsAssigned(a)
      /\ areas' = areas
  BY InsertedRow DEF AreaIsTaken, AreaIsAssigned, StateOK, AssignInsert
<1>2. PICK i \in Rows :
        /\ alloc[i].status = "unused"
        /\ alloc' = [alloc EXCEPT ![i] = [status |-> "active", area |-> a, target |-> t]]
  BY InsertedRow
<1>3. /\ alloc'[i].status = "active" /\ alloc'[i].area = a /\ alloc'[i].target = t
      /\ \A j \in Rows \ {i} : alloc'[j] = alloc[j]
  BY <1>2 DEF StateOK
<1>4. ActiveRows' = ActiveRows \cup {i}
  BY <1>2, <1>3 DEF ActiveRows
<1>5. Occupant[a] = "free"
  BY <1>1, OccupantIs DEF Safe
<1>6. Occupant'[a] = t
  <2>1. i = CHOOSE j \in ActiveRows' : alloc'[j].area = a
    BY <1>3, <1>4 DEF Safe, OneActivePerArea
  <2> QED BY <1>1, <1>3, <1>4, <2>1 DEF Occupant, AreaIsAssigned
<1>7. ASSUME NEW b \in Areas \ {a}
      PROVE  Occupant'[b] = Occupant[b]
  <2>1. CASE \E j \in ActiveRows : alloc[j].area = b
    <3>1. PICK j \in ActiveRows : alloc[j].area = b
      BY <2>1
    <3>2. j # i /\ j \in ActiveRows' /\ alloc'[j] = alloc[j]
      BY <1>2, <1>3, <1>4, <3>1 DEF ActiveRows
    <3>3. j = CHOOSE k \in ActiveRows' : alloc'[k].area = b
      BY <3>1, <3>2 DEF Safe, OneActivePerArea
    <3>4. b \in areas
      BY <3>1 DEF Safe, NoDanglingAllocation, ActiveRows, Stored
    <3>5. Occupant'[b] = alloc'[j].target
      BY <1>1, <3>1, <3>2, <3>3, <3>4 DEF Occupant, AreaIsAssigned
    <3>6. Occupant[b] = alloc[j].target
      BY <3>1, OccupantIs DEF Safe
    <3> QED BY <3>2, <3>5, <3>6
  <2>2. CASE ~\E j \in ActiveRows : alloc[j].area = b
    <3>1. ~AreaIsAssigned(b) /\ ~AreaIsAssigned(b)'
      BY <1>2, <1>3, <1>4, <2>2 DEF AreaIsAssigned, ActiveRows
    <3> QED BY <1>1, <3>1 DEF Occupant
  <2> QED BY <2>1, <2>2
<1>8. Occupant' = [Occupant EXCEPT ![a] = t]
  <2>1. Occupant' = [b \in Areas |-> Occupant'[b]]
    BY DEF Occupant
  <2>2. Occupant = [b \in Areas |-> Occupant[b]]
    BY OccupantType
  <2> HIDE DEF a
  <2> QED BY <1>1, <1>6, <1>7, <2>1, <2>2
<1>9. Occupancy!Occupy(a, t)
  BY <1>5, <1>8 DEF Occupancy!Occupy
<1> QED BY <1>1, <1>9 DEF AbstractStep, Occupancy!Next

LEMMA DeleteTargetVacates ==
    ASSUME StateOK, StateOK', Safe, Safe', NEW h \in Handlers, NEW t \in Targets,
           req[h].target = t, req[h].op \in {"deal_delete", "partner_delete"},
           DeleteTarget(h, t), Retiring' = Retiring
    PROVE  AbstractStep
<1>1. CASE alloc' = alloc
  BY <1>1, OccupantUnchanged DEF DeleteTarget, AbstractStep
<1>2. CASE CommitDeletedRows(h)
  <2> DEFINE S == {i \in ActiveRows : i \in req[h].deleted}
  <2>1. \A i \in S : alloc[i].target = t
    BY DEF Safe, LockInv, DeletedBelong
  <2>2. \A i \in Rows : alloc'[i].status = "active" <=> i \in ActiveRows \ S
    BY <1>2 DEF CommitDeletedRows, NoRow, ActiveRows
  <2>3. \A i \in ActiveRows \ S : alloc'[i] = alloc[i]
    BY <1>2 DEF CommitDeletedRows, ActiveRows
  <2>4. areas' = areas
    BY DEF DeleteTarget
  <2>5. S \in SUBSET ActiveRows
    OBVIOUS
  <2> HIDE DEF S
  <2> QED BY <2>1, <2>2, <2>3, <2>4, <2>5, VacateIsStep
<1> QED BY <1>1, <1>2 DEF DeleteTarget

LEMMA AreaDeleteRetires ==
    ASSUME StateOK, StateOK', Safe, Safe', NEW h \in Handlers, AreaDelete(h),
           req[h].area \in areas, areas' = areas \ {req[h].area}, CommitDeletedRows(h)
    PROVE  AbstractStep
<1> DEFINE a == req[h].area
<1>1. a \in Areas /\ req[h].op = "area_delete"
  BY DEF AreaDelete, StateOK, RequestOK
<1>2. \A i \in req[h].deleted : alloc[i].area = a
  BY <1>1 DEF Safe, LockInv, DeletedBelong
<1>3. Occupant'[a] = "gone"
  BY <1>1 DEF Occupant
<1>4. ASSUME NEW b \in Areas \ {a}
      PROVE  Occupant'[b] = Occupant[b]
  <2>1. \A i \in Rows : alloc[i].area = b => i \notin req[h].deleted
    BY <1>2
  <2>2. CASE \E j \in ActiveRows : alloc[j].area = b
    <3>1. PICK j \in ActiveRows : alloc[j].area = b
      BY <2>2
    <3>2. j \in ActiveRows' /\ alloc'[j] = alloc[j]
      BY <2>1, <3>1 DEF CommitDeletedRows, ActiveRows
    <3>3. j = CHOOSE k \in ActiveRows' : alloc'[k].area = b
      BY <3>1, <3>2 DEF Safe, OneActivePerArea
    <3>4. b \in areas'
      BY <3>1 DEF Safe, NoDanglingAllocation, ActiveRows, Stored
    <3>5. Occupant'[b] = alloc'[j].target
      BY <3>1, <3>2, <3>3, <3>4 DEF Occupant, AreaIsAssigned
    <3>6. Occupant[b] = alloc[j].target
      BY <3>1, OccupantIs DEF Safe
    <3> QED BY <3>2, <3>5, <3>6
  <2>3. CASE ~\E j \in ActiveRows : alloc[j].area = b
    <3>1. \A k \in ActiveRows' : k \in ActiveRows /\ alloc'[k] = alloc[k]
      BY DEF CommitDeletedRows, ActiveRows, NoRow
    <3>2. ~AreaIsAssigned(b) /\ ~AreaIsAssigned(b)'
      BY <2>3, <3>1 DEF AreaIsAssigned
    <3> QED BY <1>1, <3>2 DEF Occupant
  <2> QED BY <2>2, <2>3
<1>5. Occupant' = [Occupant EXCEPT ![a] = "gone"]
  <2>1. Occupant' = [b \in Areas |-> Occupant'[b]]
    BY DEF Occupant
  <2>2. Occupant = [b \in Areas |-> Occupant[b]]
    BY OccupantType
  <2> HIDE DEF a
  <2> QED BY <1>1, <1>3, <1>4, <2>1, <2>2
<1>6. a \in Retiring /\ Retiring' \in {Retiring, Retiring \ {a}}
  <2>1. Respond(h)
    BY DEF AreaDelete
  <2> QED BY <1>1, <2>1, RetiringAnswered DEF RemovalOps, Step, Advance
<1>7. Occupancy!Delete(a)
  BY <1>5, <1>6 DEF Occupancy!Delete
<1>8. Occupant[a] = "free" \/ Occupant[a] \in Targets
  <2>1. a \in areas
    OBVIOUS
  <2>2. \A i \in ActiveRows : alloc[i].target \in Targets
    BY DEF Safe, NoDanglingAllocation, ActiveRows, Stored
  <2> QED BY <1>1, <2>1, <2>2, OccupantIs DEF Safe, AreaIsAssigned
<1> HIDE DEF a
<1> QED BY <1>1, <1>7, <1>8
        DEF AbstractStep, Occupancy!Next, Occupancy!Retire, Occupancy!Evict

LEMMA ReleaseVacates ==
    ASSUME StateOK, StateOK', Safe, Safe', NEW h \in Handlers,
           ReleaseUpdate(h) \/ DealReleaseCommit(h), Retiring' = Retiring
    PROVE  AbstractStep
<1>1. CASE ReleaseUpdate(h)
  <2> DEFINE i == req[h].row
  <2>1. i \in Rows /\ areas' = areas
    BY <1>1 DEF ReleaseUpdate, StateOK, RequestOK
  <2>2. CASE i \in ActiveRows
    <3>1. alloc' = [alloc EXCEPT ![i].status = "released"]
      BY <1>1, <2>2 DEF ReleaseUpdate, ActiveRows, Stored
    <3>2. alloc[i] \in AllocRow /\ alloc'[i].status = "released"
      BY <2>1, <3>1 DEF StateOK, AllocRow
    <3>3. \A j \in Rows : alloc'[j].status = "active" <=> j \in ActiveRows \ {i}
      BY <2>1, <3>1, <3>2 DEF StateOK, ActiveRows
    <3>4. \A j \in ActiveRows \ {i} : alloc'[j] = alloc[j]
      BY <3>1 DEF StateOK, ActiveRows
    <3>5. alloc[i].target \in Targets
      BY <2>2 DEF Safe, NoDanglingAllocation, ActiveRows, Stored
    <3> HIDE DEF i
    <3>6. \A j \in {i} : alloc[j].target = alloc[i].target
      OBVIOUS
    <3>7. {i} \in SUBSET ActiveRows
      BY <2>2
    <3> QED BY <2>1, <3>3, <3>4, <3>5, <3>6, <3>7, VacateIsStep
  <2>3. CASE i \notin ActiveRows
    <3>1. \A j \in Rows : /\ alloc'[j].status = "active" <=> alloc[j].status = "active"
                          /\ alloc'[j].area = alloc[j].area
                          /\ alloc'[j].target = alloc[j].target
      BY <1>1, <2>1, <2>3 DEF ReleaseUpdate, StateOK, AllocRow, ActiveRows, Stored
    <3>2. ActiveRows' = ActiveRows
      BY <3>1 DEF ActiveRows
    <3>3. ASSUME NEW a \in Areas PROVE Occupant'[a] = Occupant[a]
      <4>1. CASE \E j \in ActiveRows : alloc[j].area = a
        <5>1. PICK j \in ActiveRows : alloc[j].area = a
          BY <4>1
        <5>2. j \in ActiveRows' /\ alloc'[j].area = a /\ alloc'[j].target = alloc[j].target
          BY <3>1, <3>2, <5>1 DEF ActiveRows
        <5>3. j = CHOOSE k \in ActiveRows' : alloc'[k].area = a
          BY <5>2 DEF Safe, OneActivePerArea
        <5>4. a \in areas'
          BY <2>1, <5>1 DEF Safe, NoDanglingAllocation, ActiveRows, Stored
        <5>5. Occupant'[a] = alloc'[j].target
          BY <5>2, <5>3, <5>4 DEF Occupant, AreaIsAssigned
        <5>6. Occupant[a] = alloc[j].target
          BY <5>1, OccupantIs DEF Safe
        <5> QED BY <5>2, <5>5, <5>6
      <4>2. CASE ~\E j \in ActiveRows : alloc[j].area = a
        <5>1. ~AreaIsAssigned(a) /\ ~AreaIsAssigned(a)'
          BY <3>1, <3>2, <4>2 DEF AreaIsAssigned, ActiveRows
        <5> QED BY <2>1, <5>1 DEF Occupant
      <4> QED BY <4>1, <4>2
    <3>4. Occupant' = Occupant
      <4>1. Occupant' = [b \in Areas |-> Occupant'[b]]
        BY DEF Occupant
      <4> QED BY <3>3, <4>1 DEF Occupant
    <3> QED BY <3>4 DEF AbstractStep
  <2> QED BY <2>2, <2>3
<1>2. CASE DealReleaseCommit(h)
  <2> DEFINE S == ReleasedByDeal(req[h].target)
  <2>1. req[h].target \in Targets /\ areas' = areas
    BY <1>2 DEF DealReleaseCommit, StateOK, RequestOK, Targets
  <2>2. S \in SUBSET ActiveRows /\ \A i \in S : alloc[i].target = req[h].target
    BY DEF ReleasedByDeal
  <2>3. alloc' = [i \in Rows |-> IF i \in S THEN [alloc[i] EXCEPT !.status = "released"]
                                           ELSE alloc[i]]
    BY <1>2 DEF DealReleaseCommit
  <2> HIDE DEF S
  <2>4. \A i \in S : alloc'[i].status = "released"
    BY <2>2, <2>3 DEF StateOK, AllocRow, ActiveRows
  <2>5. \A i \in Rows \ S : alloc'[i] = alloc[i]
    BY <2>3
  <2>6. \A i \in Rows : alloc'[i].status = "active" <=> i \in ActiveRows \ S
    BY <2>2, <2>4, <2>5 DEF ActiveRows
  <2>7. \A i \in ActiveRows \ S : alloc'[i] = alloc[i]
    BY <2>5 DEF ActiveRows
  <2> QED BY <2>1, <2>2, <2>6, <2>7, VacateIsStep
<1> QED BY <1>1, <1>2

\* A step that leaves the tables alone may accept or answer a removal.
LEMMA QuietStep ==
    ASSUME StateOK, StateOK', Safe, Safe', NEW h \in Handlers, Step(h),
           UNCHANGED <<areas, alloc>>
    PROVE  AbstractStep
<1>1. Occupant' = Occupant
  BY OccupantUnchanged
<1>2. CASE AreaRemoveRead(h)
  <2>1. PICK a \in Areas : /\ AreaMayBeRemoved(a)
                           /\ Accept(h, [Idle EXCEPT !.op = "area_remove", !.area = a])
    BY <1>2 DEF AreaRemoveRead
  <2>2. /\ req[h].op = "idle" /\ req'[h].op = "area_remove" /\ req'[h].area = a
        /\ \A g \in Handlers \ {h} : req'[g] = req[g]
    BY <2>1 DEF Accept, Idle, StateOK
  <2>3. Retiring' = Retiring \cup {a}
    BY <2>1, <2>2 DEF Retiring
  <2>4. Occupant[a] = "free"
    BY <2>1, OccupantIs DEF AreaMayBeRemoved, Safe
  <2>5. Occupancy!Announce(a)
    BY <1>1, <2>3, <2>4 DEF Occupancy!Announce
  <2> QED BY <2>1, <2>5 DEF AbstractStep, Occupancy!Next
<1>3. CASE AreaRemoveAllocations(h)
  <2>1. /\ req[h].op = "area_remove" /\ req'[h].op = "area_delete"
        /\ req'[h].area = req[h].area /\ \A g \in Handlers \ {h} : req'[g] = req[g]
    BY <1>3 DEF AreaRemoveAllocations, DeleteAllocations, StateOK, Request
  <2>2. Retiring' = Retiring
    BY <2>1 DEF Retiring
  <2> QED BY <1>1, <2>2 DEF AbstractStep
<1>4. CASE Respond(h) /\ req[h].op \in RemovalOps
  <2>1. req[h].area \in Areas
    BY <1>4 DEF StateOK, RequestOK, RemovalOps
  <2>2. Retiring' \in {Retiring, Retiring \ {req[h].area}}
    BY <1>4, RetiringAnswered
  <2>3. Occupancy!Withdraw(req[h].area) \/ Retiring' = Retiring
    BY <1>1, <2>2 DEF Occupancy!Withdraw
  <2> QED BY <1>1, <2>1, <2>3 DEF AbstractStep, Occupancy!Next
<1>5. CASE ~AreaRemoveRead(h) /\ ~AreaRemoveAllocations(h) /\ req[h].op \notin RemovalOps
  <2>1. Retiring' = Retiring
    BY <1>5, NotARemoval
  <2> QED BY <1>1, <2>1 DEF AbstractStep
<1> QED BY <1>2, <1>3, <1>4, <1>5, RemovalGoesOn

LEMMA StepRefines ==
    ASSUME StateOK, StateOK', Safe, Safe', [Next]_vars
    PROVE  AbstractStep
<1>1. CASE UNCHANGED vars
  BY <1>1, OccupantUnchanged DEF vars, AbstractStep, Retiring
<1>2. ASSUME NEW h \in Handlers, Step(h)
      PROVE  AbstractStep
  <2>1. CASE UNCHANGED <<areas, alloc>>
    BY <1>2, <2>1, QuietStep
  <2>2. CASE AssignInsert(h) /\ alloc' # alloc
    <3>1. Retiring' = Retiring
      BY <1>2, <2>2, NotARemoval DEF AssignInsert, RemovalOps, AreaRemoveRead,
         AreaRemoveAllocations, Accept
    <3> QED BY <2>2, <3>1, InsertOccupies
  <2>3. CASE DealDelete(h) \/ PartnerDelete(h)
    <3>1. req[h].target \in Targets
      BY <2>3 DEF DealDelete, PartnerDelete, StateOK, RequestOK, Targets
    <3>2. Retiring' = Retiring
      BY <1>2, <2>3, NotARemoval DEF DealDelete, PartnerDelete, RemovalOps,
         AreaRemoveRead, AreaRemoveAllocations, Accept
    <3> QED BY <2>3, <3>1, <3>2, DeleteTargetVacates DEF DealDelete, PartnerDelete
  <2>4. CASE AreaDelete(h) /\ ~UNCHANGED <<areas, alloc>>
    BY <2>4, AreaDeleteRetires DEF AreaDelete
  <2>5. CASE ReleaseUpdate(h) \/ DealReleaseCommit(h)
    <3>1. Retiring' = Retiring
      BY <1>2, <2>5, NotARemoval DEF ReleaseUpdate, DealReleaseCommit, RemovalOps,
         AreaRemoveRead, AreaRemoveAllocations, Accept
    <3> QED BY <2>5, <3>1, ReleaseVacates
  <2> QED
    BY <1>2, <2>1, <2>2, <2>3, <2>4, <2>5
       DEF Step, Arrive, Advance, DeadlockVictim, DatabaseError, AssignReadArea,
           AssignCheckTarget, AssignInsert, ReleaseRead, DealUpdateRead,
           DealCheckAllocation, DealWrite, DealLock, DealRemoveRead,
           DealRemoveAllocations, PartnerUpdateRead, PartnerWrite,
           PartnerRemoveRead, PartnerRemoveAllocations, AreaRemoveRead,
           AreaRemoveAllocations, DeleteAllocations
<1> QED BY <1>1, <1>2 DEF Next, Step

LEMMA InitRefines == Init => Occupancy!Init
BY DEF Init, Occupancy!Init, Occupant, Retiring, AreaIsAssigned, ActiveRows, NoRow, Idle

\* The handlers implement AreaOccupancy: an area changes hands only by way of free, a
\* step frees areas of one holder only, a removal starts on a free area, and a deleted
\* area never comes back.
THEOREM Implements == Spec => ImplementsOccupancy
<1>1. StateOK /\ LockInv /\ [Next]_vars => LockInv'
  BY LockNext
<1>2. Spec => []LockInv
  BY <1>1, LockInit, StateCorrect, PTL DEF Spec
<1>3. Spec => []Safe
  BY <1>2, OneActive, NoDangling, PTL DEF Safe
<1>4. StateOK /\ StateOK' /\ Safe /\ Safe' /\ [Next]_vars 
          => [Occupancy!Next]_<<Occupant, Retiring>>
  BY StepRefines DEF AbstractStep
<1> QED BY <1>3, <1>4, InitRefines, StateCorrect, PTL
        DEF Spec, ImplementsOccupancy, Occupancy!Spec

\* No interleaving of assignments, releases and removals breaks the table of allocations.
THEOREM Sound == Spec => []AllocationsAreSound
BY OneActive, NoDangling, DeletedRowsLocked, PTL DEF AllocationsAreSound

-----------------------------------------------------------------------------
(* What a request has checked still holds when it writes, unless it was           *)
(* overtaken.                                                                     *)

Knows ==
    \A h \in Handlers \ overtaken :
        /\ req[h].op = "assign_insert" =>
               /\ cycle[req[h].target] = PlanCycle[req[h].area]
               /\ stage[req[h].target] # "LOST"
        /\ req[h].op = "deal_write" /\ req[h].stage = "WON" =>
               stage[req[h].target] = "WON" \/ DealHasActiveAllocation(req[h].target)
        /\ req[h].op = "area_remove" => ~AreaIsAssigned(req[h].area)
        /\ req[h].op = "area_delete" => req[h].deleted \cap ActiveRows = {}

LEMMA KnowsInit == Init => Knows
BY DEF Init, Knows, Idle

LEMMA WriteIsPrepared ==
    ASSUME StateOK, NEW h \in Handlers, Step(h),
           req'[h].op \in {"deal_write", "assign_insert"}
    PROVE  DealUpdateRead(h) \/ DealCheckAllocation(h) \/ AssignCheckTarget(h)
<1>1. CASE Arrive(h)
  BY <1>1, ArrivalsWriteNothing
<1>2. CASE ~Arrive(h)
  <2>1. ~Respond(h)
    BY DEF Respond, Idle, StateOK
  <2>2. ~Goto(h, "deal_release")
    BY DEF Goto, StateOK, Request
  <2>3. ASSUME NEW op \in {"deal_delete", "partner_delete", "area_delete"},
               NEW S, DeleteAllocations(h, S, op)
        PROVE  FALSE
    BY <2>3 DEF DeleteAllocations, StateOK, Request
  <2> QED BY <1>2, <2>1, <2>2, <2>3
          DEF Step, Advance, AssignInsert, ReleaseUpdate, DealWrite, DealLock,
              DealReleaseCommit, DealRemoveAllocations, DealDelete, PartnerWrite,
              PartnerRemoveAllocations, PartnerDelete, AreaRemoveAllocations, AreaDelete,
              DeleteTarget, DeadlockVictim, DatabaseError
<1> QED BY <1>1, <1>2

\* A row that stays active keeps its area and its target; one that becomes active was
\* never stored before.
LEMMA KeptRows ==
    ASSUME StateOK, NEW h \in Handlers, Step(h)
    PROVE  /\ \A i \in ActiveRows \cap ActiveRows' :
                  alloc'[i].area = alloc[i].area /\ alloc'[i].target = alloc[i].target
           /\ \A i \in ActiveRows' \ ActiveRows : ~Stored(i)
<1>1. CASE ~AssignInsert(h)
  BY <1>1, OnlyInsertAdds DEF RowsOnlyLeave, ActiveRows, Stored
<1>2. CASE AssignInsert(h)
  <2>1. CASE alloc' = alloc
    BY <2>1 DEF ActiveRows
  <2>2. CASE alloc' # alloc
    BY <1>2, <2>2, InsertedRow DEF StateOK, ActiveRows, Stored
  <2> QED BY <2>1, <2>2
<1> QED BY <1>1, <1>2

\* The requests a step does not move, as long as it does not overtake them.
LEMMA OthersKnow ==
    ASSUME StateOK, LockInv, Knows, NEW h \in Handlers, Step(h), Observe(h),
           NEW g \in Handlers \ overtaken', g # h
    PROVE  /\ req'[g].op = "assign_insert" =>
                  /\ cycle'[req'[g].target] = PlanCycle[req'[g].area]
                  /\ stage'[req'[g].target] # "LOST"
           /\ req'[g].op = "deal_write" /\ req'[g].stage = "WON" =>
                  stage'[req'[g].target] = "WON" \/ (\E i \in ActiveRows' : alloc'[i].target = req'[g].target)
           /\ req'[g].op = "area_remove" => (\A i \in ActiveRows' : alloc'[i].area # req'[g].area)
           /\ req'[g].op = "area_delete" => req'[g].deleted \cap ActiveRows' = {}
<1>1. req'[g] = req[g]
  BY OnlyOneRequestMoves
<1>2. CASE req[g].op = "idle"
  BY <1>1, <1>2
<1>3. CASE req[g].op # "idle"
  <2>1. g \notin overtaken /\ ~Overtakes(g)
    BY <1>1, <1>3 DEF Observe
  <2>2. req[g].op = "assign_insert" =>
            /\ cycle'[req[g].target] = PlanCycle[req[g].area]
            /\ stage'[req[g].target] # "LOST"
    BY <2>1 DEF Overtakes, Knows
  <2>3. ASSUME req[g].op = "deal_write", req[g].stage = "WON"
        PROVE  stage'[req[g].target] = "WON" \/ (\E i \in ActiveRows' : alloc'[i].target = req'[g].target)
    <3>1. stage'[req[g].target] = stage[req[g].target]
      BY <2>1, <2>3 DEF Overtakes
    <3>2. CASE stage[req[g].target] = "WON"
      BY <3>1, <3>2
    <3>3. CASE DealHasActiveAllocation(req[g].target)
      <4>1. PICK i \in ActiveRows : alloc[i].target = req[g].target
        BY <3>3 DEF DealHasActiveAllocation
      <4>2. i \in ActiveRows'
        BY <2>1, <2>3, <4>1 DEF Overtakes
      <4>3. alloc'[i].target = req'[g].target
        BY <1>1, <4>1, <4>2, KeptRows
      <4> QED BY <4>2, <4>3
    <3> QED BY <2>1, <2>3, <3>2, <3>3 DEF Knows
  <2>4. ASSUME req[g].op = "area_remove"
        PROVE  (\A i \in ActiveRows' : alloc'[i].area # req'[g].area)
    <3>1. \A i \in ActiveRows : alloc[i].area # req[g].area
      BY <2>1, <2>4 DEF Knows, AreaIsAssigned
    <3>2. \A i \in ActiveRows' \ ActiveRows : alloc'[i].area # req[g].area
      BY <2>1, <2>4 DEF Overtakes
    <3>3. \A i \in ActiveRows' : alloc'[i].area # req[g].area
      BY <3>1, <3>2, KeptRows
    <3> QED BY <1>1, <3>3
  <2>5. ASSUME req[g].op = "area_delete"
        PROVE  req[g].deleted \cap ActiveRows' = {}
    <3>1. \A i \in req[g].deleted : Stored(i)
      BY DEF LockInv, DeletedBelong
    <3>2. req[g].deleted \cap ActiveRows = {}
      BY <2>1, <2>5 DEF Knows
    <3> QED BY <3>1, <3>2, KeptRows
  <2> QED BY <1>1, <2>2, <2>3, <2>4, <2>5
<1> QED BY <1>2, <1>3

LEMMA PartnersAreNotLost == ASSUME StateOK, NEW p \in Partners PROVE stage[p] # "LOST"
<1>1. p \in Targets /\ p \notin Deals
  BY KindsAreDisjoint DEF Targets
<1> QED BY <1>1 DEF StateOK, StagesOf, PartnerStages, ActivePartnerStages, Absent

\* A request that is about to insert has just found its target eligible.
LEMMA InsertIsChecked ==
    ASSUME StateOK, NEW h \in Handlers, Step(h), NEW q, q = req'[h], q.op = "assign_insert"
    PROVE  cycle'[q.target] = PlanCycle[q.area] /\ stage'[q.target] # "LOST"
<1>1. CASE DealUpdateRead(h)
  <2>1. PICK d \in Deals, s \in DealStages \cup {None}, c \in MoveTo \cup {None},
             op \in {"deal_allocation_check", "deal_write", "deal_lock"} :
          Accept(h, [Idle EXCEPT !.op = op, !.target = d, !.stage = s, !.cycle = c])
    BY <1>1 DEF DealUpdateRead
  <2>2. [Idle EXCEPT !.op = op, !.target = d, !.stage = s, !.cycle = c].op = op
    BY DEF Idle
  <2> QED BY <2>1, <2>2 DEF Accept, StateOK
<1>2. CASE DealCheckAllocation(h)
  BY <1>2 DEF DealCheckAllocation, Goto, Respond, Idle, StateOK, Request
<1>3. CASE AssignCheckTarget(h)
  <2>1. Goto(h, "assign_insert") \/ Respond(h)
    BY <1>3 DEF AssignCheckTarget
  <2>2. Goto(h, "assign_insert") /\ ~Respond(h)
    BY <2>1 DEF Respond, Idle, StateOK
  <2>3. q.target = req[h].target /\ q.area = req[h].area
    BY <2>2 DEF Goto, StateOK, Request
  <2>4. /\ cycle[req[h].target] = PlanCycle[req[h].area] /\ stage[req[h].target] # "LOST"
       /\ cycle' = cycle /\ stage' = stage
    BY <1>3, <2>2, PartnersAreNotLost
       DEF AssignCheckTarget, DealIsAssignable, PartnerIsAssignable
  <2> QED BY <2>3, <2>4
<1> QED BY <1>1, <1>2, <1>3, WriteIsPrepared

\* A request that is about to write WON has just found an allocation, or no change.
LEMMA WonIsChecked ==
    ASSUME StateOK, NEW h \in Handlers, Step(h), NEW q, q = req'[h],
           q.op = "deal_write", q.stage = "WON"
    PROVE  \/ stage'[q.target] = "WON"
           \/ \E i \in Rows : alloc'[i].status = "active" /\ alloc'[i].target = q.target
<1>1. CASE DealUpdateRead(h)
  <2>1. PICK d \in Deals, s \in DealStages \cup {None}, c \in MoveTo \cup {None},
             op \in {"deal_allocation_check", "deal_write", "deal_lock"} :
          /\ op = "deal_allocation_check" <=> NeedsAllocation(stage[d], s)
          /\ Accept(h, [Idle EXCEPT !.op = op, !.target = d, !.stage = s, !.cycle = c])
          /\ stage' = stage
    BY <1>1 DEF DealUpdateRead
  <2> DEFINE r == [Idle EXCEPT !.op = op, !.target = d, !.stage = s, !.cycle = c]
  <2>2. r.op = op /\ r.target = d /\ r.stage = s
    BY DEF Idle
  <2>3. req'[h] = r
    BY <2>1 DEF Accept, StateOK
  <2>4. stage[d] = "WON"
    BY <2>1, <2>2, <2>3 DEF NeedsAllocation
  <2> QED BY <2>1, <2>2, <2>3, <2>4
<1>2. CASE DealCheckAllocation(h)
  <2>1. Goto(h, "deal_write") /\ DealHasActiveAllocation(req[h].target) /\ alloc' = alloc
    BY <1>2 DEF DealCheckAllocation, Respond, Idle, StateOK
  <2>2. q.target = req[h].target
    BY <2>1 DEF Goto, StateOK, Request
  <2> QED BY <2>1, <2>2 DEF DealHasActiveAllocation, ActiveRows
<1>3. CASE AssignCheckTarget(h)
  BY <1>3 DEF AssignCheckTarget, Goto, Respond, Idle, StateOK, Request
<1> QED BY <1>1, <1>2, <1>3, WriteIsPrepared

\* A removal starts on an unassigned area, and deletes what it finds there.
LEMMA RemovalIsChecked ==
    ASSUME StateOK, Knows, NEW h \in Handlers, Step(h), Observe(h), h \notin overtaken'
    PROVE  /\ req'[h].op = "area_remove" => (\A i \in ActiveRows' : alloc'[i].area # req'[h].area)
           /\ req'[h].op = "area_delete" => req'[h].deleted \cap ActiveRows' = {}
<1>1. CASE AreaRemoveRead(h)
  <2>1. PICK a \in Areas : /\ AreaMayBeRemoved(a)
                           /\ Accept(h, [Idle EXCEPT !.op = "area_remove", !.area = a])
    BY <1>1 DEF AreaRemoveRead
  <2>2. req'[h].op = "area_remove" /\ req'[h].area = a
    BY <2>1 DEF Accept, Idle, StateOK
  <2>3. \A i \in ActiveRows' : alloc'[i].area # a
    BY <1>1, <2>1 DEF AreaRemoveRead, AreaMayBeRemoved, AreaIsAssigned, ActiveRows
  <2> QED BY <2>2, <2>3
<1>2. CASE AreaRemoveAllocations(h)
  <2>1. /\ req[h].op = "area_remove" /\ req'[h].op = "area_delete"
        /\ req'[h].deleted = RowsOfArea(req[h].area) /\ alloc' = alloc
    BY <1>2 DEF AreaRemoveAllocations, DeleteAllocations, StateOK, Request
  <2>2. h \notin overtaken
    BY <2>1 DEF Observe
  <2>3. ~AreaIsAssigned(req[h].area)
    BY <2>1, <2>2 DEF Knows
  <2> QED BY <2>1, <2>3 DEF RowsOfArea, ActiveRows, AreaIsAssigned
<1>3. CASE ~AreaRemoveRead(h) /\ ~AreaRemoveAllocations(h)
  <2>1. req[h].op \in RemovalOps => Respond(h)
    BY <1>3, RemovalGoesOn
  <2>2. Respond(h) => req'[h].op = "idle"
    BY DEF Respond, Idle, StateOK
  <2>3. req'[h].op \notin RemovalOps
    BY <1>3, <2>1, <2>2, StaysNoRemoval DEF RemovalOps
  <2> QED BY <2>3 DEF RemovalOps
<1> QED BY <1>1, <1>2, <1>3

LEMMA KnowsNext ==
    ASSUME StateOK, LockInv, Knows, [Next]_vars
    PROVE  Knows'
<1>1. CASE UNCHANGED vars
  BY <1>1 DEF vars, Knows, DealHasActiveAllocation, AreaIsAssigned, ActiveRows
<1>2. ASSUME NEW h \in Handlers, Step(h), Observe(h)
      PROVE  Knows'
  <2> DEFINE q == req'[h]
  <2>1. q.op = "assign_insert" =>
            cycle'[q.target] = PlanCycle[q.area] /\ stage'[q.target] # "LOST"
    BY <1>2, InsertIsChecked
  <2>2. q.op = "deal_write" /\ q.stage = "WON" =>
            \/ stage'[q.target] = "WON"
            \/ \E i \in Rows : alloc'[i].status = "active" /\ alloc'[i].target = q.target
    BY <1>2, WonIsChecked
  <2>3. h \notin overtaken' =>
            /\ q.op = "area_remove" => (\A i \in ActiveRows' : alloc'[i].area # q.area)
            /\ q.op = "area_delete" => q.deleted \cap ActiveRows' = {}
    BY <1>2, RemovalIsChecked
  <2>4. q.op = "deal_write" /\ q.stage = "WON" =>
            stage'[q.target] = "WON" \/ (\E i \in ActiveRows' : alloc'[i].target = q.target)
    BY <2>2 DEF ActiveRows
  <2> HIDE DEF q
  <2>5. Knows' <=>
          \A g \in Handlers \ overtaken' :
            /\ req'[g].op = "assign_insert" =>
                   /\ cycle'[req'[g].target] = PlanCycle[req'[g].area]
                   /\ stage'[req'[g].target] # "LOST"
            /\ req'[g].op = "deal_write" /\ req'[g].stage = "WON" =>
                   \/ stage'[req'[g].target] = "WON"
                   \/ \E i \in ActiveRows' : alloc'[i].target = req'[g].target
            /\ req'[g].op = "area_remove" =>
                   \A i \in ActiveRows' : alloc'[i].area # req'[g].area
            /\ req'[g].op = "area_delete" => req'[g].deleted \cap ActiveRows' = {}
    BY DEF Knows, DealHasActiveAllocation, AreaIsAssigned
  <2>6. ASSUME NEW g \in Handlers \ overtaken'
        PROVE  /\ req'[g].op = "assign_insert" =>
                      /\ cycle'[req'[g].target] = PlanCycle[req'[g].area]
                      /\ stage'[req'[g].target] # "LOST"
               /\ req'[g].op = "deal_write" /\ req'[g].stage = "WON" =>
                      \/ stage'[req'[g].target] = "WON"
                      \/ \E i \in ActiveRows' : alloc'[i].target = req'[g].target
               /\ req'[g].op = "area_remove" =>
                      \A i \in ActiveRows' : alloc'[i].area # req'[g].area
               /\ req'[g].op = "area_delete" => req'[g].deleted \cap ActiveRows' = {}
    <3>1. CASE g = h
      BY <2>1, <2>3, <2>4, <3>1 DEF q
    <3>2. CASE g # h
      BY <1>2, <3>2, OthersKnow
    <3> QED BY <3>1, <3>2
  <2> QED BY <2>5, <2>6
<1> QED BY <1>1, <1>2 DEF Next, Step

\* A step that makes a deal WON comes from the one request that has checked it.
LEMMA WonStep ==
    ASSUME StateOK, Knows, Next, NEW d \in Deals, stage[d] # "WON", stage'[d] = "WON"
    PROVE  DealHasActiveAllocation(d) \/ AnswersOvertaken
<1>1. PICK h \in Handlers : Step(h)
  BY DEF Next, Step
<1>2. stage' # stage
  OBVIOUS
<1>3. d \in Targets
  BY DEF Targets
<1>4. CASE DealWrite(h)
  <2>1. stage' = [stage EXCEPT ![req[h].target] = Supplied(req[h].stage, @)]
    BY <1>2, <1>4 DEF DealWrite, WriteTarget
  <2>2. req[h].target = d /\ req[h].stage = "WON" /\ req[h].op = "deal_write"
    BY <1>3, <1>4, <2>1 DEF DealWrite, Supplied, StateOK
  <2>3. req'[h].op = "idle"
    BY <1>4 DEF DealWrite, Respond, Idle, StateOK
  <2> QED BY <1>2, <2>2, <2>3 DEF Knows, AnswersOvertaken
<1>5. CASE DealReleaseCommit(h)
  BY <1>3, <1>5 DEF DealReleaseCommit, WriteTarget, Supplied, StateOK, RequestOK
<1>6. CASE PartnerWrite(h)
  <2>1. req[h].target # d
    BY <1>6, KindsAreDisjoint DEF PartnerWrite, StateOK, RequestOK
  <2> QED BY <1>3, <1>6, <2>1 DEF PartnerWrite, WriteTarget, StateOK
<1>7. CASE DealDelete(h) \/ PartnerDelete(h)
  BY <1>3, <1>7 DEF DealDelete, PartnerDelete, DeleteTarget, StateOK, Absent
<1> QED
  BY <1>1, <1>2, <1>4, <1>5, <1>6, <1>7
     DEF Step, Arrive, Advance, DeadlockVictim, DatabaseError, AssignReadArea,
         AssignCheckTarget, AssignInsert, ReleaseRead, ReleaseUpdate, DealUpdateRead,
         DealCheckAllocation, DealLock, DealRemoveRead, DealRemoveAllocations,
         PartnerUpdateRead, PartnerRemoveRead, PartnerRemoveAllocations, AreaRemoveRead,
         AreaRemoveAllocations, AreaDelete, DeleteAllocations

LEMMA InsertStep ==
    ASSUME StateOK, Knows, Next, NEW i \in Rows, Inserted(i)
    PROVE  \/ /\ cycle[alloc'[i].target] = PlanCycle[alloc'[i].area]
              /\ stage[alloc'[i].target] # "LOST"
           \/ AnswersOvertaken
<1>1. PICK h \in Handlers : Step(h)
  BY DEF Next, Step
<1>2. CASE ~AssignInsert(h)
  BY <1>1, <1>2, OnlyInsertAdds DEF RowsOnlyLeave, Inserted
<1>3. CASE AssignInsert(h)
  <2>1. alloc' # alloc /\ req[h].op = "assign_insert"
    BY <1>3 DEF Inserted, AssignInsert
  <2>2. PICK j \in Rows : /\ alloc[j].status = "unused"
                          /\ alloc' = [alloc EXCEPT ![j] = [status |-> "active",
                                          area |-> req[h].area, target |-> req[h].target]]
    BY <1>3, <2>1, InsertedRow
  <2>3. i = j
    BY <2>2 DEF Inserted, StateOK
  <2>4. alloc'[i].target = req[h].target /\ alloc'[i].area = req[h].area
    BY <2>2, <2>3 DEF StateOK
  <2>5. req'[h].op = "idle"
    BY <1>3 DEF AssignInsert, Respond, Idle, StateOK
  <2> QED BY <2>1, <2>4, <2>5 DEF Knows, AnswersOvertaken
<1> QED BY <1>2, <1>3

\* An area with an active row is deleted by a removal that did not find it there.
LEMMA DeleteStep ==
    ASSUME StateOK, Knows, Next, NEW a \in areas \ areas', AreaIsAssigned(a)
    PROVE  AnswersOvertaken
<1>1. PICK h \in Handlers : Step(h)
  BY DEF Next, Step
<1>2. AreaDelete(h)
  BY <1>1 DEF Step, Arrive, Advance, DeadlockVictim, DatabaseError, AssignReadArea,
     AssignCheckTarget, AssignInsert, ReleaseRead, ReleaseUpdate, DealUpdateRead,
     DealCheckAllocation, DealWrite, DealLock, DealReleaseCommit, DealRemoveRead,
     DealRemoveAllocations, DealDelete, PartnerUpdateRead, PartnerWrite,
     PartnerRemoveRead, PartnerRemoveAllocations, PartnerDelete, AreaRemoveRead,
     AreaRemoveAllocations, DeleteAllocations, DeleteTarget
<1>3. /\ req[h].op = "area_delete" /\ req'[h].op = "idle" /\ a = req[h].area
      /\ ~StillReferenced(h, RowsOfArea(a))
  BY <1>2 DEF AreaDelete, Respond, Idle, StateOK
<1>4. PICK i \in ActiveRows : alloc[i].area = a
  BY DEF AreaIsAssigned
<1>5. i \in req[h].deleted
  BY <1>3, <1>4 DEF StillReferenced, RowsOfArea, ActiveRows, Stored
<1> QED BY <1>3, <1>4, <1>5 DEF Knows, AnswersOvertaken

LEMMA KnowsAlways == Spec => []Knows
<1>1. StateOK /\ LockInv /\ [Next]_vars => LockInv'
  BY LockNext
<1>2. StateOK /\ LockInv /\ Knows /\ [Next]_vars => Knows'
  BY KnowsNext
<1> QED BY <1>1, <1>2, LockInit, KnowsInit, StateCorrect, PTL DEF Spec

\* A deal that becomes WON holds a venue area at that moment, unless its allocation or
\* its row was changed between the check and the write.
THEOREM WonHolds == Spec => WonRequiresAllocation
<1>1. StateOK /\ Knows /\ [Next]_vars =>
          [\A d \in Deals : stage[d] # "WON" /\ stage'[d] = "WON"
                                => DealHasActiveAllocation(d) \/ AnswersOvertaken]_vars
  BY WonStep
<1> QED BY <1>1, KnowsAlways, StateCorrect, PTL DEF Spec, WonRequiresAllocation

\* An area is given to a target of its plan's cycle that is not LOST, unless the target
\* was changed between the check and the insert.
THEOREM EligibleAssigned == Spec => OnlyEligibleIsAssigned
<1>1. StateOK /\ Knows /\ [Next]_vars =>
          [\A i \in Rows : Inserted(i) =>
               \/ /\ cycle[alloc'[i].target] = PlanCycle[alloc'[i].area]
                  /\ stage[alloc'[i].target] # "LOST"
               \/ AnswersOvertaken]_vars
  BY InsertStep
<1> QED BY <1>1, KnowsAlways, StateCorrect, PTL DEF Spec, OnlyEligibleIsAssigned

\* A deleted area was not assigned, unless the assignment came between the check and
\* the transaction of the removal.
THEOREM ReleasedFirst == Spec => ReleasedBeforeRemoval
<1>1. StateOK /\ Knows /\ [Next]_vars =>
          [\A a \in areas \ areas' : AreaIsAssigned(a) => AnswersOvertaken]_vars
  BY DeleteStep
<1> QED BY <1>1, KnowsAlways, StateCorrect, PTL DEF Spec, ReleasedBeforeRemoval
=============================================================================
