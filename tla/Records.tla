-------------------------------- MODULE Records ---------------------------------
(* The rows the back office keeps and the references between them: event cycles,   *)
(* organizations and their contacts, participations (builder deals and partner     *)
(* participations, whose services check and write the same columns), venue plans,  *)
(* notes and attachments, and the objects of the file store they point at.         *)
(*                                                                                *)
(* A handler reads and checks, and then writes; between the two, other requests    *)
(* run.  The checks of one handler are one step: each of them concerns a fact that *)
(* cannot change, one the foreign keys check again when the row is written, or the *)
(* one fact the handler relies on.  A transaction takes effect when it commits.    *)
(*                                                                                *)
(* An operator Op_Fault is Op with a plausible fault, used by no specification.    *)
EXTENDS FiniteSets

CONSTANTS
    Cycles, Orgs, Contacts, Deals, Plans, Items,   \* ids of rows; each is used once
    Objects,                                       \* keys of the file store
    Handlers,                                      \* requests in flight together
    Workloads,                                     \* bound: operations and ids in use together
    None                                           \* SQL NULL, or a field not supplied

Statuses == {"DRAFT", "ACTIVE", "CLOSED"}
Operations == {"cycle.create", "cycle.update", "cycle.remove", "org.create", "org.remove",
               "contact.create", "contact.update", "contact.remove",
               "deal.create", "deal.update", "deal.remove", "plan.create", "plan.image",
               "item.create", "item.remove"}
Owners == Deals \cup Orgs
Rows   == Cycles \cup Orgs \cup Contacts \cup Deals \cup Plans \cup Items

ASSUME WorkloadsAreKnown ==
    Workloads \subseteq [ops : SUBSET Operations, ids : SUBSET (Rows \cup Objects)]
ASSUME IdsAreFinite == IsFiniteSet(Rows \cup Objects)
ASSUME IdsAreDistinct ==
    /\ Cycles \cap Orgs = {} /\ (Cycles \cup Orgs) \cap Contacts = {}
    /\ (Cycles \cup Orgs \cup Contacts) \cap Deals = {}
    /\ (Cycles \cup Orgs \cup Contacts \cup Deals) \cap Plans = {}
    /\ (Cycles \cup Orgs \cup Contacts \cup Deals \cup Plans) \cap Items = {}
    /\ Rows \cap Objects = {}
ASSUME NoneIsNoRow == None \notin Rows \cup Objects \cup Statuses \cup {"null"}

VARIABLES
    workload,    \* chosen at the start, never changed
    rows,        \* the rows that exist, of every table
    used,        \* ids and object keys that have been given out
    status,      \* cycle -> EventCycleStatus
    orgOf,       \* contact -> organizationId
    primary,     \* the contacts whose isPrimary is true
    deal,        \* participation -> its eventCycleId, organizationId, primaryContactId
    planOf,      \* plan -> eventCycleId
    image,       \* plan -> imageKey
    item,        \* note or attachment -> its owner, and its object if it is a file
    objects,     \* the objects in the file store
    req,         \* handler -> the request it is running
    disturbed    \* history: rows with overlapping requests, or a request that failed

columns == <<status, orgOf, primary, deal, planOf, image, item>>
vars    == <<workload, rows, used, columns, objects, req, disturbed>>

DealColumns == [cycle : Cycles \cup {None}, org : Orgs \cup {None}, contact : Contacts \cup {None}]
ItemColumns == [owner : Owners \cup {None}, object : Objects \cup {None}]
Fields == [status : Statuses \cup {None}, org : Orgs \cup {None}, primary : {"yes", "no", None},
           cycle : Cycles \cup {None}, contact : Contacts \cup {None, "null"},
           owner : Owners \cup {None}, object : Objects \cup {None}]

\* "unset" has other primary contacts locked and unset in its open transaction.
Steps   == {"idle", "store", "unset", "write"}
Request == [op : Steps, of : Operations, id : Rows \cup {None}, to : Fields,
            unset : SUBSET Contacts, about : SUBSET Rows]

NoFields == [status |-> None, org |-> None, primary |-> None, cycle |-> None,
             contact |-> None, owner |-> None, object |-> None]
Idle == [op |-> "idle", of |-> "cycle.create", id |-> None, to |-> NoFields, unset |-> {},
         about |-> {}]

TypeOK ==
    /\ workload \in Workloads
    /\ rows \subseteq used \cap Rows /\ used \subseteq Rows \cup Objects
    /\ status \in [Cycles -> Statuses] /\ orgOf \in [Contacts -> Orgs \cup {None}]
    /\ primary \subseteq Contacts /\ deal \in [Deals -> DealColumns]
    /\ planOf \in [Plans -> Cycles \cup {None}] /\ image \in [Plans -> Objects \cup {None}]
    /\ item \in [Items -> ItemColumns] /\ objects \subseteq Objects
    /\ req \in [Handlers -> Request] /\ disturbed \subseteq Rows

Init ==
    /\ workload \in Workloads
    /\ rows = {} /\ used = {} /\ primary = {} /\ objects = {} /\ disturbed = {}
    /\ status = [c \in Cycles |-> "DRAFT"] /\ orgOf = [k \in Contacts |-> None]
    /\ deal = [d \in Deals |-> [cycle |-> None, org |-> None, contact |-> None]]
    /\ planOf = [p \in Plans |-> None] /\ image = [p \in Plans |-> None]
    /\ item = [i \in Items |-> [owner |-> None, object |-> None]]
    /\ req = [h \in Handlers |-> Idle]

-----------------------------------------------------------------------------
In(S)  == S \cap rows
New(S) == (S \ used) \cap workload.ids

Or(new, old) == IF new = None THEN old ELSE new

\* A request starts: "about" are the rows whose state it relies on or changes.
Accept(h, step, of, id, to, about) ==
    /\ of \in workload.ops /\ req[h].op = "idle"
    /\ req' = [req EXCEPT ![h] = [Idle EXCEPT !.op = step, !.of = of, !.id = id, !.to = to,
                                              !.about = about]]
    /\ disturbed' = disturbed \cup (about \cap UNION {req[g].about : g \in Handlers \ {h}})
    /\ UNCHANGED <<workload, rows, used, columns, objects>>

At(h, step, of) == req[h].op = step /\ req[h].of = of
GoTo(h, step)   == req' = [req EXCEPT ![h].op = step] /\ UNCHANGED <<workload, disturbed>>
Respond(h)      == req' = [req EXCEPT ![h] = Idle] /\ UNCHANGED <<workload, disturbed>>

\* The database refuses a statement: an error is the answer and nothing has changed.
Refuse(h) == Respond(h) /\ UNCHANGED <<rows, used, columns, objects>>

Insert(id) == rows' = rows \cup {id} /\ used' = used \cup {id}
Remove(S)  == rows' = rows \ S /\ UNCHANGED used

-----------------------------------------------------------------------------
\* Event cycles.

CreateCycle(h) ==
    /\ "cycle.create" \in workload.ops /\ req[h].op = "idle"
    /\ \E c \in New(Cycles) : Insert(c) /\ status' = [status EXCEPT ![c] = "DRAFT"]
    /\ UNCHANGED <<workload, orgOf, primary, deal, planOf, image, item, objects, req, disturbed>>

\* ALLOWED_STATUS_TRANSITIONS; a status may be set again.
Transitions_Reopen == {<<"DRAFT", "ACTIVE">>, <<"ACTIVE", "CLOSED">>, <<"CLOSED", "ACTIVE">>}
Transitions == {<<"DRAFT", "ACTIVE">>, <<"ACTIVE", "CLOSED">>}

UpdateCycleCheck(h) ==
    \E c \in In(Cycles), s \in Statuses :
        /\ s = status[c] \/ <<status[c], s>> \in Transitions
        /\ Accept(h, "write", "cycle.update", c, [NoFields EXCEPT !.status = s], {c})

UpdateCycle(h) ==
    LET c == req[h].id
    IN  /\ At(h, "write", "cycle.update")
        /\ IF c \notin rows THEN Refuse(h)
           ELSE /\ status' = [status EXCEPT ![c] = req[h].to.status]
                /\ Respond(h)
                /\ UNCHANGED <<rows, used, orgOf, primary, deal, planOf, image, item, objects>>

\* Rows that a cycle or an organization must not lose: the counts of remove, and the
\* foreign keys, ON DELETE RESTRICT.
UsersOf(x) == {d \in In(Deals) : x \in {deal[d].cycle, deal[d].org}} \cup
              {p \in In(Plans) : planOf[p] = x}

RemoveCycleCheck(h) ==
    \E c \in In(Cycles) : UsersOf(c) = {} /\ Accept(h, "write", "cycle.remove", c, NoFields, {c})

RemoveCycle(h) ==
    LET c == req[h].id
    IN  /\ At(h, "write", "cycle.remove")
        /\ IF c \notin rows \/ UsersOf(c) # {} THEN Refuse(h)
           ELSE Remove({c}) /\ Respond(h) /\ UNCHANGED <<columns, objects>>

-----------------------------------------------------------------------------
\* Organizations and contacts.

CreateOrg(h) ==
    /\ "org.create" \in workload.ops /\ req[h].op = "idle"
    /\ \E o \in New(Orgs) : Insert(o)
    /\ UNCHANGED <<workload, columns, objects, req, disturbed>>

RemoveOrgCheck(h) ==
    \E o \in In(Orgs) : UsersOf(o) = {} /\ Accept(h, "write", "org.remove", o, NoFields, {o})

\* ON DELETE CASCADE removes the contacts of an organization, ON DELETE SET NULL the
\* contacts of participations.
Cascaded_None(o) == {}
Cascaded(o) == {k \in In(Contacts) : orgOf[k] = o}
Forgetting(S) == [d \in Deals |-> IF deal[d].contact \in S
                                  THEN [deal[d] EXCEPT !.contact = None] ELSE deal[d]]

\* Contacts that the open transaction of another request has written.
Locked(h) == UNION {req[g].unset : g \in Handlers \ {h}}

RemoveOrg(h) ==
    LET o == req[h].id
    IN  /\ At(h, "write", "org.remove")
        /\ Cascaded(o) \cap Locked(h) = {}
        /\ IF o \notin rows \/ UsersOf(o) # {} THEN Refuse(h)
           ELSE /\ Remove({o} \cup Cascaded(o)) /\ deal' = Forgetting(Cascaded(o)) /\ Respond(h)
                /\ UNCHANGED <<status, orgOf, primary, planOf, image, item, objects>>

CreateContactCheck(h) ==
    \E o \in In(Orgs), isPrimary \in {"yes", "no"} :
        Accept(h, "write", "contact.create", None,
               [NoFields EXCEPT !.org = o, !.primary = isPrimary], {o})

UpdateContactCheck(h) ==
    \E k \in In(Contacts), isPrimary \in {"yes", "no", None} :
        Accept(h, "write", "contact.update", k,
               [NoFields EXCEPT !.org = orgOf[k], !.primary = isPrimary], {orgOf[k]})

\* unsetOtherPrimaryContacts: the first statement of the transaction.  It waits for the
\* rows another transaction has written.
OtherPrimaries_None(o, k) == {}
OtherPrimaries(o, k) == {j \in In(Contacts) \ {k} : j \in primary /\ orgOf[j] = o}

UnsetOthers(h) ==
    LET U == OtherPrimaries(req[h].to.org, req[h].id)
    IN  /\ At(h, "write", "contact.create") \/ At(h, "write", "contact.update")
        /\ req[h].to.primary = "yes"
        /\ U \cap Locked(h) = {}
        /\ req' = [req EXCEPT ![h].op = "unset", ![h].unset = U]
        /\ UNCHANGED <<workload, rows, used, columns, objects, disturbed>>

\* The last statement, and the commit.
Unsetting(h) == IF req[h].to.primary = "yes" THEN "unset" ELSE "write"
PrimaryAfter(h, k) ==
    LET others == (primary \ req[h].unset) \ {k}
        flag   == req[h].to.primary
    IN  IF flag = "yes" \/ (flag = None /\ k \in primary) THEN others \cup {k} ELSE others

CreateContact(h) ==
    LET o == req[h].to.org
    IN  /\ At(h, Unsetting(h), "contact.create")
        /\ IF o \notin rows \/ New(Contacts) = {} THEN Refuse(h)         \* bound: ids used up
           ELSE /\ \E k \in New(Contacts) :
                     /\ Insert(k) /\ orgOf' = [orgOf EXCEPT ![k] = o]
                     /\ primary' = PrimaryAfter(h, k)
                /\ Respond(h)
                /\ UNCHANGED <<status, deal, planOf, image, item, objects>>

UpdateContact(h) ==
    LET k == req[h].id
    IN  /\ At(h, Unsetting(h), "contact.update") /\ k \notin Locked(h)
        /\ IF k \notin rows THEN Refuse(h)
           ELSE /\ primary' = PrimaryAfter(h, k) /\ Respond(h)
                /\ UNCHANGED <<rows, used, status, orgOf, deal, planOf, image, item, objects>>

RemoveContactCheck(h) ==
    \E k \in In(Contacts) : Accept(h, "write", "contact.remove", k, NoFields, {})

RemoveContact(h) ==
    LET k == req[h].id
    IN  /\ At(h, "write", "contact.remove") /\ k \notin Locked(h)
        /\ IF k \notin rows THEN Refuse(h)
           ELSE /\ Remove({k}) /\ deal' = Forgetting({k}) /\ Respond(h)
                /\ UNCHANGED <<status, orgOf, primary, planOf, image, item, objects>>

-----------------------------------------------------------------------------
\* Participations: deals.service.ts and partners.service.ts.

CycleAccepts_AnyStatus(c) == c \in rows
CycleAccepts(c) == c \in rows /\ status[c] # "CLOSED"

BelongsTo(k, o) == k # None => k \in rows /\ orgOf[k] = o

\* A contact that is not supplied is kept, "null" disconnects it.
NextContact(to, old) == IF to.contact = "null" THEN None ELSE Or(to.contact, old)

CreateDealCheck(h) ==
    \E c \in In(Cycles), o \in In(Orgs), k \in In(Contacts) \cup {None} :
        /\ CycleAccepts(c) /\ BelongsTo(k, o)
        /\ Accept(h, "write", "deal.create", None,
                  [NoFields EXCEPT !.cycle = c, !.org = o, !.contact = k], {c})

\* The contact is checked when it or the organization changes, against the values the
\* participation will have.
NextOrg_Current(to, old) == old
NextOrg(to, old) == Or(to.org, old)

UpdateDealCheck(h) ==
    \E d \in In(Deals), c \in In(Cycles) \cup {None}, o \in In(Orgs) \cup {None},
       k \in In(Contacts) \cup {None, "null"} :
        LET to == [NoFields EXCEPT !.cycle = c, !.org = o, !.contact = k]
        IN  /\ c # None => CycleAccepts(c)
            /\ k # None \/ o # None =>
                   BelongsTo(NextContact(to, deal[d].contact), NextOrg(to, deal[d].org))
            /\ Accept(h, "write", "deal.update", d, to, {d} \cup ({c} \ {None}))

\* The foreign keys of the row a participation would become.
ForeignKeys(r) == {r.cycle, r.org} \subseteq rows /\ r.contact \in rows \cup {None}

WriteDeal(h) ==
    LET to  == req[h].to
        d   == req[h].id
        old == IF d = None THEN [cycle |-> None, org |-> None, contact |-> None] ELSE deal[d]
        row == [cycle   |-> Or(to.cycle, old.cycle), org |-> Or(to.org, old.org),
                contact |-> NextContact(to, old.contact)]
        ids == IF d = None THEN New(Deals) ELSE In({d})
    IN  /\ At(h, "write", "deal.create") \/ At(h, "write", "deal.update")
        /\ IF ids = {} \/ ~ForeignKeys(row) THEN Refuse(h)
           ELSE /\ \E x \in ids : Insert(x) /\ deal' = [deal EXCEPT ![x] = row]
                /\ Respond(h)
                /\ UNCHANGED <<status, orgOf, primary, planOf, image, item, objects>>

RemoveDealCheck(h) ==
    \E d \in In(Deals) : Accept(h, "write", "deal.remove", d, NoFields, {d})

\* The notes and attachments of a participation go with it; nothing removes those of
\* an organization, and the objects of the attachments stay in the store.
ContentOf_Kept(d) == {}
ContentOf(d) == {i \in In(Items) : item[i].owner = d}

RemoveDeal(h) ==
    LET d == req[h].id
    IN  /\ At(h, "write", "deal.remove")
        /\ IF d \notin rows THEN Refuse(h)
           ELSE Remove({d} \cup ContentOf(d)) /\ Respond(h) /\ UNCHANGED <<columns, objects>>

-----------------------------------------------------------------------------
\* Venue plans and their background image.

CreatePlanCheck(h) ==
    \E c \in In(Cycles) :
        /\ CycleAccepts(c) /\ \A p \in In(Plans) : planOf[p] # c
        /\ Accept(h, "write", "plan.create", None, [NoFields EXCEPT !.cycle = c], {c})

\* VenuePlan_eventCycleId_key.
PlanTaken_NoIndex(c) == FALSE
PlanTaken(c) == \E p \in In(Plans) : planOf[p] = c

CreatePlan(h) ==
    LET c == req[h].to.cycle
    IN  /\ At(h, "write", "plan.create")
        /\ IF c \notin rows \/ PlanTaken(c) \/ New(Plans) = {} THEN Refuse(h)
           ELSE /\ \E p \in New(Plans) : Insert(p) /\ planOf' = [planOf EXCEPT ![p] = c]
                /\ Respond(h)
                /\ UNCHANGED <<status, orgOf, primary, deal, image, item, objects>>

\* The browser asks for an upload address, uploads the file, and then sets the image.
Upload(x) == objects' = objects \cup {x} /\ used' = used \cup {x} /\ UNCHANGED <<rows, columns>>

SetImageCheck(h) ==
    \E p \in In(Plans), x \in New(Objects) :
        Accept(h, "store", "plan.image", p, [NoFields EXCEPT !.object = x], {p})

\* deleteOldImageBestEffort: the old object goes before the row is written, and a
\* failure to delete it is only logged.
Replaced_New(h) == {req[h].to.object}
Replaced(h) == {image[req[h].id]}

StoreImage(h) ==
    LET x == req[h].to.object
    IN  /\ At(h, "store", "plan.image")
        /\ IF x \in used THEN Refuse(h)                                  \* another upload has the key
           ELSE /\ used' = used \cup {x}
                /\ objects' \in {objects \cup {x}, (objects \cup {x}) \ Replaced(h)}
                /\ UNCHANGED <<rows, columns>> /\ GoTo(h, "write")

SetImage(h) ==
    /\ At(h, "write", "plan.image")
    /\ image' = [image EXCEPT ![req[h].id] = req[h].to.object]
    /\ Respond(h)
    /\ UNCHANGED <<rows, used, status, orgOf, primary, deal, planOf, item, objects>>

-----------------------------------------------------------------------------
\* Notes and attachments.

\* assertContentOwnerExists, for the note or for the upload address of a file.
CreateItemCheck(h) ==
    \E o \in In(Owners), x \in New(Objects) \cup {None} :
        Accept(h, IF x = None THEN "write" ELSE "store", "item.create", None,
               [NoFields EXCEPT !.owner = o, !.object = x], {o})

\* The browser uploads the file; the request that follows checks the owner again.
StoreItem(h) ==
    LET x == req[h].to.object
    IN  /\ At(h, "store", "item.create")
        /\ IF x \in used THEN Refuse(h)
           ELSE /\ Upload(x)
                /\ IF req[h].to.owner \in rows THEN GoTo(h, "write") ELSE Respond(h)

CreateItem(h) ==
    /\ At(h, "write", "item.create")
    /\ IF New(Items) = {} THEN Refuse(h)                                 \* bound: ids used up
       ELSE /\ \E i \in New(Items) :
                 /\ Insert(i)
                 /\ item' = [item EXCEPT ![i] = [owner |-> req[h].to.owner, object |-> req[h].to.object]]
            /\ Respond(h)
            /\ UNCHANGED <<status, orgOf, primary, deal, planOf, image, objects>>

\* assertCanDelete: the author and administrators may.
CanDelete(actor) == actor \in {"author", "admin"}

RemoveItemCheck(h) ==
    \E i \in In(Items), actor \in {"author", "admin", "other"} :
        /\ CanDelete(actor)
        /\ Accept(h, IF item[i].object = None THEN "write" ELSE "store", "item.remove", i,
                  [NoFields EXCEPT !.object = item[i].object], {i})

\* The object first, then the row: a failure ends the request here.
RemoveObject(h) ==
    /\ At(h, "store", "item.remove")
    /\ objects' = objects \ {req[h].to.object}
    /\ GoTo(h, "write")
    /\ UNCHANGED <<rows, used, columns>>

RemoveItem(h) ==
    LET i == req[h].id
    IN  /\ At(h, "write", "item.remove")
        /\ IF i \notin rows THEN Refuse(h)
           ELSE Remove({i}) /\ Respond(h) /\ UNCHANGED <<columns, objects>>

-----------------------------------------------------------------------------
\* A statement, an upload or the process fails; an open transaction is rolled back.
\* After its call to the file store, a request leaves its work half done.
HalfDone(h) == req[h].op = "write" /\ req[h].of \in {"plan.image", "item.remove"}

Fail(h) ==
    /\ req[h].op # "idle"
    /\ req' = [req EXCEPT ![h] = Idle]
    /\ disturbed' = IF HalfDone(h) THEN disturbed \cup req[h].about ELSE disturbed
    /\ UNCHANGED <<workload, rows, used, columns, objects>>

Next ==
    \E h \in Handlers :
        \/ CreateCycle(h) \/ UpdateCycleCheck(h) \/ UpdateCycle(h)
        \/ RemoveCycleCheck(h) \/ RemoveCycle(h)
        \/ CreateOrg(h) \/ RemoveOrgCheck(h) \/ RemoveOrg(h)
        \/ CreateContactCheck(h) \/ UpdateContactCheck(h) \/ UnsetOthers(h)
        \/ CreateContact(h) \/ UpdateContact(h) \/ RemoveContactCheck(h) \/ RemoveContact(h)
        \/ CreateDealCheck(h) \/ UpdateDealCheck(h) \/ WriteDeal(h)
        \/ RemoveDealCheck(h) \/ RemoveDeal(h)
        \/ CreatePlanCheck(h) \/ CreatePlan(h) \/ SetImageCheck(h) \/ StoreImage(h) \/ SetImage(h)
        \/ CreateItemCheck(h) \/ StoreItem(h) \/ CreateItem(h)
        \/ RemoveItemCheck(h) \/ RemoveObject(h) \/ RemoveItem(h)
        \/ Fail(h)

Spec == Init /\ [][Next]_vars

-----------------------------------------------------------------------------
\* Properties.

\* Every foreign key points at a row: no order of inserts, updates and removals leaves
\* a participation, a contact or a plan whose cycle, organization or contact is gone.
NoDanglingReference ==
    /\ \A d \in In(Deals) : ForeignKeys(deal[d])
    /\ \A k \in In(Contacts) : orgOf[k] \in rows
    /\ \A p \in In(Plans) : planOf[p] \in rows

\* A cycle has one venue plan, whoever creates it at the same time
\* (VenuePlansService.create).
OnePlanPerCycle ==
    \A p, q \in In(Plans) : planOf[p] = planOf[q] => p = q

\* The primary contact of a participation works for its organization, however the two
\* are changed one after the other (assertPrimaryContactBelongsToOrganization).
ContactBelongsToOrganization ==
    \A d \in In(Deals) \ disturbed : BelongsTo(deal[d].contact, deal[d].org)

\* An organization has at most one primary contact (ContactsService).  Two requests at
\* the same time can leave two: neither sees the row the other has not committed.
OnePrimaryContact ==
    \A j, k \in In(primary) :
        orgOf[j] = orgOf[k] /\ orgOf[j] \notin disturbed => j = k

\* A closed cycle stays closed (CyclesService.assertValidStatusTransition) ...
ClosedIsFinal ==
    [][\A c \in In(Cycles) \cap rows' :
          status[c] = "CLOSED" => status'[c] = "CLOSED" \/ c \in disturbed]_vars

\* ... and nothing new enters it: no participation is created in it or moved to it, and
\* no plan is made for it, unless it is being closed at that moment.
NothingEntersClosedCycle ==
    [][/\ \A d \in Deals : deal'[d].cycle \notin {deal[d].cycle} \cup disturbed =>
              status[deal'[d].cycle] # "CLOSED"
       /\ \A p \in Plans : planOf'[p] \notin {planOf[p]} \cup disturbed =>
              status[planOf'[p]] # "CLOSED"]_vars

\* The notes and attachments of a participation go with it (DealsService.remove,
\* PartnersService.remove); only one that is written while its owner is removed stays
\* behind.
ContentHasOwner ==
    \A i \in In(Items) : item[i].owner \in Deals => item[i].owner \in rows \cup disturbed

\* What a row points at can be downloaded: an attachment or a plan image whose object
\* is gone was left by a request that failed half way or met another one on its row.
ContentIsStored ==
    LET InHand(x) == \E h \in Handlers : req[h].id = x
    IN  /\ \A i \in In(Items) \ disturbed :
              item[i].object \in objects \cup {None} \/ InHand(i)
        /\ \A p \in In(Plans) \ disturbed :
              image[p] \in objects \cup {None} \/ InHand(p)
=============================================================================
