------------------------------ MODULE RecordsProofs ------------------------------
(* Theorems about Records for any number of rows of every table, of objects and of *)
(* requests in flight, and for all operations together.                            *)
EXTENDS Records, TLAPS

-----------------------------------------------------------------------------
\* What a request in flight knows: which kind of row it is about, and what its check
\* found and nobody can change, because the row it read had been given out.
Formed(r) ==
    /\ r.op = "idle" => r = Idle
    /\ r.op # "unset" => r.unset = {}
    /\ r.op = "unset" => r.of \in {"contact.create", "contact.update"}
    /\ r.of \in {"cycle.update", "cycle.remove"} => r.id \in Cycles /\ r.about = {r.id}
    /\ r.of = "cycle.update" => r.to.status \in Statuses
    /\ r.of = "org.remove" => r.id \in Orgs
    /\ r.of = "contact.create" => r.id = None /\ r.to.org \in Orgs /\ r.about = {r.to.org}
    /\ r.of = "contact.update" =>
           /\ r.id \in Contacts \cap used /\ r.to.org = orgOf[r.id] /\ r.about = {r.to.org}
    /\ r.of = "contact.remove" => r.id \in Contacts
    /\ r.of = "deal.create" => r.id = None /\ r.to.cycle \in Cycles /\ r.to.org \in Orgs
                               /\ r.about = {r.to.cycle}
    /\ r.of = "deal.update" => r.id \in Deals \cap used /\ r.about = {r.id} \cup ({r.to.cycle} \ {None})
    /\ r.of = "deal.remove" => r.id \in Deals /\ r.about = {r.id}
    /\ r.of = "plan.create" => r.to.cycle \in Cycles /\ r.about = {r.to.cycle}
    /\ r.of = "plan.image" => r.id \in Plans \cap used /\ r.to.object \in Objects /\ r.about = {r.id}
    /\ r.of = "item.create" =>
           /\ r.to.owner \in Owners /\ r.about = {r.to.owner}
           /\ r.op = "store" => r.to.object \in Objects
    /\ r.of = "item.remove" =>
           r.id \in Items \cap used /\ r.about = {r.id} /\ r.to.object = item[r.id].object

AllFormed == \A h \in Handlers : Formed(req[h])

\* Two requests about one row are known to have met.
MeetingsAreSeen ==
    \A g, h \in Handlers : g # h => req[g].about \cap req[h].about \subseteq disturbed

Employed == \A k \in In(Contacts) : orgOf[k] \in Orgs

Typed == TypeOK /\ AllFormed /\ MeetingsAreSeen /\ Employed

\* The participation that a request which is about to write one would leave.
Writing(r) == r.op = "write" /\ r.of \in {"deal.create", "deal.update"}
OldParties(r) == IF r.id = None THEN [org |-> None, contact |-> None]
                 ELSE [org |-> deal[r.id].org, contact |-> deal[r.id].contact]
ContactOf(r) == NextContact(r.to, OldParties(r).contact)
OrgOf(r)     == Or(r.to.org, OldParties(r).org)
Matching(r)  == ContactOf(r) # None => ContactOf(r) \in used /\ orgOf[ContactOf(r)] = OrgOf(r)
PartiesChecked ==
    \A h \in Handlers :
        Writing(req[h]) /\ (req[h].id = None \/ req[h].id \in rows \ disturbed) => Matching(req[h])

\* A request that is making a contact primary has unset every other one.
OthersAreUnset ==
    \A h \in Handlers :
        LET r == req[h]
        IN  r.op = "unset" /\ r.to.org \notin disturbed => OtherPrimaries(r.to.org, r.id) \subseteq r.unset

\* The cycle a request read is as it was.
TransitionIsLegal ==
    \A h \in Handlers :
        LET r == req[h]
        IN  r.of = "cycle.update" /\ r.id \notin disturbed /\ status[r.id] = "CLOSED" =>
                r.to.status = "CLOSED"
EntersOpenCycle ==
    \A h \in Handlers :
        LET r == req[h]
        IN  r.of \in {"deal.create", "deal.update", "plan.create"} /\ r.to.cycle \notin disturbed \cup {None}
                => status[r.to.cycle] # "CLOSED"

OwnerIsKnown ==
    \A h \in Handlers :
        LET r == req[h]
        IN  r.of = "item.create" /\ r.to.owner \in Deals => r.to.owner \in rows \cup disturbed

\* An object belongs to one row, or to one request that has uploaded it and will write
\* the row.
Uploaded(r) == r.op = "write" /\ r.of \in {"plan.image", "item.create"} /\ r.to.object # None
OneHolder ==
    /\ \A i \in Items : item[i].object \in used \cup {None}
    /\ \A p \in Plans : image[p] \in used \cup {None}
    /\ \A p \in Plans \ used : image[p] = None
    /\ \A i, j \in Items : item[i].object = item[j].object /\ item[i].object # None => i = j
    /\ \A p, q \in Plans : image[p] = image[q] /\ image[p] # None => p = q
    /\ \A i \in Items, p \in Plans : item[i].object = image[p] => image[p] = None
UploadsAreKept ==
    \A h \in Handlers : Uploaded(req[h]) =>
        LET x == req[h].to.object
        IN  /\ x \in used \cap objects
            /\ \A i \in Items : item[i].object # x
            /\ \A p \in Plans : image[p] # x
            /\ \A g \in Handlers : g # h /\ Uploaded(req[g]) => req[g].to.object # x

\* Only a request between its call to the file store and its write has a row whose
\* object is gone.
HalfWay(x, of) == \E h \in Handlers : req[h].op = "write" /\ req[h].of = of /\ req[h].id = x
ContentIsThere ==
    /\ \A i \in In(Items) \ disturbed :
           item[i].object \in objects \cup {None} \/ HalfWay(i, "item.remove")
    /\ \A p \in In(Plans) \ disturbed :
           image[p] \in objects \cup {None} \/ HalfWay(p, "plan.image")

-----------------------------------------------------------------------------
\* Types.

TablesOK ==
    /\ rows \subseteq used \cap Rows /\ used \subseteq Rows \cup Objects
    /\ status \in [Cycles -> Statuses] /\ orgOf \in [Contacts -> Orgs \cup {None}]
    /\ primary \subseteq Contacts /\ deal \in [Deals -> DealColumns]
    /\ planOf \in [Plans -> Cycles \cup {None}] /\ image \in [Plans -> Objects \cup {None}]
    /\ item \in [Items -> ItemColumns] /\ objects \subseteq Objects

\* What requests know of a row that was given out stays true.
Stable ==
    /\ used \subseteq used'
    /\ \A k \in Contacts \cap used : orgOf'[k] = orgOf[k]
    /\ \A i \in Items \cap used : item'[i] = item[i]

\* The request of one handler begins, ends, or goes on to its next statement.
Others(h) == /\ \A g \in Handlers \ {h} : req'[g] = req[g]
             /\ disturbed \subseteq disturbed'
Begins(h, of) == /\ req'[h].of = of /\ Others(h)
                 /\ UNCHANGED <<workload, rows, used, columns, objects>>
Ends(h) == req'[h] = Idle /\ Others(h)

Accepted(step, of, id, to, about) ==
    [Idle EXCEPT !.op = step, !.of = of, !.id = id, !.to = to, !.about = about]

LEMMA IdleIsRequest ==
    /\ Idle \in Request /\ Idle.op = "idle" /\ Idle.of = "cycle.create" /\ Idle.about = {}
    /\ Idle.unset = {} /\ Idle.id = None
    /\ NoFields \in Fields
BY DEF Idle, Request, NoFields, Fields, Steps, Operations, Statuses

Holds(r, step, of, id, to, about) ==
    r.op = step /\ r.of = of /\ r.id = id /\ r.to = to /\ r.unset = {} /\ r.about = about

LEMMA AcceptedHolds ==
    ASSUME NEW step, NEW of, NEW id, NEW to, NEW about
    PROVE  Holds(Accepted(step, of, id, to, about), step, of, id, to, about)
<1>1. Idle \in Request /\ Idle.unset = {}
  BY IdleIsRequest
<1> QED BY <1>1 DEF Accepted, Holds, Request

LEMMA AcceptTyped ==
    ASSUME Typed, NEW h \in Handlers, NEW step \in Steps, NEW of \in Operations,
           NEW id \in Rows \cup {None}, NEW to \in Fields, NEW about \in SUBSET Rows,
           Accept(h, step, of, id, to, about), Formed(Accepted(step, of, id, to, about))
    PROVE  /\ Typed' /\ Begins(h, of)
           /\ Holds(req'[h], step, of, id, to, about)
           /\ \A g \in Handlers \ {h} : about \cap req[g].about \subseteq disturbed'
<1> DEFINE r == Accepted(step, of, id, to, about)
<1>1. Holds(r, step, of, id, to, about)
  BY AcceptedHolds
<1>2. r \in Request
  BY IdleIsRequest DEF Request, Accepted
<1> HIDE DEF r
<1>3. req' = [req EXCEPT ![h] = r]
  BY DEF Accept, r, Accepted
<1>4. \A g \in Handlers : req'[g] = IF g = h THEN r ELSE req[g]
  BY <1>3 DEF Typed, TypeOK
<1>5. /\ disturbed' = disturbed \cup (about \cap UNION {req[g].about : g \in Handlers \ {h}})
      /\ UNCHANGED <<workload, rows, used, columns, objects>>
  BY DEF Accept
<1>6. \A g \in Handlers \ {h} : about \cap req[g].about \subseteq disturbed'
  BY <1>5
<1>7. TypeOK'
  <2>1. req' \in [Handlers -> Request]
    BY <1>2, <1>3 DEF Typed, TypeOK
  <2>2. disturbed' \subseteq Rows
    BY <1>5 DEF Typed, TypeOK
  <2> QED BY <1>5, <2>1, <2>2 DEF Typed, TypeOK, columns
<1>8. AllFormed'
  <2> SUFFICES ASSUME NEW g \in Handlers PROVE Formed(req[g])'
    BY DEF AllFormed
  <2>1. CASE g = h
    <3>1. Formed(r)
      BY DEF r
    <3> QED BY <1>4, <1>5, <2>1, <3>1 DEF Formed, columns
  <2>2. CASE g # h
    <3>1. Formed(req[g])
      BY DEF Typed, AllFormed
    <3> QED BY <1>4, <1>5, <2>2, <3>1 DEF Formed, columns
  <2> QED BY <2>1, <2>2
<1>9. MeetingsAreSeen'
  <2> SUFFICES ASSUME NEW f \in Handlers, NEW g \in Handlers, f # g
               PROVE  req'[f].about \cap req'[g].about \subseteq disturbed'
    BY DEF MeetingsAreSeen
  <2>1. req[f].about \cap req[g].about \subseteq disturbed /\ disturbed \subseteq disturbed'
    BY <1>5 DEF Typed, MeetingsAreSeen
  <2>2. r.about = about
    BY <1>1 DEF Holds
  <2> QED BY <1>4, <1>6, <2>1, <2>2
<1>10. Begins(h, of)
  BY <1>1, <1>4, <1>5 DEF Begins, Others, Holds
<1>11. Employed'
  BY <1>5 DEF Typed, Employed, In, columns
<1> QED BY <1>1, <1>4, <1>6, <1>7, <1>8, <1>9, <1>10, <1>11 DEF Typed

LEMMA FormedStays ==
    ASSUME Typed, Stable, NEW g \in Handlers, req'[g] = req[g]
    PROVE  Formed(req[g])'
<1>1. Formed(req[g])
  BY DEF Typed, AllFormed
<1> QED BY <1>1 DEF Formed, Stable

LEMMA EndTyped ==
    ASSUME Typed, NEW h \in Handlers, req' = [req EXCEPT ![h] = Idle], Stable, TablesOK', Employed',
           disturbed \subseteq disturbed', disturbed' \subseteq Rows, UNCHANGED workload
    PROVE  Typed' /\ Ends(h)
<1>1. \A g \in Handlers : req'[g] = IF g = h THEN Idle ELSE req[g]
  BY DEF Typed, TypeOK
<1>2. TypeOK'
  BY IdleIsRequest DEF Typed, TypeOK, TablesOK
<1>3. ASSUME NEW g \in Handlers PROVE Formed(req[g])'
  <2>1. CASE g = h
    BY <1>1, <2>1, IdleIsRequest DEF Formed
  <2>2. CASE g # h
    BY <1>1, <2>2, FormedStays
  <2> QED BY <2>1, <2>2
<1>4. MeetingsAreSeen'
  BY <1>1, IdleIsRequest DEF Typed, MeetingsAreSeen
<1> QED BY <1>1, <1>2, <1>3, <1>4 DEF Typed, AllFormed, Ends, Others

\* The checks: what each request has seen when it begins.
LEMMA UpdateCycleCheckTyped ==
    ASSUME Typed, NEW h \in Handlers, UpdateCycleCheck(h)
    PROVE  /\ Typed' /\ Begins(h, "cycle.update")
           /\ status[req'[h].id] = "CLOSED" => req'[h].to.status = "CLOSED"
<1>1. PICK c \in In(Cycles), s \in Statuses :
          /\ s = status[c] \/ <<status[c], s>> \in Transitions
          /\ Accept(h, "write", "cycle.update", c, [NoFields EXCEPT !.status = s], {c})
  BY DEF UpdateCycleCheck
<1> DEFINE to == [NoFields EXCEPT !.status = s]
<1>2. to \in Fields /\ to.status = s
  BY IdleIsRequest DEF Fields
<1> HIDE DEF to
<1>3. c \in Cycles /\ c \in Rows
  BY DEF In, Rows
<1>4. Formed(Accepted("write", "cycle.update", c, to, {c}))
  BY <1>2, <1>3, AcceptedHolds DEF Holds, Formed
<1>5. Accept(h, "write", "cycle.update", c, to, {c})
  BY <1>1 DEF to
<1>6. /\ "cycle.update" \in Operations /\ "write" \in Steps /\ {c} \in SUBSET Rows
     /\ c \in Rows \cup {None}
  BY <1>2, <1>3, <1>4, <1>5 DEF Operations, Steps
<1>7. Typed' /\ Begins(h, "cycle.update") /\ Holds(req'[h], "write", "cycle.update", c, to, {c})
  BY <1>2, <1>3, <1>4, <1>5, <1>6, AcceptTyped
<1>8. status[c] = "CLOSED" => s = "CLOSED"
  BY <1>1 DEF Transitions
<1> QED BY <1>2, <1>7, <1>8 DEF Holds

LEMMA RemoveCheckTyped ==
    ASSUME Typed, NEW h \in Handlers, RemoveCycleCheck(h) \/ RemoveOrgCheck(h)
    PROVE  Typed' /\ \E of \in {"cycle.remove", "org.remove"} : Begins(h, of)
<1>1. CASE RemoveCycleCheck(h)
  <2>1. PICK c \in In(Cycles) : Accept(h, "write", "cycle.remove", c, NoFields, {c})
    BY <1>1 DEF RemoveCycleCheck
  <2>2. c \in Cycles /\ c \in Rows
    BY DEF In, Rows
  <2>3. Formed(Accepted("write", "cycle.remove", c, NoFields, {c}))
    BY <2>2, AcceptedHolds DEF Holds, Formed
  <2>4. /\ "cycle.remove" \in Operations /\ "write" \in Steps /\ {c} \in SUBSET Rows
       /\ c \in Rows \cup {None}
    BY <2>1, <2>2, <2>3 DEF Operations, Steps
  <2> QED BY <2>1, <2>2, <2>3, IdleIsRequest, <2>4, AcceptTyped
<1>2. CASE RemoveOrgCheck(h)
  <2>1. PICK o \in In(Orgs) : Accept(h, "write", "org.remove", o, NoFields, {o})
    BY <1>2 DEF RemoveOrgCheck
  <2>2. o \in Orgs /\ o \in Rows
    BY DEF In, Rows
  <2>3. Formed(Accepted("write", "org.remove", o, NoFields, {o}))
    BY <2>2, AcceptedHolds DEF Holds, Formed
  <2>4. /\ "org.remove" \in Operations /\ "write" \in Steps /\ {o} \in SUBSET Rows
       /\ o \in Rows \cup {None}
    BY <2>1, <2>2, <2>3 DEF Operations, Steps
  <2> QED BY <2>1, <2>2, <2>3, IdleIsRequest, <2>4, AcceptTyped
<1> QED BY <1>1, <1>2

LEMMA ContactCheckTyped ==
    ASSUME Typed, NEW h \in Handlers,
           CreateContactCheck(h) \/ UpdateContactCheck(h) \/ RemoveContactCheck(h)
    PROVE  /\ Typed' /\ req'[h].op = "write"
           /\ \E of \in {"contact.create", "contact.update", "contact.remove"} : Begins(h, of)
<1>1. CASE CreateContactCheck(h)
  <2>1. PICK o \in In(Orgs), isPrimary \in {"yes", "no"} :
            Accept(h, "write", "contact.create", None,
                   [NoFields EXCEPT !.org = o, !.primary = isPrimary], {o})
    BY <1>1 DEF CreateContactCheck
  <2> DEFINE to == [NoFields EXCEPT !.org = o, !.primary = isPrimary]
  <2>2. o \in Orgs /\ o \in Rows
    BY DEF In, Rows
  <2>3. to \in Fields /\ to.org = o
    BY <2>2, IdleIsRequest DEF Fields
  <2> HIDE DEF to
  <2>4. Accept(h, "write", "contact.create", None, to, {o})
    BY <2>1 DEF to
  <2>5. Formed(Accepted("write", "contact.create", None, to, {o}))
    BY <2>2, <2>3, AcceptedHolds DEF Holds, Formed
  <2>6. /\ "contact.create" \in Operations /\ "write" \in Steps /\ {o} \in SUBSET Rows
       /\ None \in Rows \cup {None}
    BY <2>2, <2>3, <2>4, <2>5 DEF Operations, Steps
  <2>7. /\ Typed' /\ Begins(h, "contact.create")
        /\ Holds(req'[h], "write", "contact.create", None, to, {o})
    BY <2>2, <2>3, <2>4, <2>5, <2>6, AcceptTyped
  <2> QED BY <2>7 DEF Holds
<1>2. CASE UpdateContactCheck(h)
  <2>1. PICK k \in In(Contacts), isPrimary \in {"yes", "no", None} :
            Accept(h, "write", "contact.update", k,
                   [NoFields EXCEPT !.org = orgOf[k], !.primary = isPrimary], {orgOf[k]})
    BY <1>2 DEF UpdateContactCheck
  <2>2. k \in Contacts /\ k \in Rows /\ k \in used
    BY DEF In, Rows, Typed, TypeOK
  <2>3. orgOf[k] \in Orgs /\ orgOf[k] \in Rows
    BY <2>2 DEF Rows, Typed, Employed
  <2> DEFINE to == [NoFields EXCEPT !.org = orgOf[k], !.primary = isPrimary]
  <2>4. to \in Fields /\ to.org = orgOf[k]
    BY <2>3, IdleIsRequest DEF Fields
  <2> HIDE DEF to
  <2>5. Accept(h, "write", "contact.update", k, to, {orgOf[k]})
    BY <2>1 DEF to
  <2>6. Formed(Accepted("write", "contact.update", k, to, {orgOf[k]}))
    BY <2>2, <2>4, AcceptedHolds DEF Holds, Formed
  <2>7. /\ "contact.update" \in Operations /\ "write" \in Steps /\ {orgOf[k]} \in SUBSET Rows
       /\ k \in Rows \cup {None}
    BY <2>2, <2>3, <2>4, <2>5, <2>6 DEF Operations, Steps
  <2>8. /\ Typed' /\ Begins(h, "contact.update")
        /\ Holds(req'[h], "write", "contact.update", k, to, {orgOf[k]})
    BY <2>2, <2>3, <2>4, <2>5, <2>6, <2>7, AcceptTyped
  <2> QED BY <2>8 DEF Holds
<1>3. CASE RemoveContactCheck(h)
  <2>1. PICK k \in In(Contacts) : Accept(h, "write", "contact.remove", k, NoFields, {})
    BY <1>3 DEF RemoveContactCheck
  <2>2. k \in Contacts /\ k \in Rows
    BY DEF In, Rows
  <2>3. Formed(Accepted("write", "contact.remove", k, NoFields, {}))
    BY <2>2, AcceptedHolds DEF Holds, Formed
  <2>4. /\ "contact.remove" \in Operations /\ "write" \in Steps /\ {} \in SUBSET Rows
       /\ k \in Rows \cup {None}
    BY <2>1, <2>2, <2>3 DEF Operations, Steps
  <2>5. /\ Typed' /\ Begins(h, "contact.remove")
        /\ Holds(req'[h], "write", "contact.remove", k, NoFields, {})
    BY <2>1, <2>2, <2>3, IdleIsRequest, <2>4, AcceptTyped
  <2> QED BY <2>5 DEF Holds
<1> QED BY <1>1, <1>2, <1>3

LEMMA CreateDealCheckTyped ==
    ASSUME Typed, NEW h \in Handlers, CreateDealCheck(h)
    PROVE  /\ Typed' /\ Begins(h, "deal.create")
           /\ status[req'[h].to.cycle] # "CLOSED"
           /\ Matching(req'[h])
<1>1. PICK c \in In(Cycles), o \in In(Orgs), k \in In(Contacts) \cup {None} :
          /\ CycleAccepts(c) /\ BelongsTo(k, o)
          /\ Accept(h, "write", "deal.create", None,
                    [NoFields EXCEPT !.cycle = c, !.org = o, !.contact = k], {c})
  BY DEF CreateDealCheck
<1> DEFINE to == [NoFields EXCEPT !.cycle = c, !.org = o, !.contact = k]
<1>2. c \in Cycles /\ c \in Rows /\ o \in Orgs /\ k \in Contacts \cup {None}
  BY DEF In, Rows
<1>3. to \in Fields /\ to.cycle = c /\ to.org = o /\ to.contact = k
  BY <1>2, IdleIsRequest DEF Fields
<1> HIDE DEF to
<1>4. Formed(Accepted("write", "deal.create", None, to, {c}))
  BY <1>2, <1>3, AcceptedHolds DEF Holds, Formed
<1>5. Accept(h, "write", "deal.create", None, to, {c})
  BY <1>1 DEF to
<1>6. "deal.create" \in Operations /\ "write" \in Steps /\ {c} \in SUBSET Rows
  BY <1>2 DEF Operations, Steps
<1>7. Typed' /\ Begins(h, "deal.create") /\ Holds(req'[h], "write", "deal.create", None, to, {c})
  BY <1>3, <1>4, <1>5, <1>6, AcceptTyped
<1>8. Matching(req'[h])
  <2>1. req'[h].id = None /\ req'[h].to = to
    BY <1>7 DEF Holds
  <2>2. OrgOf(req'[h]) = o
    BY <1>2, <1>3, <2>1, NoneIsNoRow DEF OrgOf, Or, Rows
  <2>3. ContactOf(req'[h]) \in {k, None}
    BY <1>3, <2>1 DEF ContactOf, NextContact, Or, OldParties
  <2>4. k # None => k \in used /\ orgOf[k] = o
    BY <1>1 DEF BelongsTo, Typed, TypeOK
  <2> QED BY <2>2, <2>3, <2>4 DEF Matching
<1> QED BY <1>1, <1>3, <1>7, <1>8 DEF Holds, CycleAccepts

LEMMA UpdateDealCheckTyped ==
    ASSUME Typed, NEW h \in Handlers, UpdateDealCheck(h)
    PROVE  /\ Typed' /\ Begins(h, "deal.update")
           /\ req'[h].to.cycle # None => status[req'[h].to.cycle] # "CLOSED"
           /\ Matching(req'[h]) \/ (/\ ContactOf(req'[h]) = deal[req'[h].id].contact
                                    /\ OrgOf(req'[h]) = deal[req'[h].id].org)
<1>1. PICK d \in In(Deals), c \in In(Cycles) \cup {None}, o \in In(Orgs) \cup {None},
           k \in In(Contacts) \cup {None, "null"} :
          LET to == [NoFields EXCEPT !.cycle = c, !.org = o, !.contact = k]
          IN  /\ c # None => CycleAccepts(c)
              /\ k # None \/ o # None =>
                     BelongsTo(NextContact(to, deal[d].contact), NextOrg(to, deal[d].org))
              /\ Accept(h, "write", "deal.update", d, to, {d} \cup ({c} \ {None}))
  BY DEF UpdateDealCheck
<1> DEFINE to    == [NoFields EXCEPT !.cycle = c, !.org = o, !.contact = k]
           about == {d} \cup ({c} \ {None})
<1>2. d \in Deals /\ d \in Rows /\ c \in Cycles \cup {None} /\ o \in Orgs \cup {None}
      /\ k \in Contacts \cup {None, "null"} /\ d \in used
  BY DEF In, Rows, Typed, TypeOK
<1>3. to \in Fields /\ to.cycle = c /\ to.org = o /\ to.contact = k
  BY <1>2, IdleIsRequest DEF Fields
<1>4. k # None \/ o # None => BelongsTo(NextContact(to, deal[d].contact), NextOrg(to, deal[d].org))
  BY <1>1
<1>5. Accept(h, "write", "deal.update", d, to, about)
  BY <1>1
<1> HIDE DEF to
<1>6. Formed(Accepted("write", "deal.update", d, to, about))
  BY <1>2, <1>3, AcceptedHolds DEF Holds, Formed
<1>7. "deal.update" \in Operations /\ "write" \in Steps /\ about \in SUBSET Rows /\ d \in Rows \cup {None}
  BY <1>2 DEF Operations, Steps, Rows
<1> HIDE DEF about
<1>8. Typed' /\ Begins(h, "deal.update") /\ Holds(req'[h], "write", "deal.update", d, to, about)
  BY <1>3, <1>5, <1>6, <1>7, AcceptTyped
<1>9. req'[h].id = d /\ req'[h].to = to /\ d # None
  BY <1>2, <1>8, NoneIsNoRow DEF Holds
<1>10. /\ ContactOf(req'[h]) = NextContact(to, deal[d].contact)
       /\ OrgOf(req'[h]) = NextOrg(to, deal[d].org)
  BY <1>9 DEF ContactOf, OrgOf, NextOrg, OldParties
<1>11. CASE k # None \/ o # None
  <2>1. Matching(req'[h])
    BY <1>4, <1>10, <1>11 DEF Matching, BelongsTo, Typed, TypeOK
  <2> QED BY <1>1, <1>3, <1>8, <1>9, <2>1 DEF CycleAccepts
<1>12. CASE k = None /\ o = None
  <2>1. ContactOf(req'[h]) = deal[d].contact /\ OrgOf(req'[h]) = deal[d].org
    BY <1>3, <1>10, <1>12, NoneIsNoRow DEF NextContact, NextOrg, Or
  <2> QED BY <1>1, <1>3, <1>8, <1>9, <2>1 DEF CycleAccepts
<1> QED BY <1>11, <1>12

LEMMA RemoveDealCheckTyped ==
    ASSUME Typed, NEW h \in Handlers, RemoveDealCheck(h)
    PROVE  Typed' /\ Begins(h, "deal.remove")
<1>1. PICK d \in In(Deals) : Accept(h, "write", "deal.remove", d, NoFields, {d})
  BY DEF RemoveDealCheck
<1>2. d \in Deals /\ d \in Rows
  BY DEF In, Rows
<1>3. Formed(Accepted("write", "deal.remove", d, NoFields, {d}))
  BY <1>2, AcceptedHolds DEF Holds, Formed
<1>4. "deal.remove" \in Operations /\ "write" \in Steps /\ {d} \in SUBSET Rows /\ d \in Rows \cup {None}
  BY <1>2 DEF Operations, Steps
<1> QED BY <1>1, <1>3, <1>4, IdleIsRequest, AcceptTyped

LEMMA PlanCheckTyped ==
    ASSUME Typed, NEW h \in Handlers, CreatePlanCheck(h) \/ SetImageCheck(h)
    PROVE  /\ Typed'
           /\ \/ Begins(h, "plan.create") /\ status[req'[h].to.cycle] # "CLOSED"
              \/ Begins(h, "plan.image") /\ req'[h].op = "store"
<1>1. CASE CreatePlanCheck(h)
  <2>1. PICK c \in In(Cycles) :
            /\ CycleAccepts(c)
            /\ Accept(h, "write", "plan.create", None, [NoFields EXCEPT !.cycle = c], {c})
    BY <1>1 DEF CreatePlanCheck
  <2> DEFINE to == [NoFields EXCEPT !.cycle = c]
  <2>2. c \in Cycles /\ c \in Rows
    BY DEF In, Rows
  <2>3. to \in Fields /\ to.cycle = c
    BY <2>2, IdleIsRequest DEF Fields
  <2> HIDE DEF to
  <2>4. Formed(Accepted("write", "plan.create", None, to, {c}))
    BY <2>2, <2>3, AcceptedHolds DEF Holds, Formed
  <2>5. Accept(h, "write", "plan.create", None, to, {c})
    BY <2>1 DEF to
  <2>6. "plan.create" \in Operations /\ "write" \in Steps /\ {c} \in SUBSET Rows
    BY <2>2 DEF Operations, Steps
  <2>7. Typed' /\ Begins(h, "plan.create") /\ Holds(req'[h], "write", "plan.create", None, to, {c})
    BY <2>3, <2>4, <2>5, <2>6, AcceptTyped
  <2> QED BY <2>1, <2>3, <2>7 DEF Holds, CycleAccepts
<1>2. CASE SetImageCheck(h)
  <2>1. PICK p \in In(Plans), x \in New(Objects) :
            Accept(h, "store", "plan.image", p, [NoFields EXCEPT !.object = x], {p})
    BY <1>2 DEF SetImageCheck
  <2> DEFINE to == [NoFields EXCEPT !.object = x]
  <2>2. p \in Plans /\ p \in Rows /\ p \in used /\ x \in Objects
    BY DEF In, New, Rows, Typed, TypeOK
  <2>3. to \in Fields /\ to.object = x
    BY <2>2, IdleIsRequest DEF Fields
  <2> HIDE DEF to
  <2>4. Formed(Accepted("store", "plan.image", p, to, {p}))
    BY <2>2, <2>3, AcceptedHolds DEF Holds, Formed
  <2>5. Accept(h, "store", "plan.image", p, to, {p})
    BY <2>1 DEF to
  <2>6. "plan.image" \in Operations /\ "store" \in Steps /\ {p} \in SUBSET Rows /\ p \in Rows \cup {None}
    BY <2>2 DEF Operations, Steps
  <2>7. Typed' /\ Begins(h, "plan.image") /\ Holds(req'[h], "store", "plan.image", p, to, {p})
    BY <2>3, <2>4, <2>5, <2>6, AcceptTyped
  <2> QED BY <2>7 DEF Holds
<1> QED BY <1>1, <1>2

LEMMA CreateItemCheckTyped ==
    ASSUME Typed, NEW h \in Handlers, CreateItemCheck(h)
    PROVE  /\ Typed' /\ Begins(h, "item.create") /\ req'[h].to.owner \in rows
           /\ req'[h].op = "write" => req'[h].to.object = None
<1>1. PICK o \in In(Owners), x \in New(Objects) \cup {None} :
          Accept(h, IF x = None THEN "write" ELSE "store", "item.create", None,
                 [NoFields EXCEPT !.owner = o, !.object = x], {o})
  BY DEF CreateItemCheck
<1> DEFINE to   == [NoFields EXCEPT !.owner = o, !.object = x]
           step == IF x = None THEN "write" ELSE "store"
<1>2. o \in Owners /\ o \in Rows /\ o \in rows /\ x \in Objects \cup {None}
  BY DEF In, New, Rows, Owners
<1>3. to \in Fields /\ to.owner = o /\ to.object = x
  BY <1>2, IdleIsRequest DEF Fields
<1>4. /\ "item.create" \in Operations /\ step \in Steps /\ {o} \in SUBSET Rows
      /\ step \in {"store", "write"} /\ (step = "write" <=> x = None)
  BY <1>2 DEF Operations, Steps
<1>5. Accept(h, step, "item.create", None, to, {o})
  BY <1>1
<1> HIDE DEF to, step
<1>6. Formed(Accepted(step, "item.create", None, to, {o}))
  BY <1>2, <1>3, <1>4, AcceptedHolds DEF Holds, Formed
<1>7. Typed' /\ Begins(h, "item.create") /\ Holds(req'[h], step, "item.create", None, to, {o})
  BY <1>3, <1>4, <1>5, <1>6, AcceptTyped
<1> QED BY <1>2, <1>3, <1>4, <1>7 DEF Holds

LEMMA RemoveItemCheckTyped ==
    ASSUME Typed, NEW h \in Handlers, RemoveItemCheck(h)
    PROVE  Typed' /\ Begins(h, "item.remove")
<1>1. PICK i \in In(Items) :
          Accept(h, IF item[i].object = None THEN "write" ELSE "store", "item.remove", i,
                 [NoFields EXCEPT !.object = item[i].object], {i})
  BY DEF RemoveItemCheck
<1> DEFINE to   == [NoFields EXCEPT !.object = item[i].object]
           step == IF item[i].object = None THEN "write" ELSE "store"
<1>2. i \in Items /\ i \in Rows /\ i \in used /\ item[i].object \in Objects \cup {None}
  BY DEF In, Rows, Typed, TypeOK, ItemColumns
<1>3. to \in Fields /\ to.object = item[i].object
  BY <1>2, IdleIsRequest DEF Fields
<1>4. /\ "item.remove" \in Operations /\ step \in Steps /\ {i} \in SUBSET Rows /\ i \in Rows \cup {None}
      /\ step \in {"store", "write"}
  BY <1>2 DEF Operations, Steps
<1>5. Accept(h, step, "item.remove", i, to, {i})
  BY <1>1
<1> HIDE DEF to, step
<1>6. Formed(Accepted(step, "item.remove", i, to, {i}))
  BY <1>2, <1>3, <1>4, AcceptedHolds DEF Holds, Formed
<1> QED BY <1>3, <1>4, <1>5, <1>6, AcceptTyped

\* The statements that write.
LEMMA RefuseTyped ==
    ASSUME Typed, NEW h \in Handlers, Refuse(h)
    PROVE  Typed' /\ Ends(h) /\ UNCHANGED <<rows, used, columns, objects>>
<1>1. Stable /\ TablesOK' /\ Employed'
  BY DEF Refuse, columns, Stable, TablesOK, Typed, TypeOK, Employed, In
<1> QED BY <1>1, EndTyped DEF Refuse, Respond, Typed, TypeOK

LEMMA NewIsNew ==
    ASSUME Typed, NEW S, NEW x \in New(S)
    PROVE  x \in S /\ x \notin used /\ x \notin rows
BY DEF New, Typed, TypeOK

LEMMA CreateRootTyped ==
    ASSUME Typed, NEW h \in Handlers, CreateCycle(h) \/ CreateOrg(h)
    PROVE  Typed' /\ req' = req /\ disturbed' = disturbed
<1>1. PICK x \in New(Cycles) \cup New(Orgs) : Insert(x)
  BY DEF CreateCycle, CreateOrg
<1>2. x \in Cycles \cup Orgs /\ x \notin used
  BY DEF New
<1>3. UNCHANGED <<workload, orgOf, primary, deal, planOf, image, item, objects, req, disturbed>>
  BY DEF CreateCycle, CreateOrg, columns
<1>4. status' \in [Cycles -> Statuses]
  BY DEF CreateCycle, CreateOrg, columns, Typed, TypeOK, Statuses
<1>5. TypeOK'
  BY <1>1, <1>2, <1>3, <1>4 DEF Insert, Typed, TypeOK, Rows
<1>6. Stable /\ MeetingsAreSeen'
  BY <1>1, <1>3 DEF Insert, Stable, Typed, MeetingsAreSeen
<1>7. AllFormed'
  BY <1>3, <1>6, FormedStays DEF AllFormed
<1>8. Employed'
  <2>1. x \notin Contacts
    BY <1>2, IdsAreDistinct
  <2> QED BY <1>1, <1>3, <2>1 DEF Insert, Typed, Employed, In
<1> QED BY <1>3, <1>5, <1>6, <1>7, <1>8 DEF Typed

LEMMA UpdateCycleTyped ==
    ASSUME Typed, NEW h \in Handlers, UpdateCycle(h)
    PROVE  Typed' /\ Ends(h)
<1>1. CASE Refuse(h)
  BY <1>1, RefuseTyped
<1>2. CASE ~Refuse(h)
  <2>1. /\ status' = [status EXCEPT ![req[h].id] = req[h].to.status] /\ Respond(h)
        /\ UNCHANGED <<rows, used, orgOf, primary, deal, planOf, image, item, objects>>
    BY <1>2 DEF UpdateCycle
  <2>2. req[h].to.status \in Statuses
    BY DEF UpdateCycle, At, Typed, AllFormed, Formed
  <2>3. Stable /\ TablesOK' /\ Employed'
    BY <2>1, <2>2 DEF Stable, TablesOK, Typed, TypeOK, Employed, In
  <2> QED BY <2>1, <2>3, EndTyped DEF Respond, Typed, TypeOK
<1> QED BY <1>1, <1>2

\* A request that removes rows, of contacts or of no other table that contacts refer to.
LEMMA RemoveTyped ==
    ASSUME Typed, NEW h \in Handlers, NEW S, Remove(S), Respond(h),
           deal' \in [Deals -> DealColumns],
           \A k \in In(Contacts) \ S : orgOf[k] \notin S,
           UNCHANGED <<status, orgOf, primary, planOf, image, item, objects>>
    PROVE  Typed' /\ Ends(h)
<1>1. Stable /\ TablesOK' /\ Employed'
  BY DEF Remove, Stable, TablesOK, Typed, TypeOK, Employed, In
<1> QED BY <1>1, EndTyped DEF Respond, Typed, TypeOK

LEMMA ForgettingTyped ==
    ASSUME Typed, NEW S
    PROVE  /\ Forgetting(S) \in [Deals -> DealColumns]
           /\ \A d \in Deals :
                 /\ Forgetting(S)[d].cycle = deal[d].cycle /\ Forgetting(S)[d].org = deal[d].org
                 /\ Forgetting(S)[d].contact = IF deal[d].contact \in S THEN None
                                               ELSE deal[d].contact
BY DEF Forgetting, Typed, TypeOK, DealColumns

LEMMA RemoveCycleTyped ==
    ASSUME Typed, NEW h \in Handlers, RemoveCycle(h)
    PROVE  Typed' /\ Ends(h)
<1>1. CASE Refuse(h)
  BY <1>1, RefuseTyped
<1>2. CASE ~Refuse(h)
  <2>1. Remove({req[h].id}) /\ Respond(h) /\ UNCHANGED <<columns, objects>>
    BY <1>2 DEF RemoveCycle
  <2>2. req[h].id \in Cycles
    BY DEF RemoveCycle, At, Typed, AllFormed, Formed
  <2>3. \A k \in In(Contacts) \ {req[h].id} : orgOf[k] \notin {req[h].id}
    BY <2>2, IdsAreDistinct DEF Typed, Employed
  <2> QED BY <2>1, <2>3, RemoveTyped DEF columns, Typed, TypeOK
<1> QED BY <1>1, <1>2

LEMMA RemoveOrgTyped ==
    ASSUME Typed, NEW h \in Handlers, RemoveOrg(h)
    PROVE  Typed' /\ Ends(h)
<1>1. CASE Refuse(h)
  BY <1>1, RefuseTyped
<1>2. CASE ~Refuse(h)
  <2> DEFINE o == req[h].id
             S == {o} \cup Cascaded(o)
  <2>1. Remove(S) /\ deal' = Forgetting(Cascaded(o)) /\ Respond(h)
        /\ UNCHANGED <<status, orgOf, primary, planOf, image, item, objects>>
    BY <1>2 DEF RemoveOrg
  <2>2. o \in Orgs
    BY DEF RemoveOrg, At, Typed, AllFormed, Formed
  <2>3. \A k \in In(Contacts) \ S : orgOf[k] \notin S
    BY <2>2, IdsAreDistinct DEF Typed, Employed, Cascaded, In
  <2> QED BY <2>1, <2>3, RemoveTyped, ForgettingTyped
<1> QED BY <1>1, <1>2

LEMMA RemoveContactTyped ==
    ASSUME Typed, NEW h \in Handlers, RemoveContact(h)
    PROVE  Typed' /\ Ends(h)
<1>1. CASE Refuse(h)
  BY <1>1, RefuseTyped
<1>2. CASE ~Refuse(h)
  <2>1. Remove({req[h].id}) /\ deal' = Forgetting({req[h].id}) /\ Respond(h)
        /\ UNCHANGED <<status, orgOf, primary, planOf, image, item, objects>>
    BY <1>2 DEF RemoveContact
  <2>2. req[h].id \in Contacts
    BY DEF RemoveContact, At, Typed, AllFormed, Formed
  <2>3. \A k \in In(Contacts) \ {req[h].id} : orgOf[k] \notin {req[h].id}
    BY <2>2, IdsAreDistinct DEF Typed, Employed
  <2> QED BY <2>1, <2>3, RemoveTyped, ForgettingTyped
<1> QED BY <1>1, <1>2

LEMMA RemoveDealTyped ==
    ASSUME Typed, NEW h \in Handlers, RemoveDeal(h)
    PROVE  Typed' /\ Ends(h)
<1>1. CASE Refuse(h)
  BY <1>1, RefuseTyped
<1>2. CASE ~Refuse(h)
  <2> DEFINE S == {req[h].id} \cup ContentOf(req[h].id)
  <2>1. Remove(S) /\ Respond(h) /\ UNCHANGED <<columns, objects>>
    BY <1>2 DEF RemoveDeal
  <2>2. req[h].id \in Deals
    BY DEF RemoveDeal, At, Typed, AllFormed, Formed
  <2>3. \A k \in In(Contacts) \ S : orgOf[k] \notin S
    BY <2>2, IdsAreDistinct DEF Typed, Employed, ContentOf, In
  <2> HIDE DEF S
  <2> QED BY <2>1, <2>3, RemoveTyped DEF columns, Typed, TypeOK
<1> QED BY <1>1, <1>2

LEMMA RemoveItemTyped ==
    ASSUME Typed, NEW h \in Handlers, RemoveItem(h)
    PROVE  Typed' /\ Ends(h)
<1>1. CASE Refuse(h)
  BY <1>1, RefuseTyped
<1>2. CASE ~Refuse(h)
  <2>1. Remove({req[h].id}) /\ Respond(h) /\ UNCHANGED <<columns, objects>>
    BY <1>2 DEF RemoveItem
  <2>2. req[h].id \in Items
    BY DEF RemoveItem, At, Typed, AllFormed, Formed
  <2>3. \A k \in In(Contacts) \ {req[h].id} : orgOf[k] \notin {req[h].id}
    BY <2>2, IdsAreDistinct DEF Typed, Employed
  <2> QED BY <2>1, <2>3, RemoveTyped DEF columns, Typed, TypeOK
<1> QED BY <1>1, <1>2

\* Contacts.
LEMMA PrimaryAfterTyped ==
    ASSUME Typed, NEW h \in Handlers, NEW k \in Contacts
    PROVE  PrimaryAfter(h, k) \subseteq Contacts
BY DEF PrimaryAfter, Typed, TypeOK

LEMMA CreateContactTyped ==
    ASSUME Typed, NEW h \in Handlers, CreateContact(h)
    PROVE  Typed' /\ Ends(h)
<1>1. CASE Refuse(h)
  BY <1>1, RefuseTyped
<1>2. CASE ~Refuse(h)
  <2> DEFINE o == req[h].to.org
  <2>1. Respond(h) /\ UNCHANGED <<status, deal, planOf, image, item, objects>>
    BY <1>2 DEF CreateContact
  <2>2. PICK k \in New(Contacts) : /\ Insert(k) /\ orgOf' = [orgOf EXCEPT ![k] = o]
                                   /\ primary' = PrimaryAfter(h, k)
    BY <1>2 DEF CreateContact
  <2>3. k \in Contacts /\ k \notin used /\ k \notin rows
    BY NewIsNew
  <2>4. o \in Orgs
    BY DEF CreateContact, At, Typed, AllFormed, Formed
  <2>5. Stable
    BY <2>1, <2>2, <2>3 DEF Stable, Insert, Typed, TypeOK
  <2>6. TablesOK'
    BY <2>1, <2>2, <2>3, <2>4, PrimaryAfterTyped DEF Insert, TablesOK, Typed, TypeOK, Rows
  <2>7. Employed'
    BY <2>2, <2>3, <2>4 DEF Insert, Employed, Typed, TypeOK, In
  <2> QED BY <2>1, <2>5, <2>6, <2>7, EndTyped DEF Respond, Typed, TypeOK
<1> QED BY <1>1, <1>2

LEMMA UpdateContactTyped ==
    ASSUME Typed, NEW h \in Handlers, UpdateContact(h)
    PROVE  Typed' /\ Ends(h)
<1>1. CASE Refuse(h)
  BY <1>1, RefuseTyped
<1>2. CASE ~Refuse(h)
  <2>1. /\ primary' = PrimaryAfter(h, req[h].id) /\ Respond(h)
        /\ UNCHANGED <<rows, used, status, orgOf, deal, planOf, image, item, objects>>
    BY <1>2 DEF UpdateContact
  <2>2. req[h].id \in Contacts
    BY DEF UpdateContact, At, Typed, AllFormed, Formed
  <2>3. Stable /\ TablesOK' /\ Employed'
    BY <2>1, <2>2, PrimaryAfterTyped DEF Stable, TablesOK, Typed, TypeOK, Employed, In
  <2> QED BY <2>1, <2>3, EndTyped DEF Respond, Typed, TypeOK
<1> QED BY <1>1, <1>2

\* A request that goes on to its next statement.
LEMMA GoOnTyped ==
    ASSUME Typed, NEW h \in Handlers, req' \in [Handlers -> Request], Others(h),
           req'[h].about = req[h].about, Formed(req[h])', Stable, TablesOK', Employed',
           UNCHANGED <<workload, disturbed>>
    PROVE  Typed'
<1>1. TypeOK'
  BY DEF Typed, TypeOK, TablesOK
<1>2. ASSUME NEW g \in Handlers PROVE Formed(req[g])'
  <2>1. CASE g = h
    BY <2>1
  <2>2. CASE g # h
    BY <2>2, FormedStays DEF Others
  <2> QED BY <2>1, <2>2
<1>3. MeetingsAreSeen'
  BY DEF Typed, MeetingsAreSeen, Others
<1> QED BY <1>1, <1>2, <1>3 DEF Typed, AllFormed

\* Only the step and the contacts it has unset change in a request that goes on.
SameRequest(r, q) == r.of = q.of /\ r.id = q.id /\ r.to = q.to /\ r.about = q.about

LEMMA GoToHolds ==
    ASSUME Typed, NEW h \in Handlers, GoTo(h, "write"), req[h].op = "store"
    PROVE  /\ req' \in [Handlers -> Request] /\ Others(h)
           /\ SameRequest(req'[h], req[h]) /\ req'[h].op = "write" /\ req'[h].unset = {}
<1>1. req[h] \in Request /\ req[h].unset = {}
  BY DEF Typed, TypeOK, AllFormed, Formed
<1>2. req' = [req EXCEPT ![h].op = "write"] /\ disturbed' = disturbed
  BY DEF GoTo
<1>3. \A g \in Handlers : req'[g] = IF g = h THEN [req[h] EXCEPT !.op = "write"] ELSE req[g]
  BY <1>2 DEF Typed, TypeOK
<1>4. [req[h] EXCEPT !.op = "write"] \in Request
  BY <1>1 DEF Request, Steps
<1>5. SameRequest(req'[h], req[h]) /\ req'[h].op = "write" /\ req'[h].unset = {}
  BY <1>1, <1>3 DEF Request, SameRequest
<1>6. req' \in [Handlers -> Request]
  BY <1>2, <1>3, <1>4 DEF Typed, TypeOK
<1> QED BY <1>2, <1>3, <1>5, <1>6 DEF Others

LEMMA StoreFormed ==
    ASSUME Typed, NEW h \in Handlers, GoTo(h, "write"), req[h].op = "store",
           req[h].of \in {"plan.image", "item.create", "item.remove"}, Stable
    PROVE  Formed(req[h])'
<1>1. SameRequest(req'[h], req[h]) /\ req'[h].op = "write" /\ req'[h].unset = {}
  BY GoToHolds
<1>2. Formed(req[h])
  BY DEF Typed, AllFormed
<1> QED BY <1>1, <1>2 DEF Formed, SameRequest, Stable

LEMMA UnsetOthersTyped ==
    ASSUME Typed, NEW h \in Handlers, UnsetOthers(h)
    PROVE  /\ Typed' /\ Others(h) /\ SameRequest(req'[h], req[h]) /\ req'[h].op = "unset"
           /\ req'[h].unset = OtherPrimaries(req[h].to.org, req[h].id)
           /\ UNCHANGED <<rows, used, columns, objects, disturbed>>
<1> DEFINE U == OtherPrimaries(req[h].to.org, req[h].id)
           q == [req[h] EXCEPT !.op = "unset", !.unset = U]
<1>1. /\ req' = [req EXCEPT ![h].op = "unset", ![h].unset = U]
      /\ UNCHANGED <<workload, rows, used, columns, objects, disturbed>>
  BY DEF UnsetOthers
<1>2. req[h] \in Request /\ U \in SUBSET Contacts /\ Formed(req[h])
  BY DEF Typed, TypeOK, AllFormed, OtherPrimaries, In
<1> HIDE DEF U
<1>3. q \in Request /\ SameRequest(q, req[h]) /\ q.op = "unset" /\ q.unset = U
  BY <1>2 DEF Request, Steps, SameRequest
<1>4. req' = [req EXCEPT ![h] = q]
  BY <1>1 DEF Typed, TypeOK
<1> HIDE DEF q
<1>5. \A g \in Handlers : req'[g] = IF g = h THEN q ELSE req[g]
  BY <1>4 DEF Typed, TypeOK
<1>6. req' \in [Handlers -> Request] /\ Others(h)
  BY <1>1, <1>3, <1>4, <1>5 DEF Typed, TypeOK, Others
<1>7. Stable /\ TablesOK' /\ Employed'
  BY <1>1 DEF columns, Stable, TablesOK, Typed, TypeOK, Employed, In
<1>8. req[h].of \in {"contact.create", "contact.update"}
  BY DEF UnsetOthers, At
<1>9. Formed(req[h])'
  BY <1>1, <1>2, <1>3, <1>5, <1>8 DEF Formed, SameRequest, columns
<1>10. Typed'
  BY <1>1, <1>3, <1>5, <1>6, <1>7, <1>9, GoOnTyped DEF SameRequest
<1> QED BY <1>1, <1>3, <1>5, <1>6, <1>10 DEF U

LEMMA StoreImageTyped ==
    ASSUME Typed, NEW h \in Handlers, StoreImage(h)
    PROVE  Typed' /\ Others(h)
<1>1. CASE Refuse(h)
  BY <1>1, RefuseTyped DEF Ends
<1>2. CASE ~Refuse(h)
  <2> DEFINE x == req[h].to.object
  <2>1. /\ used' = used \cup {x}
        /\ objects' \in {objects \cup {x}, (objects \cup {x}) \ Replaced(h)}
        /\ UNCHANGED <<rows, columns>> /\ GoTo(h, "write")
    BY <1>2 DEF StoreImage
  <2>2. req[h].op = "store" /\ req[h].of = "plan.image" /\ x \in Objects
    BY DEF StoreImage, At, Typed, AllFormed, Formed
  <2>3. Stable /\ TablesOK' /\ Employed'
    BY <2>1, <2>2 DEF columns, Stable, TablesOK, Typed, TypeOK, Employed, In
  <2>4. Formed(req[h])' /\ req' \in [Handlers -> Request] /\ Others(h)
        /\ req'[h].about = req[h].about
    BY <2>1, <2>2, <2>3, GoToHolds, StoreFormed DEF SameRequest
  <2> QED BY <2>1, <2>3, <2>4, GoOnTyped DEF GoTo
<1> QED BY <1>1, <1>2

LEMMA StoreItemTyped ==
    ASSUME Typed, NEW h \in Handlers, StoreItem(h)
    PROVE  Typed' /\ Others(h)
<1>1. CASE Refuse(h)
  BY <1>1, RefuseTyped DEF Ends
<1>2. CASE ~Refuse(h)
  <2> DEFINE x == req[h].to.object
  <2>1. Upload(x) /\ (GoTo(h, "write") \/ Respond(h))
    BY <1>2 DEF StoreItem
  <2>2. req[h].op = "store" /\ req[h].of = "item.create" /\ x \in Objects
    BY DEF StoreItem, At, Typed, AllFormed, Formed
  <2>3. Stable /\ TablesOK' /\ Employed'
    BY <2>1, <2>2 DEF Upload, columns, Stable, TablesOK, Typed, TypeOK, Employed, In
  <2>4. CASE GoTo(h, "write")
    <3>1. Formed(req[h])' /\ req' \in [Handlers -> Request] /\ Others(h)
          /\ req'[h].about = req[h].about
      BY <2>2, <2>3, <2>4, GoToHolds, StoreFormed DEF SameRequest
    <3> QED BY <2>3, <2>4, <3>1, GoOnTyped DEF GoTo
  <2>5. CASE Respond(h)
    BY <2>3, <2>5, EndTyped DEF Respond, Typed, TypeOK, Ends
  <2> QED BY <2>1, <2>4, <2>5
<1> QED BY <1>1, <1>2

LEMMA RemoveObjectTyped ==
    ASSUME Typed, NEW h \in Handlers, RemoveObject(h)
    PROVE  Typed' /\ Others(h)
<1>1. /\ objects' = objects \ {req[h].to.object} /\ GoTo(h, "write")
      /\ UNCHANGED <<rows, used, columns>>
  BY DEF RemoveObject
<1>2. req[h].op = "store" /\ req[h].of = "item.remove"
  BY DEF RemoveObject, At
<1>3. Stable /\ TablesOK' /\ Employed'
  BY <1>1 DEF columns, Stable, TablesOK, Typed, TypeOK, Employed, In
<1>4. Formed(req[h])' /\ req' \in [Handlers -> Request] /\ Others(h)
      /\ req'[h].about = req[h].about
  BY <1>1, <1>2, <1>3, GoToHolds, StoreFormed DEF SameRequest
<1> QED BY <1>1, <1>3, <1>4, GoOnTyped DEF GoTo

LEMMA SetImageTyped ==
    ASSUME Typed, NEW h \in Handlers, SetImage(h)
    PROVE  Typed' /\ Ends(h)
<1>1. /\ image' = [image EXCEPT ![req[h].id] = req[h].to.object] /\ Respond(h)
      /\ UNCHANGED <<rows, used, status, orgOf, primary, deal, planOf, item, objects>>
  BY DEF SetImage
<1>2. req[h].to.object \in Objects
  BY DEF SetImage, At, Typed, AllFormed, Formed
<1>3. Stable /\ TablesOK' /\ Employed'
  BY <1>1, <1>2 DEF Stable, TablesOK, Typed, TypeOK, Employed, In
<1> QED BY <1>1, <1>3, EndTyped DEF Respond, Typed, TypeOK

LEMMA CreatePlanTyped ==
    ASSUME Typed, NEW h \in Handlers, CreatePlan(h)
    PROVE  Typed' /\ Ends(h)
<1>1. CASE Refuse(h)
  BY <1>1, RefuseTyped
<1>2. CASE ~Refuse(h)
  <2>1. PICK p \in New(Plans) : Insert(p) /\ planOf' = [planOf EXCEPT ![p] = req[h].to.cycle]
    BY <1>2 DEF CreatePlan
  <2>2. Respond(h) /\ UNCHANGED <<status, orgOf, primary, deal, image, item, objects>>
    BY <1>2 DEF CreatePlan
  <2>3. p \in Plans /\ p \notin used /\ p \notin Contacts
    BY NewIsNew, IdsAreDistinct
  <2>4. req[h].to.cycle \in Cycles
    BY DEF CreatePlan, At, Typed, AllFormed, Formed
  <2>5. Stable /\ TablesOK' /\ Employed'
    BY <2>1, <2>2, <2>3, <2>4 DEF Insert, Stable, TablesOK, Typed, TypeOK, Employed, In, Rows
  <2> QED BY <2>2, <2>5, EndTyped DEF Respond, Typed, TypeOK
<1> QED BY <1>1, <1>2

LEMMA CreateItemTyped ==
    ASSUME Typed, NEW h \in Handlers, CreateItem(h)
    PROVE  Typed' /\ Ends(h)
<1>1. CASE Refuse(h)
  BY <1>1, RefuseTyped
<1>2. CASE ~Refuse(h)
  <2> DEFINE row == [owner |-> req[h].to.owner, object |-> req[h].to.object]
  <2>1. PICK i \in New(Items) : Insert(i) /\ item' = [item EXCEPT ![i] = row]
    BY <1>2 DEF CreateItem
  <2>2. Respond(h) /\ UNCHANGED <<status, orgOf, primary, deal, planOf, image, objects>>
    BY <1>2 DEF CreateItem
  <2>3. i \in Items /\ i \notin used /\ i \notin Contacts
    BY NewIsNew, IdsAreDistinct
  <2>4. row \in ItemColumns
    BY DEF Typed, TypeOK, Request, Fields, ItemColumns
  <2> HIDE DEF row
  <2>5. Stable /\ TablesOK' /\ Employed'
    BY <2>1, <2>2, <2>3, <2>4 DEF Insert, Stable, TablesOK, Typed, TypeOK, Employed, In, Rows
  <2> QED BY <2>2, <2>5, EndTyped DEF Respond, Typed, TypeOK
<1> QED BY <1>1, <1>2

\* The row that a request which writes a participation would leave.
OldRow(h) == IF req[h].id = None THEN [cycle |-> None, org |-> None, contact |-> None]
             ELSE deal[req[h].id]
NewRow(h) ==
    [cycle |-> Or(req[h].to.cycle, OldRow(h).cycle), org |-> Or(req[h].to.org, OldRow(h).org),
     contact |-> NextContact(req[h].to, OldRow(h).contact)]

LEMMA WriteDealTyped ==
    ASSUME Typed, NEW h \in Handlers, WriteDeal(h)
    PROVE  /\ Typed' /\ Ends(h)
           /\ \/ Refuse(h)
              \/ /\ \E x \in Deals :
                       /\ (x \in rows /\ x = req[h].id) \/ (x \notin used /\ req[h].id = None)
                       /\ Insert(x) /\ deal' = [deal EXCEPT ![x] = NewRow(h)]
                 /\ NewRow(h) \in DealColumns /\ ForeignKeys(NewRow(h)) /\ Respond(h)
                 /\ UNCHANGED <<status, orgOf, primary, planOf, image, item, objects>>
<1>1. CASE Refuse(h)
  BY <1>1, RefuseTyped
<1>2. CASE ~Refuse(h)
  <2> DEFINE d   == req[h].id
             ids == IF d = None THEN New(Deals) ELSE In({d})
  <2>1. /\ \E x \in ids : Insert(x) /\ deal' = [deal EXCEPT ![x] = NewRow(h)]
        /\ ForeignKeys(NewRow(h)) /\ Respond(h)
        /\ UNCHANGED <<status, orgOf, primary, planOf, image, item, objects>>
    BY <1>2 DEF WriteDeal, NewRow, OldRow
  <2>2. /\ d \in Deals \cup {None} /\ req[h] \in Request
    BY DEF WriteDeal, At, Typed, TypeOK, AllFormed, Formed
  <2>3. NewRow(h) \in DealColumns
    <3>1. req[h].to \in Fields /\ \A e \in Deals : deal[e] \in DealColumns
      BY <2>2 DEF Request, Typed, TypeOK
    <3>2. OldRow(h) \in DealColumns
      BY <2>2, <3>1 DEF OldRow, DealColumns
    <3>3. /\ Or(req[h].to.cycle, OldRow(h).cycle) \in Cycles \cup {None}
          /\ Or(req[h].to.org, OldRow(h).org) \in Orgs \cup {None}
          /\ NextContact(req[h].to, OldRow(h).contact) \in Contacts \cup {None}
      BY <3>1, <3>2 DEF DealColumns, Fields, Or, NextContact
    <3> QED BY <3>3 DEF NewRow, DealColumns
  <2>4. PICK x \in ids : Insert(x) /\ deal' = [deal EXCEPT ![x] = NewRow(h)]
    BY <2>1
  <2>5. x \in Deals /\ ((x \in rows /\ x = d) \/ (x \notin used /\ d = None)) /\ x \notin Contacts
    BY <2>2, <2>4, NewIsNew, IdsAreDistinct DEF In
  <2> HIDE DEF ids
  <2>6. Stable /\ TablesOK' /\ Employed'
    BY <2>1, <2>3, <2>4, <2>5 DEF Insert, Stable, TablesOK, Typed, TypeOK, Employed, In, Rows
  <2> QED BY <2>1, <2>3, <2>4, <2>5, <2>6, EndTyped DEF Respond, Typed, TypeOK
<1> QED BY <1>1, <1>2

LEMMA FailTyped ==
    ASSUME Typed, NEW h \in Handlers, Fail(h)
    PROVE  Typed' /\ Ends(h) /\ UNCHANGED <<rows, used, columns, objects>>
<1>1. Stable /\ TablesOK' /\ Employed'
  BY DEF Fail, columns, Stable, TablesOK, Typed, TypeOK, Employed, In
<1>2. req[h].about \subseteq Rows /\ disturbed \subseteq Rows
  BY DEF Typed, TypeOK, Request
<1>3. disturbed \subseteq disturbed' /\ disturbed' \subseteq Rows
  BY <1>2 DEF Fail
<1> QED BY <1>1, <1>3, EndTyped DEF Fail

\* The steps of a handler that only read and check.
Looks(h) ==
    \/ UpdateCycleCheck(h) \/ RemoveCycleCheck(h) \/ RemoveOrgCheck(h)
    \/ CreateContactCheck(h) \/ UpdateContactCheck(h) \/ RemoveContactCheck(h)
    \/ CreateDealCheck(h) \/ UpdateDealCheck(h) \/ RemoveDealCheck(h)
    \/ CreatePlanCheck(h) \/ SetImageCheck(h) \/ CreateItemCheck(h) \/ RemoveItemCheck(h)

LEMMA LooksTyped ==
    ASSUME Typed, NEW h \in Handlers, Looks(h)
    PROVE  Typed' /\ (\E of \in Operations : Begins(h, of))
<1>1. CASE UpdateCycleCheck(h)
  BY <1>1, UpdateCycleCheckTyped DEF Operations
<1>2. CASE RemoveCycleCheck(h) \/ RemoveOrgCheck(h)
  BY <1>2, RemoveCheckTyped DEF Operations
<1>3. CASE CreateContactCheck(h) \/ UpdateContactCheck(h) \/ RemoveContactCheck(h)
  BY <1>3, ContactCheckTyped DEF Operations
<1>4. CASE CreateDealCheck(h)
  BY <1>4, CreateDealCheckTyped DEF Operations
<1>5. CASE UpdateDealCheck(h)
  BY <1>5, UpdateDealCheckTyped DEF Operations
<1>6. CASE RemoveDealCheck(h)
  BY <1>6, RemoveDealCheckTyped DEF Operations
<1>7. CASE CreatePlanCheck(h) \/ SetImageCheck(h)
  BY <1>7, PlanCheckTyped DEF Operations
<1>8. CASE CreateItemCheck(h)
  BY <1>8, CreateItemCheckTyped DEF Operations
<1>9. CASE RemoveItemCheck(h)
  BY <1>9, RemoveItemCheckTyped DEF Operations
<1> QED BY <1>1, <1>2, <1>3, <1>4, <1>5, <1>6, <1>7, <1>8, <1>9 DEF Looks

Step(h) ==
    \/ CreateCycle(h) \/ UpdateCycle(h) \/ RemoveCycle(h) \/ CreateOrg(h) \/ RemoveOrg(h)
    \/ UnsetOthers(h) \/ CreateContact(h) \/ UpdateContact(h) \/ RemoveContact(h)
    \/ WriteDeal(h) \/ RemoveDeal(h) \/ CreatePlan(h) \/ StoreImage(h) \/ SetImage(h)
    \/ StoreItem(h) \/ CreateItem(h) \/ RemoveObject(h) \/ RemoveItem(h) \/ Fail(h)

LEMMA NextIs == Next <=> \E h \in Handlers : Looks(h) \/ Step(h)
BY DEF Next, Looks, Step

LEMMA InitTyped == Init => Typed
<1> SUFFICES ASSUME Init PROVE Typed
  OBVIOUS
<1>1. TypeOK
  BY IdleIsRequest DEF Init, TypeOK, Statuses, DealColumns, ItemColumns
<1>2. AllFormed /\ MeetingsAreSeen /\ Employed
  BY IdleIsRequest DEF Init, AllFormed, Formed, MeetingsAreSeen, Employed, In
<1> QED BY <1>1, <1>2 DEF Typed

LEMMA StutterTyped == Typed /\ UNCHANGED vars => Typed'
<1> SUFFICES ASSUME Typed, UNCHANGED vars PROVE Typed'
  OBVIOUS
<1>1. TypeOK' /\ MeetingsAreSeen' /\ Employed'
  BY DEF vars, columns, Typed, TypeOK, MeetingsAreSeen, Employed, In
<1>2. AllFormed'
  BY FormedStays DEF vars, columns, Stable, AllFormed
<1> QED BY <1>1, <1>2 DEF Typed

LEMMA StepTyped == ASSUME Typed, NEW h \in Handlers, Step(h) PROVE Typed'
<1>1. CASE CreateCycle(h) \/ UpdateCycle(h) \/ RemoveCycle(h) \/ CreateOrg(h) \/ RemoveOrg(h)
  BY <1>1, CreateRootTyped, UpdateCycleTyped, RemoveCycleTyped, RemoveOrgTyped
<1>2. CASE UnsetOthers(h) \/ CreateContact(h) \/ UpdateContact(h) \/ RemoveContact(h)
  BY <1>2, UnsetOthersTyped, CreateContactTyped, UpdateContactTyped, RemoveContactTyped
<1>3. CASE WriteDeal(h) \/ RemoveDeal(h) \/ CreatePlan(h) \/ StoreImage(h) \/ SetImage(h)
  BY <1>3, WriteDealTyped, RemoveDealTyped, CreatePlanTyped, StoreImageTyped, SetImageTyped
<1>4. CASE StoreItem(h) \/ CreateItem(h) \/ RemoveObject(h) \/ RemoveItem(h) \/ Fail(h)
  BY <1>4, StoreItemTyped, CreateItemTyped, RemoveObjectTyped, RemoveItemTyped, FailTyped
<1> QED BY <1>1, <1>2, <1>3, <1>4 DEF Step

LEMMA NextTyped == Typed /\ [Next]_vars => Typed'
<1> SUFFICES ASSUME Typed, [Next]_vars PROVE Typed'
  OBVIOUS
<1>1. CASE UNCHANGED vars
  BY <1>1, StutterTyped
<1>2. ASSUME NEW h \in Handlers, Looks(h) \/ Step(h) PROVE Typed'
  BY <1>2, LooksTyped, StepTyped
<1> QED BY <1>1, <1>2, NextIs

LEMMA AlwaysTyped == Spec => []Typed
BY InitTyped, NextTyped, PTL DEF Spec

\* The tables and the requests in flight keep their types, with every operation on
\* every row.
THEOREM TypeCorrect == Spec => []TypeOK
<1>1. Typed => TypeOK
  BY DEF Typed
<1> QED BY <1>1, AlwaysTyped, PTL

-----------------------------------------------------------------------------
\* References.

\* Steps that write no reference and remove no row.
LEMMA ReferencesStay ==
    ASSUME Typed, NoDanglingReference, UNCHANGED <<deal, orgOf, planOf>>, rows \subseteq rows',
           (rows' \ rows) \cap (Deals \cup Contacts \cup Plans) = {}
    PROVE  NoDanglingReference'
BY DEF NoDanglingReference, ForeignKeys, In

\* Steps that remove rows nothing else refers to.
LEMMA ReferencesLetGo ==
    ASSUME Typed, NoDanglingReference, NEW S, rows' = rows \ S, UNCHANGED <<orgOf, planOf>>,
           \A d \in In(Deals) \ S : /\ {deal'[d].cycle, deal'[d].org} \subseteq rows \ S
                                    /\ deal'[d].contact \in (rows \ S) \cup {None},
           \A k \in In(Contacts) \ S : orgOf[k] \notin S,
           \A p \in In(Plans) \ S : planOf[p] \notin S
    PROVE  NoDanglingReference'
BY DEF NoDanglingReference, ForeignKeys, In

LEMMA RemoveRootReferences ==
    ASSUME Typed, NoDanglingReference, NEW h \in Handlers, RemoveCycle(h) \/ RemoveOrg(h)
    PROVE  NoDanglingReference'
<1>1. CASE Refuse(h)
  BY <1>1, ReferencesStay DEF Refuse, columns
<1>2. CASE ~Refuse(h)
  <2> DEFINE x == req[h].id
             K == Cascaded(x)
  <2>1. x \in Cycles \cup Orgs
    BY DEF RemoveCycle, RemoveOrg, At, Typed, AllFormed, Formed
  <2>2. UsersOf(x) = {}
    BY <1>2 DEF RemoveCycle, RemoveOrg
  <2>3. \A d \in In(Deals) : deal[d].cycle # x /\ deal[d].org # x
    BY <2>2 DEF UsersOf
  <2>4. \A p \in In(Plans) : planOf[p] # x
    BY <2>2 DEF UsersOf
  <2>5. \A d \in In(Deals) : ForeignKeys(deal[d]) /\ deal[d] \in DealColumns
    BY DEF NoDanglingReference, In, Typed, TypeOK
  <2>6. CASE RemoveCycle(h)
    <3>1. rows' = rows \ {x} /\ UNCHANGED <<orgOf, planOf, deal>> /\ x \in Cycles
      BY <1>2, <2>6 DEF RemoveCycle, Remove, columns, At, Typed, AllFormed, Formed
    <3>2. \A k \in In(Contacts) : orgOf[k] # x
      BY <3>1, IdsAreDistinct DEF Typed, Employed
    <3>3. \A d \in In(Deals) : deal[d].contact # x
      BY <2>5, <3>1, IdsAreDistinct, NoneIsNoRow DEF DealColumns, Rows
    <3> QED BY <2>3, <2>4, <2>5, <3>1, <3>2, <3>3, ReferencesLetGo DEF ForeignKeys
  <2>7. CASE RemoveOrg(h)
    <3>1. /\ rows' = rows \ ({x} \cup K) /\ UNCHANGED <<orgOf, planOf>> /\ x \in Orgs
          /\ deal' = Forgetting(K)
      BY <1>2, <2>7 DEF RemoveOrg, Remove, At, Typed, AllFormed, Formed
    <3>2. K = {k \in In(Contacts) : orgOf[k] = x} /\ K \subseteq Contacts
      BY DEF Cascaded, In
    <3>3. \A k \in In(Contacts) \ ({x} \cup K) : orgOf[k] \notin {x} \cup K
      BY <3>2, IdsAreDistinct DEF Typed, Employed
    <3>4. \A p \in In(Plans) : planOf[p] \notin {x} \cup K
      BY <2>4, <3>2, IdsAreDistinct, NoneIsNoRow DEF Typed, TypeOK, In, Rows
    <3>5. ASSUME NEW d \in In(Deals)
          PROVE  /\ {deal'[d].cycle, deal'[d].org} \subseteq rows \ ({x} \cup K)
                 /\ deal'[d].contact \in (rows \ ({x} \cup K)) \cup {None}
      <4>1. d \in Deals /\ deal[d] \in DealColumns /\ ForeignKeys(deal[d])
        BY <2>5 DEF In
      <4>2. /\ deal'[d].cycle = deal[d].cycle /\ deal'[d].org = deal[d].org
            /\ deal'[d].contact = IF deal[d].contact \in K THEN None ELSE deal[d].contact
        BY <3>1, <4>1, ForgettingTyped
      <4>3. deal[d].cycle \notin K /\ deal[d].org \notin K
        BY <3>2, <4>1, IdsAreDistinct, NoneIsNoRow DEF DealColumns, Rows
      <4>4. deal[d].contact # x
        BY <3>1, <4>1, IdsAreDistinct, NoneIsNoRow DEF DealColumns, Rows
      <4> QED BY <2>3, <4>1, <4>2, <4>3, <4>4 DEF ForeignKeys
    <3> HIDE DEF K
    <3> QED BY <3>1, <3>3, <3>4, <3>5, ReferencesLetGo
  <2> QED BY <2>6, <2>7
<1> QED BY <1>1, <1>2

LEMMA RemoveContactReferences ==
    ASSUME Typed, NoDanglingReference, NEW h \in Handlers, RemoveContact(h)
    PROVE  NoDanglingReference'
<1>1. CASE Refuse(h)
  BY <1>1, ReferencesStay DEF Refuse, columns
<1>2. CASE ~Refuse(h)
  <2> DEFINE k == req[h].id
  <2>1. rows' = rows \ {k} /\ deal' = Forgetting({k}) /\ UNCHANGED <<orgOf, planOf>>
    BY <1>2 DEF RemoveContact, Remove
  <2>2. k \in Contacts
    BY DEF RemoveContact, At, Typed, AllFormed, Formed
  <2>3. \A j \in In(Contacts) : orgOf[j] # k
    BY <2>2, IdsAreDistinct DEF Typed, Employed
  <2>4. \A p \in In(Plans) : planOf[p] # k
    BY <2>2, IdsAreDistinct, NoneIsNoRow DEF Typed, TypeOK, In, Rows
  <2>5. ASSUME NEW d \in In(Deals)
        PROVE  /\ {deal'[d].cycle, deal'[d].org} \subseteq rows \ {k}
               /\ deal'[d].contact \in (rows \ {k}) \cup {None}
    <3>1. d \in Deals /\ deal[d] \in DealColumns /\ ForeignKeys(deal[d])
      BY DEF NoDanglingReference, In, Typed, TypeOK
    <3>2. /\ deal'[d].cycle = deal[d].cycle /\ deal'[d].org = deal[d].org
          /\ deal'[d].contact = IF deal[d].contact = k THEN None ELSE deal[d].contact
      BY <2>1, <3>1, ForgettingTyped
    <3>3. deal[d].cycle # k /\ deal[d].org # k
      BY <2>2, <3>1, IdsAreDistinct, NoneIsNoRow DEF DealColumns, Rows
    <3> QED BY <3>1, <3>2, <3>3 DEF ForeignKeys
  <2> HIDE DEF k
  <2> QED BY <2>1, <2>3, <2>4, <2>5, ReferencesLetGo
<1> QED BY <1>1, <1>2

\* Participations and their contents: nothing refers to them by a foreign key.
LEMMA RemoveLeafReferences ==
    ASSUME Typed, NoDanglingReference, NEW h \in Handlers, RemoveDeal(h) \/ RemoveItem(h)
    PROVE  NoDanglingReference'
<1>1. CASE Refuse(h)
  BY <1>1, ReferencesStay DEF Refuse, columns
<1>2. CASE ~Refuse(h)
  <2> DEFINE T == {req[h].id} \cup ContentOf(req[h].id)
  <2>1. /\ RemoveDeal(h) => rows' = rows \ T /\ req[h].id \in Deals
        /\ RemoveItem(h) => rows' = rows \ {req[h].id} /\ req[h].id \in Items
    BY <1>2 DEF RemoveDeal, RemoveItem, Remove, At, Typed, AllFormed, Formed
  <2>2. ContentOf(req[h].id) \subseteq Items
    BY DEF ContentOf, In
  <2>3. PICK S \in SUBSET (Deals \cup Items) : rows' = rows \ S
    <3>1. CASE RemoveDeal(h)
      <4>1. T \in SUBSET (Deals \cup Items)
        BY <2>1, <2>2, <3>1
      <4> HIDE DEF T
      <4> QED BY <2>1, <3>1, <4>1
    <3>2. CASE RemoveItem(h)
      BY <2>1, <3>2
    <3> QED BY <3>1, <3>2
  <2>4. UNCHANGED <<deal, orgOf, planOf>>
    BY <1>2 DEF RemoveDeal, RemoveItem, columns
  <2>5. \A d \in In(Deals) : ForeignKeys(deal[d]) /\ deal[d] \in DealColumns
    BY DEF NoDanglingReference, In, Typed, TypeOK
  <2>6. \A d \in In(Deals) : deal[d].cycle \notin S /\ deal[d].org \notin S /\ deal[d].contact \notin S
    BY <2>5, IdsAreDistinct, NoneIsNoRow DEF DealColumns, Rows
  <2>7. \A k \in In(Contacts) : orgOf[k] \notin S
    BY IdsAreDistinct DEF Typed, Employed
  <2>8. \A p \in In(Plans) : planOf[p] \notin S
    BY IdsAreDistinct, NoneIsNoRow DEF Typed, TypeOK, In, Rows
  <2> QED BY <2>3, <2>4, <2>5, <2>6, <2>7, <2>8, ReferencesLetGo DEF ForeignKeys
<1> QED BY <1>1, <1>2

LEMMA InsertReferences ==
    ASSUME Typed, NoDanglingReference, NEW h \in Handlers,
           CreateContact(h) \/ CreatePlan(h) \/ WriteDeal(h)
    PROVE  NoDanglingReference'
<1>1. CASE Refuse(h)
  BY <1>1, ReferencesStay DEF Refuse, columns
<1>2. CASE ~Refuse(h) /\ CreateContact(h)
  <2>1. PICK k \in New(Contacts) : Insert(k) /\ orgOf' = [orgOf EXCEPT ![k] = req[h].to.org]
    BY <1>2 DEF CreateContact
  <2>2. req[h].to.org \in rows /\ UNCHANGED <<deal, planOf>>
    BY <1>2 DEF CreateContact
  <2>3. k \in Contacts /\ k \notin used /\ k \notin Deals /\ k \notin Plans
    BY NewIsNew, IdsAreDistinct
  <2> QED BY <2>1, <2>2, <2>3 DEF Insert, NoDanglingReference, ForeignKeys, In, Typed, TypeOK
<1>3. CASE ~Refuse(h) /\ CreatePlan(h)
  <2>1. PICK p \in New(Plans) : Insert(p) /\ planOf' = [planOf EXCEPT ![p] = req[h].to.cycle]
    BY <1>3 DEF CreatePlan
  <2>2. req[h].to.cycle \in rows /\ UNCHANGED <<deal, orgOf>>
    BY <1>3 DEF CreatePlan
  <2>3. p \in Plans /\ p \notin used /\ p \notin Deals /\ p \notin Contacts
    BY NewIsNew, IdsAreDistinct
  <2> QED BY <2>1, <2>2, <2>3 DEF Insert, NoDanglingReference, ForeignKeys, In, Typed, TypeOK
<1>4. CASE ~Refuse(h) /\ WriteDeal(h)
  <2>1. PICK x \in Deals : Insert(x) /\ deal' = [deal EXCEPT ![x] = NewRow(h)]
    BY <1>4, WriteDealTyped
  <2>2. ForeignKeys(NewRow(h)) /\ UNCHANGED <<orgOf, planOf>>
    BY <1>4, WriteDealTyped
  <2>3. x \notin Contacts /\ x \notin Plans
    BY IdsAreDistinct
  <2> QED BY <2>1, <2>2, <2>3 DEF Insert, NoDanglingReference, ForeignKeys, In, Typed, TypeOK
<1> QED BY <1>1, <1>2, <1>3, <1>4

\* Steps that change no table a reference is in, and remove no row.
LEMMA OtherReferences ==
    ASSUME Typed, NoDanglingReference, NEW h \in Handlers,
           \/ CreateCycle(h) \/ UpdateCycle(h) \/ CreateOrg(h) \/ UnsetOthers(h) \/ UpdateContact(h)
           \/ StoreImage(h) \/ SetImage(h) \/ StoreItem(h) \/ CreateItem(h) \/ RemoveObject(h) \/ Fail(h)
    PROVE  NoDanglingReference'
<1>1. UNCHANGED <<deal, orgOf, planOf>>
  BY DEF CreateCycle, UpdateCycle, CreateOrg, UnsetOthers, UpdateContact, StoreImage, SetImage,
         StoreItem, CreateItem, RemoveObject, Fail, Refuse, Upload, columns
<1>2. rows' = rows \/ \E x \in Cycles \cup Orgs \cup Items : rows' = rows \cup {x}
  BY DEF CreateCycle, UpdateCycle, CreateOrg, UnsetOthers, UpdateContact, StoreImage, SetImage,
         StoreItem, CreateItem, RemoveObject, Fail, Refuse, Upload, Insert, New
<1> QED BY <1>1, <1>2, IdsAreDistinct, ReferencesStay

LEMMA StepReferences ==
    ASSUME Typed, NoDanglingReference, NEW h \in Handlers, Step(h)
    PROVE  NoDanglingReference'
BY RemoveRootReferences, RemoveContactReferences, RemoveLeafReferences, InsertReferences,
   OtherReferences
   DEF Step

LEMMA NextReferences == Typed /\ NoDanglingReference /\ [Next]_vars => NoDanglingReference'
<1> SUFFICES ASSUME Typed, NoDanglingReference, [Next]_vars PROVE NoDanglingReference'
  OBVIOUS
<1>1. CASE UNCHANGED vars
  BY <1>1, ReferencesStay DEF vars, columns
<1>2. ASSUME NEW h \in Handlers, Looks(h) PROVE NoDanglingReference'
  BY <1>2, LooksTyped, ReferencesStay DEF Begins, columns
<1> QED BY <1>1, <1>2, StepReferences, NextIs

\* No order of inserts, updates and removals leaves a participation, a contact or a plan
\* whose cycle, organization or contact is gone.
THEOREM NoDangling == Spec => []NoDanglingReference
<1>1. Init => NoDanglingReference
  BY DEF Init, NoDanglingReference, In
<1> QED BY <1>1, NextReferences, AlwaysTyped, PTL DEF Spec

-----------------------------------------------------------------------------
\* What the steps leave alone.

LEMMA Footprints ==
    ASSUME Typed, NEW h \in Handlers, Step(h)
    PROVE  /\ ~CreatePlan(h) => planOf' = planOf /\ In(Plans)' \subseteq In(Plans)
           /\ ~CreateContact(h) => orgOf' = orgOf /\ In(Contacts)' \subseteq In(Contacts)
           /\ ~WriteDeal(h) => In(Deals)' \subseteq In(Deals)
           /\ ~(WriteDeal(h) \/ RemoveOrg(h) \/ RemoveContact(h)) => deal' = deal
           /\ ~(UpdateCycle(h) \/ CreateCycle(h)) => status' = status
           /\ ~(CreateContact(h) \/ UpdateContact(h)) => primary' = primary
           /\ ~CreateItem(h) => item' = item /\ In(Items)' \subseteq In(Items)
           /\ ~SetImage(h) => image' = image
           /\ ~(StoreImage(h) \/ StoreItem(h) \/ RemoveObject(h)) => objects' = objects
           /\ ~RemoveDeal(h) => In(Deals) \subseteq In(Deals)'
<1>1. CASE Refuse(h)
  BY <1>1 DEF Refuse, columns, In
<1>2. CASE CreateCycle(h) \/ CreateOrg(h)
  <2>1. PICK x \in New(Cycles) \cup New(Orgs) : Insert(x)
    BY <1>2 DEF CreateCycle, CreateOrg
  <2>2. x \notin Contacts \cup Deals \cup Plans \cup Items
    BY IdsAreDistinct DEF New
  <2> QED BY <1>2, <2>1, <2>2 DEF CreateCycle, CreateOrg, Insert, columns, In
<1>3. CASE ~Refuse(h) /\ (UpdateCycle(h) \/ UpdateContact(h) \/ SetImage(h) \/ Fail(h))
  BY <1>3 DEF UpdateCycle, UpdateContact, SetImage, Fail, columns, In
<1>4. CASE ~Refuse(h) /\ (UnsetOthers(h) \/ StoreImage(h) \/ StoreItem(h) \/ RemoveObject(h))
  BY <1>4 DEF UnsetOthers, StoreImage, StoreItem, RemoveObject, Upload, columns, In
<1>5. CASE ~Refuse(h) /\ (RemoveCycle(h) \/ RemoveOrg(h) \/ RemoveContact(h) \/ RemoveItem(h))
  <2>1. req[h].id \notin Deals /\ \A o : Cascaded(o) \cap Deals = {}
    BY <1>5, IdsAreDistinct
       DEF RemoveCycle, RemoveOrg, RemoveContact, RemoveItem, At, Typed, AllFormed, Formed, Cascaded, In
  <2>2. PICK S : rows' = rows \ S /\ S \cap Deals = {}
    <3>1. \/ rows' = rows \ {req[h].id}
          \/ rows' = rows \ ({req[h].id} \cup Cascaded(req[h].id))
      BY <1>5 DEF RemoveCycle, RemoveOrg, RemoveContact, RemoveItem, Remove
    <3>2. ({req[h].id} \cup Cascaded(req[h].id)) \cap Deals = {} /\ {req[h].id} \cap Deals = {}
      BY <2>1
    <3> QED BY <3>1, <3>2
  <2>3. /\ UNCHANGED <<status, orgOf, primary, planOf, image, item, objects>>
        /\ ~(RemoveOrg(h) \/ RemoveContact(h)) => deal' = deal
    BY <1>5 DEF RemoveCycle, RemoveOrg, RemoveContact, RemoveItem, columns
  <2> QED BY <1>5, <2>2, <2>3 DEF In
<1>6. CASE ~Refuse(h) /\ RemoveDeal(h)
  BY <1>6 DEF RemoveDeal, Remove, columns, In
<1>7. CASE ~Refuse(h) /\ CreateContact(h)
  <2>1. PICK k \in New(Contacts) : Insert(k)
    BY <1>7 DEF CreateContact
  <2>2. k \notin Deals \cup Plans \cup Items
    BY IdsAreDistinct DEF New
  <2> QED BY <1>7, <2>1, <2>2 DEF CreateContact, Insert, In
<1>8. CASE ~Refuse(h) /\ CreatePlan(h)
  <2>1. PICK p \in New(Plans) : Insert(p)
    BY <1>8 DEF CreatePlan
  <2>2. p \notin Deals \cup Contacts \cup Items
    BY IdsAreDistinct DEF New
  <2> QED BY <1>8, <2>1, <2>2 DEF CreatePlan, Insert, In
<1>9. CASE ~Refuse(h) /\ CreateItem(h)
  <2>1. PICK i \in New(Items) : Insert(i)
    BY <1>9 DEF CreateItem
  <2>2. i \notin Deals \cup Contacts \cup Plans
    BY IdsAreDistinct DEF New
  <2> QED BY <1>9, <2>1, <2>2 DEF CreateItem, Insert, In
<1>10. CASE ~Refuse(h) /\ WriteDeal(h)
  <2>1. PICK x \in Deals : Insert(x)
    BY <1>10, WriteDealTyped
  <2>2. x \notin Contacts \cup Plans \cup Items
    BY IdsAreDistinct
  <2>3. UNCHANGED <<status, orgOf, primary, planOf, image, item, objects>>
    BY <1>10, WriteDealTyped
  <2> QED BY <1>10, <2>1, <2>2, <2>3 DEF Insert, In
<1> QED BY <1>1, <1>2, <1>3, <1>4, <1>5, <1>6, <1>7, <1>8, <1>9, <1>10 DEF Step

Going(h) == /\ SameRequest(req'[h], req[h]) /\ req[h].op # "idle"
            /\ req[h].of \in {"contact.create", "contact.update", "plan.image", "item.create",
                              "item.remove"}
            /\ UnsetOthers(h) \/ (req[h].op = "store" /\ req'[h].op = "write")

LEMMA StepRequests ==
    ASSUME Typed, NEW h \in Handlers, Step(h)
    PROVE  Others(h) /\ (req'[h] = Idle \/ req' = req \/ Going(h))
<1>1. CASE CreateCycle(h) \/ CreateOrg(h)
  BY <1>1, CreateRootTyped DEF Others
<1>2. CASE UpdateCycle(h) \/ RemoveCycle(h) \/ RemoveOrg(h) \/ CreateContact(h) \/ UpdateContact(h)
           \/ RemoveContact(h) \/ WriteDeal(h) \/ RemoveDeal(h) \/ CreatePlan(h) \/ SetImage(h)
           \/ CreateItem(h) \/ RemoveItem(h) \/ Fail(h)
  BY <1>2, UpdateCycleTyped, RemoveCycleTyped, RemoveOrgTyped, CreateContactTyped,
     UpdateContactTyped, RemoveContactTyped, WriteDealTyped, RemoveDealTyped, CreatePlanTyped,
     SetImageTyped, CreateItemTyped, RemoveItemTyped, FailTyped
     DEF Ends
<1>3. CASE UnsetOthers(h)
  BY <1>3, UnsetOthersTyped DEF UnsetOthers, At, Going
<1>4. CASE StoreImage(h)
  <2>1. req[h].op = "store" /\ req[h].of = "plan.image" /\ (Refuse(h) \/ GoTo(h, "write"))
    BY <1>4 DEF StoreImage, At
  <2> QED BY <2>1, RefuseTyped, GoToHolds DEF Ends, Going
<1>5. CASE StoreItem(h)
  <2>1. /\ req[h].op = "store" /\ req[h].of = "item.create"
        /\ Refuse(h) \/ Respond(h) \/ GoTo(h, "write")
    BY <1>5 DEF StoreItem, At
  <2>2. Respond(h) => req'[h] = Idle
    BY DEF Respond, Typed, TypeOK
  <2> QED BY <1>5, <2>1, <2>2, RefuseTyped, StoreItemTyped, GoToHolds DEF Ends, Going
<1>6. CASE RemoveObject(h)
  BY <1>6, GoToHolds DEF RemoveObject, At, Going
<1> QED BY <1>1, <1>2, <1>3, <1>4, <1>5, <1>6 DEF Step

-----------------------------------------------------------------------------
\* Plans.

LEMMA PlansStay ==
    ASSUME OnePlanPerCycle, planOf' = planOf, In(Plans)' \subseteq In(Plans)
    PROVE  OnePlanPerCycle'
BY DEF OnePlanPerCycle, In

LEMMA CreatePlanOnce ==
    ASSUME Typed, OnePlanPerCycle, NEW h \in Handlers, CreatePlan(h)
    PROVE  OnePlanPerCycle'
<1>1. CASE Refuse(h)
  BY <1>1, PlansStay DEF Refuse, columns, In
<1>2. CASE ~Refuse(h)
  <2>1. PICK p \in New(Plans) : Insert(p) /\ planOf' = [planOf EXCEPT ![p] = req[h].to.cycle]
    BY <1>2 DEF CreatePlan
  <2>2. \A q \in In(Plans) : planOf[q] # req[h].to.cycle
    BY <1>2 DEF CreatePlan, PlanTaken
  <2>3. p \in Plans /\ p \notin rows
    BY NewIsNew
  <2> QED BY <2>1, <2>2, <2>3 DEF Insert, OnePlanPerCycle, In, Typed, TypeOK
<1> QED BY <1>1, <1>2

\* A cycle has one venue plan, whoever creates one for it at the same time.
THEOREM OnePlan == Spec => []OnePlanPerCycle
<1>1. Init => OnePlanPerCycle
  BY DEF Init, OnePlanPerCycle, In
<1>2. Typed /\ OnePlanPerCycle /\ [Next]_vars => OnePlanPerCycle'
  <2> SUFFICES ASSUME Typed, OnePlanPerCycle, [Next]_vars PROVE OnePlanPerCycle'
    OBVIOUS
  <2>1. CASE UNCHANGED vars
    BY <2>1, PlansStay DEF vars, columns, In
  <2>2. ASSUME NEW h \in Handlers, Looks(h) PROVE OnePlanPerCycle'
    BY <2>2, LooksTyped, PlansStay DEF Begins, columns, In
  <2>3. ASSUME NEW h \in Handlers, Step(h) PROVE OnePlanPerCycle'
    BY <2>3, Footprints, PlansStay, CreatePlanOnce
  <2> QED BY <2>1, <2>2, <2>3, NextIs
<1> QED BY <1>1, <1>2, AlwaysTyped, PTL DEF Spec

-----------------------------------------------------------------------------
\* The contact of a participation.

Sound == Typed /\ NoDanglingReference /\ PartiesChecked /\ ContactBelongsToOrganization

\* Participations keep their organization and keep or lose their contact.
SameParties == \A d \in Deals : /\ deal'[d].org = deal[d].org
                                /\ deal'[d].contact \in {deal[d].contact, None}

LEMMA PartiesTyped ==
    ASSUME Typed, NEW h \in Handlers, Writing(req[h])
    PROVE  /\ req[h].id \in Deals \cup {None}
           /\ ContactOf(req[h]) \in Contacts \cup {None}
<1>1. req[h].id \in Deals \cup {None}
  BY DEF Writing, Typed, AllFormed, Formed
<1>2. req[h].to \in Fields
  BY DEF Typed, TypeOK, Request
<1>3. OldParties(req[h]).contact \in Contacts \cup {None}
  BY <1>1 DEF OldParties, Typed, TypeOK, DealColumns
<1> QED BY <1>1, <1>2, <1>3 DEF ContactOf, NextContact, Or, Fields

LEMMA OrgsStay ==
    ASSUME Typed, NEW h \in Handlers, Step(h)
    PROVE  used \subseteq used' /\ \A k \in Contacts \cap used : orgOf'[k] = orgOf[k]
<1>1. used \subseteq used'
  BY DEF Step, CreateCycle, UpdateCycle, RemoveCycle, CreateOrg, RemoveOrg, UnsetOthers,
         CreateContact, UpdateContact, RemoveContact, WriteDeal, RemoveDeal, CreatePlan, StoreImage,
         SetImage, StoreItem, CreateItem, RemoveObject, RemoveItem, Fail, Refuse, Insert, Remove, Upload
<1>2. CASE CreateContact(h) /\ ~Refuse(h)
  <2>1. PICK k \in New(Contacts) : orgOf' = [orgOf EXCEPT ![k] = req[h].to.org]
    BY <1>2 DEF CreateContact
  <2> QED BY <1>1, <2>1, NewIsNew DEF Typed, TypeOK
<1>3. CASE ~CreateContact(h) \/ Refuse(h)
  BY <1>1, <1>3, Footprints DEF Refuse, columns
<1> QED BY <1>2, <1>3

\* What was found for one request stays true while another writes.
LEMMA MatchingStays ==
    ASSUME Typed, NEW g \in Handlers, Writing(req[g]), Matching(req[g]), req'[g] = req[g],
           used \subseteq used', \A k \in Contacts \cap used : orgOf'[k] = orgOf[k],
           req[g].id \in Deals => /\ deal'[req[g].id].org = deal[req[g].id].org
                                  /\ deal'[req[g].id].contact \in {deal[req[g].id].contact, None}
    PROVE  Matching(req[g])'
<1> DEFINE r == req[g]
<1>1. r.id \in Deals \cup {None} /\ ContactOf(r) \in Contacts \cup {None}
  BY PartiesTyped
<1>2. /\ ContactOf(r)' = NextContact(r.to, OldParties(r)'.contact)
      /\ OrgOf(r)' = Or(r.to.org, OldParties(r)'.org)
  BY DEF ContactOf, OrgOf, NextContact, Or
<1>3. /\ OldParties(r)'.org = OldParties(r).org
      /\ OldParties(r)'.contact \in {OldParties(r).contact, None}
  BY <1>1 DEF OldParties
<1>4. OrgOf(r)' = OrgOf(r) /\ ContactOf(r)' \in {ContactOf(r), None}
  BY <1>2, <1>3 DEF ContactOf, OrgOf, NextContact, Or
<1>5. ContactOf(r)' # None => ContactOf(r)' \in used' /\ orgOf'[ContactOf(r)'] = OrgOf(r)'
  BY <1>1, <1>4 DEF Matching
<1> QED BY <1>5 DEF Matching

\* Everything but a write of a participation.
\* A request that is about to write a participation nobody else is about.
Checks(r) == Writing(r) /\ (r.id = None \/ r.id \in rows \ disturbed)

LEMMA PartiesStay ==
    ASSUME Sound, NoDanglingReference', Typed', SameParties, In(Deals)' \subseteq In(Deals),
           used \subseteq used', \A k \in Contacts \cap used : orgOf'[k] = orgOf[k],
           disturbed \subseteq disturbed',
           \A g \in Handlers : Checks(req[g])' => req'[g] = req[g] \/ Matching(req[g])'
    PROVE  Sound'
<1>1. ContactBelongsToOrganization'
  <2> SUFFICES ASSUME NEW d \in In(Deals)' \ disturbed', deal'[d].contact # None
               PROVE  deal'[d].contact \in rows' /\ orgOf'[deal'[d].contact] = deal'[d].org
    BY DEF ContactBelongsToOrganization, BelongsTo
  <2>1. d \in In(Deals) \ disturbed /\ d \in Deals
    BY DEF In
  <2>2. deal'[d].contact = deal[d].contact /\ deal'[d].org = deal[d].org
    BY <2>1 DEF SameParties
  <2>3. deal[d].contact \in rows /\ orgOf[deal[d].contact] = deal[d].org
    BY <2>1, <2>2 DEF Sound, ContactBelongsToOrganization, BelongsTo
  <2>4. deal[d].contact \in Contacts \cap used
    BY <2>1, <2>2, <2>3 DEF Sound, Typed, TypeOK, DealColumns
  <2>5. deal'[d].contact \in rows'
    BY DEF NoDanglingReference, ForeignKeys
  <2> QED BY <2>2, <2>3, <2>4, <2>5
<1>2. PartiesChecked'
  <2> SUFFICES ASSUME NEW g \in Handlers, Checks(req[g])', req'[g] = req[g]
               PROVE  Matching(req[g])'
    BY DEF PartiesChecked, Checks
  <2>1. Writing(req[g]) /\ (req[g].id = None \/ req[g].id \in rows' \ disturbed')
    BY DEF Checks, Writing
  <2>2. req[g].id \in Deals \cup {None}
    BY <2>1, PartiesTyped DEF Sound
  <2>3. req[g].id = None \/ req[g].id \in rows \ disturbed
    BY <2>1, <2>2 DEF In
  <2>4. Matching(req[g])
    BY <2>1, <2>3 DEF Sound, PartiesChecked
  <2> QED BY <2>1, <2>2, <2>4, MatchingStays DEF Sound, SameParties
<1> QED BY <1>1, <1>2 DEF Sound

LEMMA LooksSound ==
    ASSUME Sound, NEW h \in Handlers, Looks(h)
    PROVE  Sound'
<1>1. Typed' /\ (\E of \in Operations : Begins(h, of))
  BY LooksTyped DEF Sound
<1>2. UNCHANGED <<workload, rows, used, columns, objects>> /\ Others(h)
  BY <1>1 DEF Begins
<1>3. NoDanglingReference'
  BY <1>2, ReferencesStay DEF Sound, columns
<1>4. SameParties /\ In(Deals)' \subseteq In(Deals)
  BY <1>2 DEF SameParties, In, columns
<1>5. ASSUME Checks(req[h])' PROVE Matching(req[h])'
  <2>1. Writing(req'[h]) /\ (req'[h].id = None \/ req'[h].id \in rows' \ disturbed')
    BY <1>5 DEF Checks, Writing
  <2>2. req'[h].of \in {"deal.create", "deal.update"}
    BY <2>1 DEF Writing
  <2>3. CreateDealCheck(h) \/ UpdateDealCheck(h)
    BY <2>2, UpdateCycleCheckTyped, RemoveCheckTyped, ContactCheckTyped, RemoveDealCheckTyped,
       PlanCheckTyped, CreateItemCheckTyped, RemoveItemCheckTyped
       DEF Looks, Begins, Sound
  <2>4. Matching(req'[h])
    <3>1. CASE CreateDealCheck(h)
      BY <3>1, CreateDealCheckTyped DEF Sound
    <3>2. CASE UpdateDealCheck(h)
      <4>1. req'[h].id \in Deals /\ req'[h].id \in Rows
        BY <3>2, <1>1, UpdateDealCheckTyped DEF Sound, Begins, Typed, AllFormed, Formed, Rows
      <4>2. req'[h].id \in In(Deals) \ disturbed
        BY <1>2, <2>1, <4>1, NoneIsNoRow DEF In, Others
      <4>3. BelongsTo(deal[req'[h].id].contact, deal[req'[h].id].org)
        BY <4>2 DEF Sound, ContactBelongsToOrganization
      <4> QED BY <3>2, <4>3, UpdateDealCheckTyped DEF Sound, Matching, BelongsTo, Typed, TypeOK
    <3> QED BY <2>3, <3>1, <3>2
  <2>5. deal' = deal /\ used' = used /\ orgOf' = orgOf
    BY <1>2 DEF columns
  <2> QED BY <2>4, <2>5 DEF Matching, ContactOf, OrgOf, OldParties, NextContact, Or
<1> QED BY <1>1, <1>2, <1>3, <1>4, <1>5, PartiesStay DEF Others, columns

LEMMA WriteDealSound ==
    ASSUME Sound, NEW h \in Handlers, WriteDeal(h)
    PROVE  Sound'
<1>1. Typed' /\ Ends(h) /\ NoDanglingReference'
  BY WriteDealTyped, InsertReferences DEF Sound
<1>2. /\ \A g \in Handlers : Checks(req[g])' => g # h /\ req'[g] = req[g]
      /\ disturbed \subseteq disturbed'
  BY <1>1, IdleIsRequest DEF Ends, Others, Checks, Writing
<1>3. CASE Refuse(h)
  BY <1>1, <1>2, <1>3, PartiesStay DEF Refuse, columns, SameParties, In
<1>4. CASE ~Refuse(h)
  <2> DEFINE d == req[h].id
  <2>1. PICK x \in Deals : /\ (x \in rows /\ x = d) \/ (x \notin used /\ d = None)
                           /\ Insert(x) /\ deal' = [deal EXCEPT ![x] = NewRow(h)]
    BY <1>4, WriteDealTyped DEF Sound
  <2>2. NewRow(h) \in DealColumns /\ ForeignKeys(NewRow(h)) /\ orgOf' = orgOf
    BY <1>4, WriteDealTyped DEF Sound
  <2>3. NewRow(h).org = OrgOf(req[h]) /\ NewRow(h).contact = ContactOf(req[h])
    BY DEF NewRow, OldRow, OrgOf, ContactOf, OldParties
  <2>4. /\ deal'[x] = NewRow(h) /\ \A e \in Deals \ {x} : deal'[e] = deal[e]
        /\ rows' = rows \cup {x} /\ used' = used \cup {x} /\ x # None
    BY <2>1, NoneIsNoRow DEF Sound, Typed, TypeOK, Insert, Rows
  <2>5. Writing(req[h]) /\ (d = None \/ (d = x /\ req[h].of = "deal.update"))
    BY <2>1, <2>4 DEF WriteDeal, At, Writing, Sound, Typed, AllFormed, Formed
  <2>6. ContactBelongsToOrganization'
    <3> SUFFICES ASSUME NEW e \in In(Deals)' \ disturbed', deal'[e].contact # None
                 PROVE  deal'[e].contact \in rows' /\ orgOf'[deal'[e].contact] = deal'[e].org
      BY DEF ContactBelongsToOrganization, BelongsTo
    <3>1. CASE e = x
      <4>1. Matching(req[h])
        BY <1>2, <2>1, <2>5, <3>1 DEF Sound, PartiesChecked
      <4>2. NewRow(h).contact \in rows
        BY <2>2, <2>4, <3>1 DEF ForeignKeys
      <4> QED BY <2>2, <2>3, <2>4, <3>1, <4>1, <4>2 DEF Matching
    <3>2. CASE e # x
      <4>1. e \in In(Deals) \ disturbed /\ deal'[e] = deal[e]
        BY <1>2, <2>4, <3>2 DEF In
      <4> QED BY <2>2, <2>4, <4>1 DEF Sound, ContactBelongsToOrganization, BelongsTo
    <3> QED BY <3>1, <3>2
  <2>7. PartiesChecked'
    <3> SUFFICES ASSUME NEW g \in Handlers, Checks(req[g])' PROVE Matching(req[g])'
      BY DEF PartiesChecked, Checks
    <3>1. /\ g # h /\ req'[g] = req[g] /\ Writing(req[g])
          /\ req[g].id = None \/ req[g].id \in rows' \ disturbed'
      BY <1>2 DEF Checks, Writing
    <3>2. req[g].id \in Deals \cup {None}
      BY <3>1, PartiesTyped DEF Sound
    <3>3. req[g].id # x
      <4> SUFFICES ASSUME req[g].id = x PROVE FALSE
        OBVIOUS
      <4>1. x \in used /\ x \in req[g].about
        BY <2>4, <3>1 DEF Writing, Sound, Typed, AllFormed, Formed
      <4>2. x \in req[h].about
        BY <2>1, <2>4, <2>5, <4>1 DEF Sound, Typed, AllFormed, Formed
      <4>3. x \in disturbed
        BY <3>1, <4>1, <4>2 DEF Sound, Typed, MeetingsAreSeen
      <4> QED BY <1>2, <2>4, <3>1, <4>3
    <3>4. req[g].id = None \/ req[g].id \in rows \ disturbed
      BY <1>2, <2>4, <3>1, <3>3
    <3>5. Matching(req[g])
      BY <3>1, <3>4 DEF Sound, PartiesChecked
    <3>6. /\ used \subseteq used' /\ \A k \in Contacts \cap used : orgOf'[k] = orgOf[k]
          /\ req[g].id \in Deals => /\ deal'[req[g].id].org = deal[req[g].id].org
                                    /\ deal'[req[g].id].contact \in {deal[req[g].id].contact, None}
      BY <2>2, <2>4, <3>3
    <3> QED BY <3>1, <3>5, <3>6, MatchingStays DEF Sound
  <2> QED BY <1>1, <2>6, <2>7 DEF Sound
<1> QED BY <1>3, <1>4

LEMMA StepSound ==
    ASSUME Sound, NEW h \in Handlers, Step(h)
    PROVE  Sound'
<1>1. CASE WriteDeal(h)
  BY <1>1, WriteDealSound
<1>2. CASE ~WriteDeal(h)
  <2>1. Typed' /\ NoDanglingReference'
    BY StepTyped, StepReferences DEF Sound
  <2>2. In(Deals)' \subseteq In(Deals)
    BY <1>2, Footprints DEF Sound
  <2>3. SameParties
    <3>1. CASE RemoveOrg(h) \/ RemoveContact(h)
      <4>1. deal' = deal \/ deal' = Forgetting({req[h].id}) \/ deal' = Forgetting(Cascaded(req[h].id))
        BY <3>1 DEF RemoveOrg, RemoveContact, Refuse, columns
      <4> QED BY <4>1, ForgettingTyped DEF Sound, SameParties
    <3>2. CASE ~(RemoveOrg(h) \/ RemoveContact(h))
      BY <1>2, <3>2, Footprints DEF Sound, SameParties
    <3> QED BY <3>1, <3>2
  <2>4. disturbed \subseteq disturbed'
    BY StepRequests DEF Sound, Others
  <2>5. \A g \in Handlers : Checks(req[g])' => req'[g] = req[g]
    BY StepRequests, IdleIsRequest DEF Sound, Others, Going, SameRequest, Checks, Writing
  <2> QED BY <2>1, <2>2, <2>3, <2>4, <2>5, OrgsStay, PartiesStay DEF Sound
<1> QED BY <1>1, <1>2

\* The primary contact of a participation works for its organization, however requests
\* change the two, as long as no other request is about the participation.
THEOREM ContactBelongs == Spec => []ContactBelongsToOrganization
<1>1. Init => PartiesChecked /\ ContactBelongsToOrganization
  BY IdleIsRequest DEF Init, PartiesChecked, Writing, ContactBelongsToOrganization, In
<1>2. Sound /\ [Next]_vars => Sound'
  <2> SUFFICES ASSUME Sound, [Next]_vars PROVE Sound'
    OBVIOUS
  <2>1. CASE UNCHANGED vars
    <3>1. Typed' /\ NoDanglingReference' /\ SameParties /\ In(Deals)' \subseteq In(Deals)
      BY <2>1, NextTyped, NextReferences DEF Sound, SameParties, In, vars, columns
    <3> QED BY <2>1, <3>1, PartiesStay DEF vars, columns
  <2> QED BY <2>1, LooksSound, StepSound, NextIs
<1>3. Init => NoDanglingReference
  BY DEF Init, NoDanglingReference, In
<1>4. Init => Sound
  BY <1>1, <1>3, InitTyped DEF Sound
<1>5. Sound => ContactBelongsToOrganization
  BY DEF Sound
<1> QED BY <1>2, <1>4, <1>5, PTL DEF Spec

-----------------------------------------------------------------------------
\* The primary contact of an organization.

Lone == Typed /\ primary \subseteq used /\ OthersAreUnset /\ OnePrimaryContact

\* Nothing becomes primary: what a request has unset is still all there was.
LEMMA PrimariesStay ==
    ASSUME Lone, Typed', primary' \subseteq used', In(primary)' \subseteq In(primary),
           used \subseteq used', \A k \in Contacts \cap used : orgOf'[k] = orgOf[k],
           disturbed \subseteq disturbed',
           \A g \in Handlers : req'[g].op = "unset" =>
               \/ req'[g] = req[g]
               \/ OtherPrimaries(req[g].to.org, req[g].id)' \subseteq req'[g].unset
    PROVE  Lone'
<1>1. \A k \in In(primary)' : k \in In(primary) /\ k \in In(Contacts) /\ orgOf'[k] = orgOf[k]
  BY DEF Lone, Typed, TypeOK, In
<1>2. OnePrimaryContact'
  BY <1>1 DEF Lone, OnePrimaryContact
<1>3. OthersAreUnset'
  <2> SUFFICES ASSUME NEW g \in Handlers, req'[g].op = "unset", req'[g].to.org \notin disturbed',
                      req'[g] = req[g],
                      NEW j \in OtherPrimaries(req[g].to.org, req[g].id)'
               PROVE  j \in req'[g].unset
    BY DEF OthersAreUnset
  <2>1. j \in OtherPrimaries(req[g].to.org, req[g].id)
    BY <1>1 DEF OtherPrimaries, In
  <2> QED BY <2>1 DEF Lone, OthersAreUnset
<1> QED BY <1>2, <1>3 DEF Lone

\* The one statement that makes a contact primary.
LEMMA BecomesPrimary ==
    ASSUME Lone, Typed', NEW h \in Handlers, Ends(h), disturbed' = disturbed, NEW k \in Contacts,
           req[h].op = Unsetting(h), req[h].about = {req[h].to.org},
           \/ k = req[h].id /\ k \in rows
           \/ req[h].id = None /\ k \notin used,
           primary' = PrimaryAfter(h, k), rows' = rows \cup {k}, used' = used \cup {k},
           orgOf'[k] = req[h].to.org, \A j \in Contacts \cap used : orgOf'[j] = orgOf[j]
    PROVE  Lone'
<1> DEFINE o == req[h].to.org
<1>1. k # None /\ rows \subseteq used
  BY NoneIsNoRow DEF Lone, Typed, TypeOK, Rows
<1>2. primary' \subseteq used'
  BY DEF PrimaryAfter, Lone
<1>3. \A g \in Handlers : req'[g].op = "unset" => g # h /\ req'[g] = req[g]
  BY IdleIsRequest DEF Ends, Others
<1>4. CASE req[h].to.primary # "yes"
  <2>1. req[h].unset = {}
    BY <1>4 DEF Unsetting, Lone, Typed, AllFormed, Formed
  <2>2. In(primary)' \subseteq In(primary)
    BY <1>1, <1>4, <2>1 DEF PrimaryAfter, In, Lone
  <2> QED BY <1>2, <1>3, <2>2, PrimariesStay
<1>5. CASE req[h].to.primary = "yes"
  <2>1. req[h].op = "unset" /\ In(primary)' \subseteq (In(primary) \ req[h].unset) \cup {k}
    BY <1>5 DEF Unsetting, PrimaryAfter, In
  <2>2. ASSUME NEW j \in In(primary)', j # k
        PROVE  /\ j \in In(primary) /\ j \in In(Contacts) /\ orgOf'[j] = orgOf[j]
               /\ o \notin disturbed => orgOf'[j] # o
    <3>1. j \in In(primary) /\ j \in In(Contacts) /\ j \notin req[h].unset
      BY <2>1, <2>2 DEF Lone, Typed, TypeOK, In
    <3>2. orgOf'[j] = orgOf[j]
      BY <1>1, <3>1 DEF In
    <3>3. j # req[h].id
      BY <2>2, <3>1, NoneIsNoRow DEF In, Rows
    <3>4. CASE o \notin disturbed /\ orgOf[j] = o
      <4>1. j \in OtherPrimaries(o, req[h].id)
        BY <3>1, <3>3, <3>4 DEF OtherPrimaries, In
      <4> QED BY <2>1, <3>1, <3>4, <4>1 DEF Lone, OthersAreUnset
    <3> QED BY <3>1, <3>2, <3>4
  <2>3. OnePrimaryContact'
    <3> SUFFICES ASSUME NEW i \in In(primary)', NEW j \in In(primary)', orgOf'[i] = orgOf'[j],
                        orgOf'[i] \notin disturbed'
                 PROVE  i = j
      BY DEF OnePrimaryContact
    <3>1. CASE i = k \/ j = k
      BY <2>2, <3>1
    <3>2. CASE i # k /\ j # k
      BY <2>2, <3>2 DEF Lone, OnePrimaryContact
    <3> QED BY <3>1, <3>2
  <2>4. OthersAreUnset'
    <3> SUFFICES ASSUME NEW g \in Handlers, req'[g].op = "unset", req'[g].to.org \notin disturbed',
                        NEW j \in OtherPrimaries(req[g].to.org, req[g].id)'
                 PROVE  j \in req'[g].unset
      BY DEF OthersAreUnset
    <3>1. g # h /\ req'[g] = req[g] /\ req[g].to.org \notin disturbed
      BY <1>3
    <3>2. req[g].about = {req[g].to.org}
      BY <3>1 DEF Lone, Typed, AllFormed, Formed
    <3>3. req[g].to.org # o
      BY <3>1, <3>2 DEF Lone, Typed, MeetingsAreSeen
    <3>4. j # k /\ j \in In(primary)' /\ orgOf'[j] = req[g].to.org /\ j # req[g].id
      BY <3>1, <3>3 DEF OtherPrimaries, In
    <3>5. j \in OtherPrimaries(req[g].to.org, req[g].id)
      BY <2>2, <3>4 DEF OtherPrimaries, In
    <3> QED BY <3>1, <3>5 DEF Lone, OthersAreUnset
  <2> QED BY <1>2, <2>3, <2>4 DEF Lone
<1> QED BY <1>4, <1>5

LEMMA LooksLone ==
    ASSUME Lone, NEW h \in Handlers, Looks(h)
    PROVE  Lone'
<1>1. Typed' /\ Others(h) /\ UNCHANGED <<workload, rows, used, columns, objects>>
  BY LooksTyped DEF Lone, Begins
<1>2. req'[h].op # "unset"
  <2> SUFFICES ASSUME req'[h].op = "unset" PROVE FALSE
    OBVIOUS
  <2>1. req'[h].of \in {"contact.create", "contact.update"}
    BY <1>1 DEF Typed, AllFormed, Formed
  <2>2. CreateContactCheck(h) \/ UpdateContactCheck(h) \/ RemoveContactCheck(h)
    BY <2>1, UpdateCycleCheckTyped, RemoveCheckTyped, CreateDealCheckTyped, UpdateDealCheckTyped,
       RemoveDealCheckTyped, PlanCheckTyped, CreateItemCheckTyped, RemoveItemCheckTyped
       DEF Looks, Begins, Lone
  <2> QED BY <2>2, ContactCheckTyped DEF Lone
<1> QED BY <1>1, <1>2, PrimariesStay DEF Lone, Others, columns, In

LEMMA WriteContactLone ==
    ASSUME Lone, NEW h \in Handlers, CreateContact(h) \/ UpdateContact(h)
    PROVE  Lone'
<1>1. Typed' /\ Ends(h)
  BY CreateContactTyped, UpdateContactTyped DEF Lone
<1>2. CASE Refuse(h)
  BY <1>1, <1>2, PrimariesStay, IdleIsRequest DEF Refuse, Respond, Ends, Others, Lone, columns, In
<1>3. CASE ~Refuse(h) /\ CreateContact(h)
  <2>1. PICK k \in New(Contacts) : /\ Insert(k) /\ orgOf' = [orgOf EXCEPT ![k] = req[h].to.org]
                                   /\ primary' = PrimaryAfter(h, k)
    BY <1>3 DEF CreateContact
  <2>2. k \in Contacts /\ k \notin used /\ disturbed' = disturbed
    BY <1>3, NewIsNew DEF CreateContact, Respond, Lone
  <2>3. /\ req[h].op = Unsetting(h) /\ req[h].about = {req[h].to.org} /\ req[h].id = None
    BY <1>3 DEF CreateContact, At, Lone, Typed, AllFormed, Formed
  <2>4. orgOf'[k] = req[h].to.org /\ \A j \in Contacts \cap used : orgOf'[j] = orgOf[j]
    BY <2>1, <2>2 DEF Lone, Typed, TypeOK
  <2> QED BY <1>1, <2>1, <2>2, <2>3, <2>4, BecomesPrimary DEF Insert
<1>4. CASE ~Refuse(h) /\ UpdateContact(h)
  <2> DEFINE k == req[h].id
  <2>1. k \in rows /\ primary' = PrimaryAfter(h, k) /\ UNCHANGED <<rows, used, orgOf, disturbed>>
    BY <1>4 DEF UpdateContact, Respond
  <2>2. /\ req[h].op = Unsetting(h) /\ req[h].about = {req[h].to.org}
        /\ k \in Contacts \cap used /\ req[h].to.org = orgOf[k]
    BY <1>4 DEF UpdateContact, At, Lone, Typed, AllFormed, Formed
  <2>3. k \in Contacts /\ rows' = rows \cup {k} /\ used' = used \cup {k}
    BY <2>1, <2>2
  <2> QED BY <1>1, <2>1, <2>2, <2>3, BecomesPrimary
<1> QED BY <1>2, <1>3, <1>4

LEMMA StepLone ==
    ASSUME Lone, NEW h \in Handlers, Step(h)
    PROVE  Lone'
<1>1. CASE CreateContact(h) \/ UpdateContact(h)
  BY <1>1, WriteContactLone
<1>2. CASE ~(CreateContact(h) \/ UpdateContact(h))
  <2>1. primary' = primary /\ In(Contacts)' \subseteq In(Contacts)
    BY <1>2, Footprints DEF Lone
  <2>2. In(primary)' \subseteq In(primary)
    BY <2>1 DEF In, Lone, Typed, TypeOK
  <2>3. ASSUME NEW g \in Handlers, req'[g].op = "unset"
        PROVE  \/ req'[g] = req[g]
               \/ OtherPrimaries(req[g].to.org, req[g].id)' \subseteq req'[g].unset
    <3>1. req'[g] = req[g] \/ (g = h /\ UnsetOthers(h))
      BY <2>3, StepRequests, IdleIsRequest DEF Lone, Others, Going
    <3>2. CASE g = h /\ UnsetOthers(h)
      <4>1. /\ SameRequest(req'[h], req[h])
            /\ req'[h].unset = OtherPrimaries(req[h].to.org, req[h].id)
            /\ UNCHANGED <<rows, columns>>
        BY <3>2, UnsetOthersTyped DEF Lone
      <4> QED BY <3>2, <4>1 DEF SameRequest, OtherPrimaries, In, columns
    <3> QED BY <3>1, <3>2
  <2>4. Typed' /\ disturbed \subseteq disturbed'
    BY StepTyped, StepRequests DEF Lone, Others
  <2>5. used \subseteq used' /\ \A k \in Contacts \cap used : orgOf'[k] = orgOf[k]
    BY OrgsStay DEF Lone
  <2>6. primary' \subseteq used'
    BY <2>1, <2>5 DEF Lone
  <2> QED BY <2>2, <2>3, <2>4, <2>5, <2>6, PrimariesStay
<1> QED BY <1>1, <1>2

\* An organization has at most one primary contact, as long as its contacts are changed
\* by one request at a time, whatever else is in flight.
THEOREM OnePrimary == Spec => []OnePrimaryContact
<1>1. Init => Lone
  BY InitTyped, IdleIsRequest DEF Init, Lone, OthersAreUnset, OnePrimaryContact, In
<1>2. Lone /\ [Next]_vars => Lone'
  <2> SUFFICES ASSUME Lone, [Next]_vars PROVE Lone'
    OBVIOUS
  <2>1. CASE UNCHANGED vars
    <3>1. Typed' /\ In(primary)' \subseteq In(primary)
      BY <2>1, NextTyped DEF Lone, In, vars, columns
    <3> QED BY <2>1, <3>1, PrimariesStay DEF Lone, vars, columns
  <2> QED BY <2>1, LooksLone, StepLone, NextIs
<1>3. Lone => OnePrimaryContact
  BY DEF Lone
<1> QED BY <1>1, <1>2, <1>3, PTL DEF Spec

-----------------------------------------------------------------------------
\* Closed cycles.

Legal == Typed /\ TransitionIsLegal /\ EntersOpenCycle

\* A status changes only in a request about its cycle, or before the cycle exists.
LEMMA StatusChanges ==
    ASSUME Typed, NEW h \in Handlers, Step(h), NEW c \in Cycles
    PROVE  \/ status'[c] = status[c]
           \/ /\ UpdateCycle(h) /\ req[h].of = "cycle.update" /\ c = req[h].id
              /\ status'[c] = req[h].to.status
           \/ c \notin rows /\ status'[c] = "DRAFT"
<1>1. CASE UpdateCycle(h)
  <2>1. status' = status \/ status' = [status EXCEPT ![req[h].id] = req[h].to.status]
    BY <1>1 DEF UpdateCycle, Refuse, columns
  <2> QED BY <1>1, <2>1 DEF UpdateCycle, At, Typed, TypeOK
<1>2. CASE CreateCycle(h)
  <2>1. PICK x \in New(Cycles) : status' = [status EXCEPT ![x] = "DRAFT"]
    BY <1>2 DEF CreateCycle
  <2> QED BY <2>1, NewIsNew DEF Typed, TypeOK
<1>3. CASE ~(UpdateCycle(h) \/ CreateCycle(h))
  BY <1>3, Footprints
<1> QED BY <1>1, <1>2, <1>3

LEMMA LooksLegal ==
    ASSUME Legal, NEW h \in Handlers, Looks(h)
    PROVE  Legal'
<1>1. Typed' /\ Others(h) /\ status' = status
  BY LooksTyped DEF Legal, Begins, columns
<1>2. req'[h].of = "cycle.update" => UpdateCycleCheck(h)
  BY RemoveCheckTyped, ContactCheckTyped, CreateDealCheckTyped, UpdateDealCheckTyped,
     RemoveDealCheckTyped, PlanCheckTyped, CreateItemCheckTyped, RemoveItemCheckTyped
     DEF Looks, Begins, Legal
<1>3. TransitionIsLegal'
  BY <1>1, <1>2, UpdateCycleCheckTyped DEF Legal, TransitionIsLegal, Others
<1>4. req'[h].of \in {"deal.create", "deal.update", "plan.create"} =>
          CreateDealCheck(h) \/ UpdateDealCheck(h) \/ CreatePlanCheck(h) \/ SetImageCheck(h)
  BY UpdateCycleCheckTyped, RemoveCheckTyped, ContactCheckTyped, RemoveDealCheckTyped,
     CreateItemCheckTyped, RemoveItemCheckTyped
     DEF Looks, Begins, Legal
<1>5. req'[h].of \in {"deal.create", "deal.update", "plan.create"} /\ req'[h].to.cycle # None =>
          status[req'[h].to.cycle] # "CLOSED"
  BY <1>4, CreateDealCheckTyped, UpdateDealCheckTyped, PlanCheckTyped DEF Begins, Legal
<1>6. EntersOpenCycle'
  BY <1>1, <1>5 DEF Legal, EntersOpenCycle, Others
<1> QED BY <1>1, <1>3, <1>6 DEF Legal

LEMMA StepLegal ==
    ASSUME Legal, NEW h \in Handlers, Step(h)
    PROVE  Legal'
<1> DEFINE Kept == {"cycle.update", "deal.create", "deal.update", "plan.create"}
<1>1. Typed' /\ disturbed \subseteq disturbed'
  BY StepTyped, StepRequests DEF Legal, Others
<1>2. ASSUME NEW g \in Handlers, req'[g].of \in Kept
      PROVE  req'[g] = req[g] /\ (g = h => ~UpdateCycle(h))
  <2>1. req'[g] = req[g]
    BY <1>2, StepRequests, IdleIsRequest DEF Legal, Others, Going, SameRequest
  <2>2. g = h => ~UpdateCycle(h)
    BY <1>2, UpdateCycleTyped, IdleIsRequest DEF Legal, Ends
  <2> QED BY <2>1, <2>2
\* The cycle a request is about is not changed under it.
<1>3. ASSUME NEW g \in Handlers, req'[g].of \in Kept, NEW c \in Cycles \cap req[g].about,
             c \notin disturbed'
      PROVE  status'[c] \in {status[c], "DRAFT"}
  <2>1. CASE UpdateCycle(h) /\ req[h].of = "cycle.update" /\ c = req[h].id
    <3>1. g # h /\ c \in req[h].about
      BY <1>2, <1>3, <2>1 DEF Legal, Typed, AllFormed, Formed
    <3>2. c \in disturbed
      BY <3>1 DEF Legal, Typed, MeetingsAreSeen
    <3> QED BY <1>1, <1>3, <3>2
  <2>2. CASE ~(UpdateCycle(h) /\ req[h].of = "cycle.update" /\ c = req[h].id)
    BY <2>2, StatusChanges DEF Legal
  <2> QED BY <2>1, <2>2
<1>4. TransitionIsLegal'
  <2> SUFFICES ASSUME NEW g \in Handlers, req'[g].of = "cycle.update", req'[g].id \notin disturbed',
                      status'[req'[g].id] = "CLOSED"
               PROVE  req'[g].to.status = "CLOSED"
    BY DEF TransitionIsLegal
  <2>1. req'[g] = req[g]
    BY <1>2
  <2>2. req[g].id \in Cycles \cap req[g].about
    BY <2>1 DEF Legal, Typed, AllFormed, Formed
  <2>3. status[req[g].id] = "CLOSED"
    BY <1>3, <2>1, <2>2
  <2> QED BY <1>1, <2>1, <2>3 DEF Legal, TransitionIsLegal
<1>5. EntersOpenCycle'
  <2> SUFFICES ASSUME NEW g \in Handlers,
                      req'[g].of \in {"deal.create", "deal.update", "plan.create"},
                      req'[g].to.cycle \notin disturbed' \cup {None},
                      status'[req'[g].to.cycle] = "CLOSED"
               PROVE  FALSE
    BY DEF EntersOpenCycle
  <2>1. req'[g] = req[g] /\ req[g].to \in Fields
    BY <1>2 DEF Legal, Typed, TypeOK, Request
  <2>2. req[g].to.cycle \in Cycles \cap req[g].about
    BY <2>1 DEF Legal, Typed, AllFormed, Formed, Fields
  <2>3. status[req[g].to.cycle] = "CLOSED"
    BY <1>3, <2>1, <2>2
  <2> QED BY <1>1, <2>1, <2>3 DEF Legal, EntersOpenCycle
<1> QED BY <1>1, <1>4, <1>5 DEF Legal

LEMMA AlwaysLegal == Spec => []Legal
<1>1. Init => Legal
  BY InitTyped, IdleIsRequest DEF Init, Legal, TransitionIsLegal, EntersOpenCycle
<1>2. Legal /\ [Next]_vars => Legal'
  <2> SUFFICES ASSUME Legal, [Next]_vars PROVE Legal'
    OBVIOUS
  <2>1. CASE UNCHANGED vars
    BY <2>1, NextTyped DEF Legal, TransitionIsLegal, EntersOpenCycle, vars, columns
  <2> QED BY <2>1, LooksLegal, StepLegal, NextIs
<1> QED BY <1>1, <1>2, PTL DEF Spec

\* A closed cycle stays closed, as long as one request at a time is about it.
THEOREM ClosedForGood == Spec => ClosedIsFinal
<1>1. Legal /\ [Next]_vars =>
          [\A c \in In(Cycles) \cap rows' :
              status[c] = "CLOSED" => status'[c] = "CLOSED" \/ c \in disturbed]_vars
  <2> SUFFICES ASSUME Legal, Next, NEW c \in In(Cycles) \cap rows', status[c] = "CLOSED"
               PROVE  status'[c] = "CLOSED" \/ c \in disturbed
    OBVIOUS
  <2>1. c \in Cycles /\ c \in rows
    BY DEF In
  <2>2. ASSUME NEW h \in Handlers, Looks(h) PROVE status'[c] = status[c]
    BY <2>2, LooksTyped DEF Begins, columns, Legal
  <2>3. ASSUME NEW h \in Handlers, Step(h) PROVE status'[c] = "CLOSED" \/ c \in disturbed
    BY <2>1, <2>3, StatusChanges DEF Legal, TransitionIsLegal
  <2> QED BY <2>2, <2>3, NextIs
<1> QED BY <1>1, AlwaysLegal, PTL DEF Spec, ClosedIsFinal

\* The cycle of a participation and of a plan is the one its request checked.
LEMMA EntersChecked ==
    ASSUME Legal, NEW h \in Handlers, Step(h)
    PROVE  /\ \A d \in Deals : deal'[d].cycle \notin {deal[d].cycle} \cup disturbed =>
                  status[deal'[d].cycle] # "CLOSED"
           /\ \A p \in Plans : planOf'[p] \notin {planOf[p]} \cup disturbed =>
                  status[planOf'[p]] # "CLOSED"
<1>1. ASSUME NEW d \in Deals, deal'[d].cycle \notin {deal[d].cycle} \cup disturbed
      PROVE  status[deal'[d].cycle] # "CLOSED"
  <2>1. CASE RemoveOrg(h) \/ RemoveContact(h)
    <3>1. deal' = deal \/ deal' = Forgetting({req[h].id}) \/ deal' = Forgetting(Cascaded(req[h].id))
      BY <2>1 DEF RemoveOrg, RemoveContact, Refuse, columns
    <3> QED BY <1>1, <3>1, ForgettingTyped DEF Legal
  <2>2. CASE WriteDeal(h)
    <3>1. PICK x \in Deals : /\ (x \in rows /\ x = req[h].id) \/ (x \notin used /\ req[h].id = None)
                             /\ deal' = [deal EXCEPT ![x] = NewRow(h)]
      BY <1>1, <2>2, WriteDealTyped DEF Legal, Refuse, columns
    <3>2. d = x /\ deal'[d] = NewRow(h) /\ x # None
      BY <1>1, <3>1, NoneIsNoRow DEF Legal, Typed, TypeOK, Rows
    <3>3. NewRow(h).cycle = Or(req[h].to.cycle, OldRow(h).cycle)
      BY DEF NewRow
    <3>4. req[h].of \in {"deal.create", "deal.update"}
      BY <2>2 DEF WriteDeal, At
    <3>5. req[h].to.cycle # None
      <4>1. CASE req[h].id = None
        BY <3>2, <3>4, <4>1, NoneIsNoRow DEF Legal, Typed, AllFormed, Formed, Rows
      <4>2. CASE req[h].id = x
        BY <1>1, <3>2, <3>3, <4>2 DEF Or, OldRow
      <4> QED BY <3>1, <4>1, <4>2
    <3> QED BY <1>1, <3>2, <3>3, <3>4, <3>5 DEF Or, Legal, EntersOpenCycle
  <2>3. CASE ~(WriteDeal(h) \/ RemoveOrg(h) \/ RemoveContact(h))
    BY <1>1, <2>3, Footprints DEF Legal
  <2> QED BY <2>1, <2>2, <2>3
<1>2. ASSUME NEW p \in Plans, planOf'[p] \notin {planOf[p]} \cup disturbed
      PROVE  status[planOf'[p]] # "CLOSED"
  <2>1. CreatePlan(h) /\ ~Refuse(h)
    BY <1>2, Footprints DEF Legal, Refuse, columns
  <2>2. PICK q \in New(Plans) : planOf' = [planOf EXCEPT ![q] = req[h].to.cycle]
    BY <2>1 DEF CreatePlan
  <2>3. planOf'[p] = req[h].to.cycle /\ req[h].of = "plan.create" /\ req[h].to.cycle \in Cycles
    BY <1>2, <2>1, <2>2 DEF CreatePlan, At, Legal, Typed, TypeOK, AllFormed, Formed
  <2> QED BY <1>2, <2>3, NoneIsNoRow DEF Legal, EntersOpenCycle, Rows
<1> QED BY <1>1, <1>2

\* Nothing new enters a closed cycle: no participation is created in it or moved to it,
\* and no plan is made for it, unless another request is about the cycle.
THEOREM ClosedToNewcomers == Spec => NothingEntersClosedCycle
<1>1. Legal /\ [Next]_vars =>
          [/\ \A d \in Deals : deal'[d].cycle \notin {deal[d].cycle} \cup disturbed =>
                  status[deal'[d].cycle] # "CLOSED"
           /\ \A p \in Plans : planOf'[p] \notin {planOf[p]} \cup disturbed =>
                  status[planOf'[p]] # "CLOSED"]_vars
  <2> SUFFICES ASSUME Legal, Next
               PROVE  /\ \A d \in Deals : deal'[d].cycle \notin {deal[d].cycle} \cup disturbed =>
                             status[deal'[d].cycle] # "CLOSED"
                      /\ \A p \in Plans : planOf'[p] \notin {planOf[p]} \cup disturbed =>
                             status[planOf'[p]] # "CLOSED"
    OBVIOUS
  <2>1. ASSUME NEW h \in Handlers, Looks(h) PROVE deal' = deal /\ planOf' = planOf
    BY <2>1, LooksTyped DEF Begins, columns, Legal
  <2> QED BY <2>1, EntersChecked, NextIs
<1> QED BY <1>1, AlwaysLegal, PTL DEF Spec, NothingEntersClosedCycle

-----------------------------------------------------------------------------
\* The owner of a note or an attachment.

Owned == Typed /\ OwnerIsKnown /\ ContentHasOwner

\* Steps that remove no participation.
LEMMA OwnersStay ==
    ASSUME Owned, Typed', In(Deals) \subseteq In(Deals)', disturbed \subseteq disturbed',
           \A i \in In(Items)' : \/ i \in In(Items) /\ item'[i] = item[i]
                                 \/ item'[i].owner \in Deals => item'[i].owner \in rows \cup disturbed,
           \A g \in Handlers : req'[g].of = "item.create" =>
               \/ req[g].of = "item.create" /\ req'[g].to = req[g].to
               \/ req'[g].to.owner \in rows
    PROVE  Owned'
<1>1. OwnerIsKnown'
  BY DEF Owned, OwnerIsKnown, In
<1>2. ContentHasOwner'
  BY DEF Owned, ContentHasOwner, In
<1> QED BY <1>1, <1>2 DEF Owned

LEMMA LooksOwned ==
    ASSUME Owned, NEW h \in Handlers, Looks(h)
    PROVE  Owned'
<1>1. Typed' /\ Others(h) /\ UNCHANGED <<workload, rows, used, columns, objects>>
  BY LooksTyped DEF Owned, Begins
<1>2. req'[h].of = "item.create" => CreateItemCheck(h)
  BY UpdateCycleCheckTyped, RemoveCheckTyped, ContactCheckTyped, CreateDealCheckTyped,
     UpdateDealCheckTyped, RemoveDealCheckTyped, PlanCheckTyped, RemoveItemCheckTyped
     DEF Looks, Begins, Owned
<1>3. req'[h].of = "item.create" => req'[h].to.owner \in rows
  BY <1>2, CreateItemCheckTyped DEF Owned
<1> QED BY <1>1, <1>3, OwnersStay DEF Others, columns, In

LEMMA RemoveDealOwned ==
    ASSUME Owned, NEW h \in Handlers, RemoveDeal(h), ~Refuse(h)
    PROVE  Owned'
<1> DEFINE d == req[h].id
<1>1. /\ rows' = rows \ ({d} \cup ContentOf(d)) /\ UNCHANGED <<columns, disturbed>>
      /\ d \in Deals /\ req[h].about = {d}
  BY DEF RemoveDeal, Remove, Respond, At, Owned, Typed, AllFormed, Formed
<1>2. Typed' /\ Ends(h)
  BY RemoveDealTyped DEF Owned
<1>3. In(Deals)' = In(Deals) \ {d}
  BY <1>1, IdsAreDistinct DEF ContentOf, In
<1>4. OwnerIsKnown'
  <2> SUFFICES ASSUME NEW g \in Handlers, req'[g].of = "item.create", req'[g].to.owner \in Deals
               PROVE  req'[g].to.owner \in rows' \cup disturbed'
    BY DEF OwnerIsKnown
  <2>1. g # h /\ req'[g] = req[g]
    BY <1>2, IdleIsRequest DEF Ends, Others
  <2>2. req[g].to.owner \in rows \cup disturbed /\ req[g].about = {req[g].to.owner}
    BY <2>1 DEF Owned, OwnerIsKnown, Typed, AllFormed, Formed
  <2>3. req[g].to.owner = d => d \in disturbed
    BY <1>1, <2>1, <2>2 DEF Owned, Typed, MeetingsAreSeen
  <2> QED BY <1>1, <1>3, <2>1, <2>2, <2>3 DEF In
<1>5. ContentHasOwner'
  <2> SUFFICES ASSUME NEW i \in In(Items)', item'[i].owner \in Deals
               PROVE  item'[i].owner \in rows' \cup disturbed'
    BY DEF ContentHasOwner
  <2>1. item' = item /\ i \in In(Items) /\ i \notin ContentOf(d)
    BY <1>1 DEF In, columns
  <2>2. item[i].owner # d /\ item[i].owner \in rows \cup disturbed
    BY <2>1 DEF ContentOf, Owned, ContentHasOwner
  <2> QED BY <1>1, <1>3, <2>1, <2>2 DEF In
<1> QED BY <1>2, <1>4, <1>5 DEF Owned

LEMMA StepOwned ==
    ASSUME Owned, NEW h \in Handlers, Step(h)
    PROVE  Owned'
<1>1. CASE RemoveDeal(h) /\ ~Refuse(h)
  BY <1>1, RemoveDealOwned
<1>2. CASE ~RemoveDeal(h) \/ Refuse(h)
  <2>1. Typed' /\ disturbed \subseteq disturbed'
    BY StepTyped, StepRequests DEF Owned, Others
  <2>2. In(Deals) \subseteq In(Deals)'
    BY <1>2, Footprints DEF Owned, Refuse, In
  <2>3. ASSUME NEW i \in In(Items)'
        PROVE  \/ i \in In(Items) /\ item'[i] = item[i]
               \/ item'[i].owner \in Deals => item'[i].owner \in rows \cup disturbed
    <3>1. CASE CreateItem(h) /\ ~Refuse(h)
      <4>1. PICK j \in New(Items) :
                /\ rows' = rows \cup {j}
                /\ item' = [item EXCEPT ![j] = [owner |-> req[h].to.owner, object |-> req[h].to.object]]
        BY <3>1 DEF CreateItem, Insert
      <4>2. i \in Items /\ req[h].of = "item.create"
        BY <3>1 DEF CreateItem, At, In
      <4>3. i = j => item'[i].owner = req[h].to.owner
        BY <4>1, <4>2 DEF Owned, Typed, TypeOK
      <4>4. i # j => i \in In(Items) /\ item'[i] = item[i]
        BY <4>1, <4>2 DEF Owned, Typed, TypeOK, In
      <4> QED BY <4>2, <4>3, <4>4 DEF Owned, OwnerIsKnown
    <3>2. CASE ~CreateItem(h) \/ Refuse(h)
      BY <3>2, Footprints DEF Owned, Refuse, columns, In
    <3> QED BY <3>1, <3>2
  <2>4. ASSUME NEW g \in Handlers, req'[g].of = "item.create"
        PROVE  req[g].of = "item.create" /\ req'[g].to = req[g].to
    BY <2>4, StepRequests, IdleIsRequest DEF Owned, Others, Going, SameRequest
  <2> QED BY <2>1, <2>2, <2>3, <2>4, OwnersStay
<1> QED BY <1>1, <1>2

\* The notes and attachments of a participation go with it: what stays behind was written
\* while another request was about the participation.
THEOREM ContentGoesWithOwner == Spec => []ContentHasOwner
<1>1. Init => Owned
  BY InitTyped, IdleIsRequest DEF Init, Owned, OwnerIsKnown, ContentHasOwner, In
<1>2. Owned /\ [Next]_vars => Owned'
  <2> SUFFICES ASSUME Owned, [Next]_vars PROVE Owned'
    OBVIOUS
  <2>1. CASE UNCHANGED vars
    BY <2>1, NextTyped DEF Owned, OwnerIsKnown, ContentHasOwner, In, vars, columns
  <2> QED BY <2>1, LooksOwned, StepOwned, NextIs
<1>3. Owned => ContentHasOwner
  BY DEF Owned
<1> QED BY <1>1, <1>2, <1>3, PTL DEF Spec

-----------------------------------------------------------------------------
\* The objects that attachments and plan images point at.

Stored == Typed /\ OneHolder /\ UploadsAreKept /\ ContentIsThere

\* A request between its call to the file store and its write.
Halfway(r) == r.op = "write" /\ r.of \in {"item.remove", "plan.image"}

\* Steps that take no object away and give none to a row.
LEMMA ObjectsStay ==
    ASSUME Stored, Typed', disturbed \subseteq disturbed', used \subseteq used',
           objects \subseteq objects', item' = item, image' = image,
           In(Items)' \subseteq In(Items), \A p \in In(Plans)' : p \in rows \/ p \notin used,
           \A g \in Handlers : Uploaded(req'[g]) => req'[g] = req[g],
           \A g \in Handlers : Halfway(req[g]) =>
               req'[g] = req[g] \/ req[g].id \notin rows' \ disturbed'
    PROVE  Stored'
<1>1. OneHolder'
  BY DEF Stored, OneHolder
<1>2. UploadsAreKept'
  <2> SUFFICES ASSUME NEW g \in Handlers, Uploaded(req'[g])
               PROVE  LET x == req'[g].to.object
                      IN  /\ x \in used' \cap objects'
                          /\ \A i \in Items : item'[i].object # x
                          /\ \A p \in Plans : image'[p] # x
                          /\ \A f \in Handlers : f # g /\ Uploaded(req'[f]) => req'[f].to.object # x
    BY DEF UploadsAreKept, Uploaded
  <2> QED BY DEF Stored, UploadsAreKept
<1>3. ContentIsThere'
  <2>1. ASSUME NEW i \in In(Items)' \ disturbed', item'[i].object \notin objects' \cup {None}
        PROVE  HalfWay(i, "item.remove")'
    <3>1. HalfWay(i, "item.remove") /\ i \in rows' \ disturbed'
      BY <2>1 DEF Stored, ContentIsThere, In
    <3> QED BY <3>1 DEF HalfWay, Halfway
  <2>2. ASSUME NEW p \in In(Plans)' \ disturbed', image'[p] \notin objects' \cup {None}
        PROVE  HalfWay(p, "plan.image")'
    <3>1. HalfWay(p, "plan.image") /\ p \in rows' \ disturbed'
      BY <2>2 DEF Stored, OneHolder, ContentIsThere, In
    <3> QED BY <3>1 DEF HalfWay, Halfway
  <2> QED BY <2>1, <2>2 DEF ContentIsThere
<1> QED BY <1>1, <1>2, <1>3 DEF Stored

LEMMA LooksStored ==
    ASSUME Stored, NEW h \in Handlers, Looks(h)
    PROVE  Stored'
<1>1. /\ Typed' /\ Others(h) /\ UNCHANGED <<workload, rows, used, columns, objects>>
      /\ req[h].op = "idle"
  BY LooksTyped
     DEF Stored, Begins, Looks, UpdateCycleCheck, RemoveCycleCheck, RemoveOrgCheck,
         CreateContactCheck, UpdateContactCheck, RemoveContactCheck, CreateDealCheck,
         UpdateDealCheck, RemoveDealCheck, CreatePlanCheck, SetImageCheck, CreateItemCheck,
         RemoveItemCheck, Accept
<1>2. ~Uploaded(req'[h])
  <2> SUFFICES ASSUME Uploaded(req'[h]) PROVE FALSE
    OBVIOUS
  <2>1. CreatePlanCheck(h) \/ SetImageCheck(h) \/ CreateItemCheck(h)
    BY UpdateCycleCheckTyped, RemoveCheckTyped, ContactCheckTyped, CreateDealCheckTyped,
       UpdateDealCheckTyped, RemoveDealCheckTyped, RemoveItemCheckTyped
       DEF Looks, Begins, Uploaded, Stored
  <2> QED BY <2>1, PlanCheckTyped, CreateItemCheckTyped DEF Begins, Uploaded, Stored
<1> QED BY <1>1, <1>2, ObjectsStay DEF Others, Halfway, columns, In

\* An upload, which may delete the object it replaces.
LEMMA UploadStored ==
    ASSUME Stored, Typed', NEW h \in Handlers, GoTo(h, "write"), req[h].op = "store",
           req[h].to.object \in Objects \ used, used' = used \cup {req[h].to.object},
           UNCHANGED <<rows, columns>>,
           \/ objects' = objects \cup {req[h].to.object}
           \/ /\ objects' = (objects \cup {req[h].to.object}) \ Replaced(h)
              /\ req[h].of = "plan.image"
    PROVE  Stored'
<1> DEFINE x == req[h].to.object
<1>1. /\ Others(h) /\ SameRequest(req'[h], req[h]) /\ req'[h].op = "write"
      /\ disturbed' = disturbed /\ x # None
  BY GoToHolds, NoneIsNoRow DEF Stored, GoTo
<1>2. /\ item' = item /\ image' = image /\ rows' = rows
      /\ req[h].of = "plan.image" => req[h].id \in Plans
  BY DEF columns, Stored, Typed, AllFormed, Formed
<1>3. /\ x \in objects' /\ objects' \subseteq objects \cup {x}
      /\ \A y \in objects : y \notin objects' => y = image[req[h].id] /\ req[h].of = "plan.image"
  BY <1>1, <1>2 DEF Replaced, Stored, OneHolder
<1>4. OneHolder'
  BY <1>2 DEF Stored, OneHolder
<1>5. UploadsAreKept'
  <2>1. \A g \in Handlers : Uploaded(req'[g]) /\ g # h =>
            /\ req'[g] = req[g] /\ Uploaded(req[g]) /\ req[g].to.object # x
            /\ req[g].to.object \in objects'
    BY <1>1, <1>2, <1>3 DEF Others, Stored, UploadsAreKept
  <2>2. /\ \A i \in Items : item[i].object # x
        /\ \A p \in Plans : image[p] # x
    BY <1>1 DEF Stored, OneHolder
  <2>3. req'[h].to.object = x
    BY <1>1 DEF SameRequest
  <2> SUFFICES ASSUME NEW g \in Handlers, Uploaded(req'[g])
               PROVE  LET y == req'[g].to.object
                      IN  /\ y \in used' \cap objects'
                          /\ \A i \in Items : item'[i].object # y
                          /\ \A p \in Plans : image'[p] # y
                          /\ \A f \in Handlers : f # g /\ Uploaded(req'[f]) => req'[f].to.object # y
    BY DEF UploadsAreKept, Uploaded
  <2>4. CASE g = h
    BY <1>2, <1>3, <2>1, <2>2, <2>3, <2>4
  <2>5. CASE g # h
    BY <1>2, <2>1, <2>3, <2>5 DEF Stored, UploadsAreKept
  <2> QED BY <2>4, <2>5
<1>6. ContentIsThere'
  <2>1. ASSUME NEW i \in In(Items)' \ disturbed', item'[i].object \notin objects' \cup {None}
        PROVE  HalfWay(i, "item.remove")'
    <3>1. i \in In(Items) \ disturbed /\ i \in Items
      BY <1>1, <1>2 DEF In
    <3>2. item[i].object \notin objects
      BY <1>2, <1>3, <2>1, <3>1 DEF Stored, OneHolder
    <3>3. HalfWay(i, "item.remove")
      BY <1>2, <2>1, <3>1, <3>2 DEF Stored, ContentIsThere
    <3> QED BY <1>1, <3>3 DEF HalfWay, Others
  <2>2. ASSUME NEW p \in In(Plans)' \ disturbed', image'[p] \notin objects' \cup {None}
        PROVE  HalfWay(p, "plan.image")'
    <3>1. p \in In(Plans) \ disturbed /\ p \in Plans
      BY <1>1, <1>2 DEF In
    <3>2. CASE image[p] \in objects
      <4>1. req[h].of = "plan.image" /\ p = req[h].id
        BY <1>2, <1>3, <2>2, <3>1, <3>2 DEF Stored, OneHolder
      <4> QED BY <1>1, <4>1 DEF HalfWay, SameRequest
    <3>3. CASE image[p] \notin objects
      <4>1. HalfWay(p, "plan.image")
        BY <1>2, <2>2, <3>1, <3>3 DEF Stored, ContentIsThere
      <4> QED BY <1>1, <4>1 DEF HalfWay, Others
    <3> QED BY <3>2, <3>3
  <2> QED BY <2>1, <2>2 DEF ContentIsThere
<1> QED BY <1>4, <1>5, <1>6 DEF Stored

LEMMA StoreStored ==
    ASSUME Stored, NEW h \in Handlers, StoreImage(h) \/ StoreItem(h)
    PROVE  Stored'
<1>1. Typed' /\ Others(h)
  BY StoreImageTyped, StoreItemTyped DEF Stored
<1>2. /\ req[h].op = "store" /\ req[h].to.object \in Objects
      /\ StoreImage(h) => req[h].of = "plan.image"
  BY DEF StoreImage, StoreItem, At, Stored, Typed, AllFormed, Formed
<1>3. CASE Refuse(h)
  <2>1. ~Uploaded(req'[h])
    BY <1>3, RefuseTyped, IdleIsRequest DEF Stored, Ends, Uploaded
  <2> QED BY <1>1, <1>2, <1>3, <2>1, ObjectsStay DEF Refuse, Others, Halfway, columns, In
<1>4. CASE ~Refuse(h) /\ GoTo(h, "write")
  <2>1. /\ req[h].to.object \notin used /\ used' = used \cup {req[h].to.object}
        /\ UNCHANGED <<rows, columns>>
        /\ \/ objects' = objects \cup {req[h].to.object}
           \/ StoreImage(h) /\ objects' = (objects \cup {req[h].to.object}) \ Replaced(h)
    BY <1>4 DEF StoreImage, StoreItem, Upload
  <2> QED BY <1>1, <1>2, <1>4, <2>1, UploadStored
<1>5. CASE ~Refuse(h) /\ StoreItem(h) /\ Respond(h)
  <2>1. Upload(req[h].to.object) /\ req'[h] = Idle
    BY <1>5 DEF StoreItem, Respond, Stored, Typed, TypeOK
  <2>2. ~Uploaded(req'[h])
    BY <2>1, IdleIsRequest DEF Uploaded
  <2> QED BY <1>1, <1>2, <2>1, <2>2, ObjectsStay DEF Upload, Others, Halfway, columns, In
<1> QED BY <1>3, <1>4, <1>5 DEF StoreImage, StoreItem

LEMMA RemoveObjectStored ==
    ASSUME Stored, NEW h \in Handlers, RemoveObject(h)
    PROVE  Stored'
<1> DEFINE x == req[h].to.object
<1>1. /\ Others(h) /\ SameRequest(req'[h], req[h]) /\ req'[h].op = "write" /\ Typed'
      /\ disturbed' = disturbed /\ req[h].op = "store" /\ req[h].of = "item.remove"
  BY GoToHolds, RemoveObjectTyped DEF Stored, RemoveObject, GoTo, At
<1>2. /\ item' = item /\ image' = image /\ rows' = rows /\ used' = used
      /\ objects' = objects \ {x}
      /\ req[h].id \in Items /\ x = item[req[h].id].object
  BY <1>1 DEF RemoveObject, columns, Stored, Typed, AllFormed, Formed
<1>3. OneHolder'
  BY <1>2 DEF Stored, OneHolder
<1>4. UploadsAreKept'
  <2>1. \A g \in Handlers : Uploaded(req'[g]) => req'[g] = req[g] /\ Uploaded(req[g])
    BY <1>1 DEF Others, SameRequest, Uploaded
  <2> SUFFICES ASSUME NEW g \in Handlers, Uploaded(req'[g])
               PROVE  LET y == req'[g].to.object
                      IN  /\ y \in used' \cap objects'
                          /\ \A i \in Items : item'[i].object # y
                          /\ \A p \in Plans : image'[p] # y
                          /\ \A f \in Handlers : f # g /\ Uploaded(req'[f]) => req'[f].to.object # y
    BY DEF UploadsAreKept, Uploaded
  <2> QED BY <1>2, <2>1 DEF Stored, UploadsAreKept
<1>5. ContentIsThere'
  <2>1. ASSUME NEW i \in In(Items)' \ disturbed', item'[i].object \notin objects' \cup {None}
        PROVE  HalfWay(i, "item.remove")'
    <3>1. i \in In(Items) \ disturbed /\ i \in Items
      BY <1>1, <1>2 DEF In
    <3>2. CASE item[i].object \in objects
      <4>1. i = req[h].id
        BY <1>2, <2>1, <3>1, <3>2 DEF Stored, OneHolder
      <4> QED BY <1>1, <4>1 DEF HalfWay, SameRequest
    <3>3. CASE item[i].object \notin objects
      <4>1. HalfWay(i, "item.remove")
        BY <1>2, <2>1, <3>1, <3>3 DEF Stored, ContentIsThere
      <4> QED BY <1>1, <4>1 DEF HalfWay, Others
    <3> QED BY <3>2, <3>3
  <2>2. ASSUME NEW p \in In(Plans)' \ disturbed', image'[p] \notin objects' \cup {None}
        PROVE  HalfWay(p, "plan.image")'
    <3>1. p \in In(Plans) \ disturbed /\ p \in Plans
      BY <1>1, <1>2 DEF In
    <3>2. image[p] \notin objects
      BY <1>2, <2>2, <3>1 DEF Stored, OneHolder
    <3>3. HalfWay(p, "plan.image")
      BY <1>2, <2>2, <3>1, <3>2 DEF Stored, ContentIsThere
    <3> QED BY <1>1, <3>3 DEF HalfWay, Others
  <2> QED BY <2>1, <2>2 DEF ContentIsThere
<1> QED BY <1>1, <1>3, <1>4, <1>5 DEF Stored

\* A row takes the object its request has uploaded.
LEMMA SetImageStored ==
    ASSUME Stored, NEW h \in Handlers, SetImage(h)
    PROVE  Stored'
<1> DEFINE x == req[h].to.object
           p == req[h].id
<1>1. Typed' /\ Ends(h) /\ disturbed' = disturbed
  BY SetImageTyped DEF Stored, SetImage, Respond
<1>2. /\ image' = [image EXCEPT ![p] = x] /\ UNCHANGED <<rows, used, item, objects>>
      /\ req[h].op = "write" /\ req[h].of = "plan.image" /\ x \in Objects
      /\ p \in Plans \cap used
  BY DEF SetImage, At, Stored, Typed, AllFormed, Formed
<1>3. image'[p] = x /\ \A q \in Plans \ {p} : image'[q] = image[q]
  BY <1>2 DEF Stored, Typed, TypeOK
<1>4. Uploaded(req[h]) /\ x # None
  BY <1>2, NoneIsNoRow DEF Uploaded
<1>5. \A g \in Handlers : g # h => req'[g] = req[g]
  BY <1>1 DEF Ends, Others
<1>6. ~Uploaded(req'[h])
  BY <1>1, IdleIsRequest DEF Ends, Uploaded
<1>7. /\ x \in used \cap objects /\ \A i \in Items : item[i].object # x
      /\ \A q \in Plans : image[q] # x
      /\ \A g \in Handlers : g # h /\ Uploaded(req[g]) => req[g].to.object # x
  BY <1>4 DEF Stored, UploadsAreKept
<1>8. OneHolder'
  BY <1>2, <1>3, <1>7 DEF Stored, OneHolder
<1>9. UploadsAreKept'
  <2> SUFFICES ASSUME NEW g \in Handlers, Uploaded(req'[g])
               PROVE  LET y == req'[g].to.object
                      IN  /\ y \in used' \cap objects'
                          /\ \A i \in Items : item'[i].object # y
                          /\ \A q \in Plans : image'[q] # y
                          /\ \A f \in Handlers : f # g /\ Uploaded(req'[f]) => req'[f].to.object # y
    BY DEF UploadsAreKept, Uploaded
  <2> QED BY <1>2, <1>3, <1>5, <1>6, <1>7 DEF Stored, UploadsAreKept
<1>10. ContentIsThere'
  <2>1. ASSUME NEW i \in In(Items)' \ disturbed', item'[i].object \notin objects' \cup {None}
        PROVE  HalfWay(i, "item.remove")'
    <3>1. HalfWay(i, "item.remove")
      BY <1>1, <1>2, <2>1 DEF Stored, ContentIsThere, In
    <3> QED BY <1>2, <1>5, <3>1 DEF HalfWay
  <2>2. ASSUME NEW q \in In(Plans)' \ disturbed', image'[q] \notin objects' \cup {None}
        PROVE  HalfWay(q, "plan.image")'
    <3>1. q \in Plans /\ q # p
      BY <1>2, <1>3, <1>7, <2>2 DEF In
    <3>2. HalfWay(q, "plan.image")
      BY <1>1, <1>2, <1>3, <2>2, <3>1 DEF Stored, ContentIsThere, In
    <3> QED BY <1>5, <3>1, <3>2 DEF HalfWay
  <2> QED BY <2>1, <2>2 DEF ContentIsThere
<1> QED BY <1>1, <1>8, <1>9, <1>10 DEF Stored

LEMMA CreateItemStored ==
    ASSUME Stored, NEW h \in Handlers, CreateItem(h), ~Refuse(h)
    PROVE  Stored'
<1> DEFINE x == req[h].to.object
<1>1. Typed' /\ Ends(h) /\ disturbed' = disturbed
  BY CreateItemTyped DEF Stored, CreateItem, Respond
<1>2. PICK j \in New(Items) : /\ Insert(j)
                              /\ item' = [item EXCEPT ![j] = [owner |-> req[h].to.owner, object |-> x]]
  BY DEF CreateItem
<1>3. /\ UNCHANGED <<image, objects>> /\ req[h].op = "write" /\ req[h].of = "item.create"
      /\ x \in Objects \cup {None}
  BY DEF CreateItem, At, Stored, Typed, TypeOK, Request, Fields
<1>4. j \in Items /\ j \notin used /\ j \notin rows /\ j \notin Plans
  BY NewIsNew, IdsAreDistinct DEF Stored
<1>5. /\ item'[j].object = x /\ \A i \in Items \ {j} : item'[i] = item[i]
      /\ rows' = rows \cup {j} /\ used' = used \cup {j}
  BY <1>2, <1>4 DEF Stored, Typed, TypeOK, Insert
<1>6. \A g \in Handlers : g # h => req'[g] = req[g]
  BY <1>1 DEF Ends, Others
<1>7. ~Uploaded(req'[h])
  BY <1>1, IdleIsRequest DEF Ends, Uploaded
<1>8. x # None =>
          /\ x \in used \cap objects /\ \A i \in Items : item[i].object # x
          /\ \A q \in Plans : image[q] # x
          /\ \A g \in Handlers : g # h /\ Uploaded(req[g]) => req[g].to.object # x
  BY <1>3 DEF Stored, UploadsAreKept, Uploaded
<1>9. OneHolder'
  BY <1>3, <1>5, <1>8 DEF Stored, OneHolder
<1>10. UploadsAreKept'
  <2>1. \A g \in Handlers : Uploaded(req'[g]) =>
            g # h /\ req'[g] = req[g] /\ Uploaded(req[g]) /\ req[g].to.object # x
    BY <1>6, <1>7, <1>8 DEF Uploaded
  <2> SUFFICES ASSUME NEW g \in Handlers, Uploaded(req'[g])
               PROVE  LET y == req'[g].to.object
                      IN  /\ y \in used' \cap objects'
                          /\ \A i \in Items : item'[i].object # y
                          /\ \A q \in Plans : image'[q] # y
                          /\ \A f \in Handlers : f # g /\ Uploaded(req'[f]) => req'[f].to.object # y
    BY DEF UploadsAreKept, Uploaded
  <2> QED BY <1>3, <1>5, <2>1 DEF Stored, UploadsAreKept
<1>11. ContentIsThere'
  <2>1. ASSUME NEW i \in In(Items)' \ disturbed', item'[i].object \notin objects' \cup {None}
        PROVE  HalfWay(i, "item.remove")'
    <3>1. i \in Items /\ i # j
      BY <1>3, <1>5, <1>8, <2>1 DEF In
    <3>2. HalfWay(i, "item.remove")
      BY <1>1, <1>3, <1>5, <2>1, <3>1 DEF Stored, ContentIsThere, In
    <3> QED BY <1>3, <1>6, <3>2 DEF HalfWay
  <2>2. ASSUME NEW q \in In(Plans)' \ disturbed', image'[q] \notin objects' \cup {None}
        PROVE  HalfWay(q, "plan.image")'
    <3>1. HalfWay(q, "plan.image")
      BY <1>1, <1>3, <1>4, <1>5, <2>2 DEF Stored, ContentIsThere, In
    <3> QED BY <1>3, <1>6, <3>1 DEF HalfWay
  <2> QED BY <2>1, <2>2 DEF ContentIsThere
<1> QED BY <1>1, <1>9, <1>10, <1>11 DEF Stored

\* A removal or a failure ends a request half way, and its row is gone or known to be
\* disturbed.
LEMMA EndHalfway ==
    ASSUME Stored, NEW h \in Handlers, Step(h), Halfway(req[h]), ~SetImage(h)
    PROVE  req'[h] = req[h] \/ req[h].id \notin rows' \ disturbed'
<1>1. CASE RemoveItem(h)
  BY <1>1 DEF RemoveItem, Refuse, Remove
<1>2. CASE Fail(h)
  BY <1>2 DEF Fail, HalfDone, Halfway, Stored, Typed, AllFormed, Formed
<1>3. CASE CreateCycle(h) \/ CreateOrg(h)
  BY <1>3 DEF CreateCycle, CreateOrg
<1> QED BY <1>1, <1>2, <1>3
        DEF Step, Halfway, At, UpdateCycle, RemoveCycle, RemoveOrg, UnsetOthers, CreateContact,
            UpdateContact, RemoveContact, WriteDeal, RemoveDeal, CreatePlan, StoreImage,
            StoreItem, CreateItem, RemoveObject

LEMMA StepStored ==
    ASSUME Stored, NEW h \in Handlers, Step(h)
    PROVE  Stored'
<1>1. CASE StoreImage(h) \/ StoreItem(h)
  BY <1>1, StoreStored
<1>2. CASE RemoveObject(h)
  BY <1>2, RemoveObjectStored
<1>3. CASE SetImage(h)
  BY <1>3, SetImageStored
<1>4. CASE CreateItem(h) /\ ~Refuse(h)
  BY <1>4, CreateItemStored
<1>5. CASE ~(StoreImage(h) \/ StoreItem(h) \/ RemoveObject(h) \/ SetImage(h))
           /\ (~CreateItem(h) \/ Refuse(h))
  <2>1. Typed' /\ Others(h) /\ used \subseteq used'
    BY StepTyped, StepRequests, OrgsStay DEF Stored
  <2>2. /\ item' = item /\ In(Items)' \subseteq In(Items) /\ image' = image /\ objects' = objects
    BY <1>5, Footprints DEF Stored, Refuse, columns, In
  <2>3. \A p \in In(Plans)' : p \in rows \/ p \notin used
    <3>1. CASE CreatePlan(h) /\ ~Refuse(h)
      <4>1. PICK q \in New(Plans) : rows' = rows \cup {q}
        BY <3>1 DEF CreatePlan, Insert
      <4> QED BY <4>1, NewIsNew DEF In, Stored
    <3>2. CASE ~CreatePlan(h) \/ Refuse(h)
      BY <3>2, Footprints DEF Stored, Refuse, In
    <3> QED BY <3>1, <3>2
  <2>4. \A g \in Handlers : Uploaded(req'[g]) => req'[g] = req[g]
    <3>1. req'[h] = Idle \/ req' = req \/ UnsetOthers(h)
      <4>1. CASE req[h].op = "store"
        <5>1. Fail(h)
          BY <1>5, <4>1
             DEF Step, At, Unsetting, CreateCycle, UpdateCycle, RemoveCycle, CreateOrg, RemoveOrg,
                 UnsetOthers, CreateContact, UpdateContact, RemoveContact, WriteDeal, RemoveDeal,
                 CreatePlan, CreateItem, RemoveItem
        <5> QED BY <5>1, FailTyped DEF Stored, Ends
      <4>2. CASE req[h].op # "store"
        BY <4>2, StepRequests DEF Stored, Going
      <4> QED BY <4>1, <4>2
    <3> QED BY <2>1, <3>1, UnsetOthersTyped, IdleIsRequest DEF Stored, Others, Uploaded
  <2>5. \A g \in Handlers : Halfway(req[g]) =>
            req'[g] = req[g] \/ req[g].id \notin rows' \ disturbed'
    BY <1>5, <2>1, EndHalfway DEF Others
  <2> QED BY <2>1, <2>2, <2>3, <2>4, <2>5, ObjectsStay DEF Others
<1> QED BY <1>1, <1>2, <1>3, <1>4, <1>5

\* What a row points at can be downloaded: where the object is gone, a request failed half
\* way, met another one on the row, or is between the file store and the row.
THEOREM ContentStored == Spec => []ContentIsStored
<1>1. Init => Stored
  <2> SUFFICES ASSUME Init PROVE Stored
    OBVIOUS
  <2>1. Typed
    BY InitTyped
  <2>2. OneHolder
    BY DEF Init, OneHolder
  <2>3. UploadsAreKept /\ ContentIsThere
    BY IdleIsRequest DEF Init, UploadsAreKept, Uploaded, ContentIsThere, In
  <2> QED BY <2>1, <2>2, <2>3 DEF Stored
<1>2. Stored /\ [Next]_vars => Stored'
  <2> SUFFICES ASSUME Stored, [Next]_vars PROVE Stored'
    OBVIOUS
  <2>1. CASE UNCHANGED vars
    <3>1. Typed' /\ In(Items)' \subseteq In(Items) /\ (\A p \in In(Plans)' : p \in rows)
      BY <2>1, NextTyped DEF Stored, In, vars, columns
    <3> QED BY <2>1, <3>1, ObjectsStay DEF vars, columns
  <2> QED BY <2>1, LooksStored, StepStored, NextIs
<1>3. Stored => ContentIsStored
  BY DEF Stored, ContentIsThere, HalfWay, ContentIsStored
<1> QED BY <1>1, <1>2, <1>3, PTL DEF Spec
=============================================================================
