-------------------------- MODULE SpaceAreaCellsProofs --------------------------
(* Theorems about SpaceAreaCells for any grid and any number of areas and         *)
(* concurrent requests.                                                           *)
EXTENDS SpaceAreaCells, FiniteSetTheorems, TLAPS

-----------------------------------------------------------------------------
\* Only an open update transaction has deleted or inserted cells.
OpenWrites ==
    \A h \in Handlers :
        /\ req[h].op \notin {"update_insert", "update_area"} => req[h].deleted = {}
        /\ req[h].op # "update_area" => req[h].inserted = {}
        /\ req[h].op = "update_area" => req[h].inserted # {} /\ req[h].area \in areas
        /\ req[h].op \in {"create", "update_check", "update_delete", "update_blocked",
                          "update_insert"} => req[h].cells # {}

\* The row of an area that an update holds is not being deleted.
AreaRowsLocked ==
    \A g, h \in Handlers :
        req[g].op = "remove_cascade" /\ req[h].op = "update_area" => req[g].area # req[h].area

\* A cell that a transaction has inserted is free but for the rows it has deleted
\* itself, and no other transaction has inserted it.
InsertedAreFree ==
    /\ \A h \in Handlers, c \in Grid, a \in Areas :
           c \in req[h].inserted /\ <<a, c>> \in cells => a = req[h].area /\ c \in req[h].deleted
    /\ \A g, h \in Handlers : g # h => req[g].inserted \cap req[h].inserted = {}

IInv == /\ StateOK /\ OpenWrites /\ AreaRowsLocked /\ InsertedAreFree
        /\ NoOverlap /\ CellsHaveAnArea /\ NoEmptyArea

LEMMA InitIInv == Init => IInv
<1> SUFFICES ASSUME Init PROVE IInv
  OBVIOUS
<1>1. StateOK
  BY DEF Init, StateOK, Idle, Request, Steps, Modes, Labels
<1> QED
  BY <1>1 DEF Init, IInv, OpenWrites, AreaRowsLocked, InsertedAreFree, NoOverlap,
              CellsHaveAnArea, NoEmptyArea, Idle

LEMMA CardinalityIsNat == \A S \in SUBSET Grid : Cardinality(S) \in Nat
BY GridIsFinite, FS_Subset, FS_CardinalityType

\* A request record that holds no writes, and what putting it in place of an idle or
\* ended request does.
Harmless(q) ==
    /\ q \in Request
    /\ q.deleted = {} /\ q.inserted = {}
    /\ q.op \notin {"update_insert", "update_area", "remove_cascade"}
    /\ q.op \notin {"idle", "create"} => q.area \in Areas
    /\ q.op \in {"create", "update_check", "update_delete", "update_blocked"} => q.cells # {}

LEMMA IdleIsHarmless == Harmless(Idle)
BY DEF Harmless, Idle, Request, Steps

LEMMA HarmlessKeeps ==
    ASSUME IInv, NEW h \in Handlers, NEW q, Harmless(q), req' = [req EXCEPT ![h] = q],
           TablesUnchanged
    PROVE  IInv'
<1>1. req'[h] = q /\ \A g \in Handlers \ {h} : req'[g] = req[g]
  BY DEF IInv, StateOK
<1>2. StateOK'
  BY <1>1 DEF IInv, StateOK, TablesUnchanged, Harmless
<1>3. OpenWrites'
  BY <1>1 DEF IInv, OpenWrites, Harmless, TablesUnchanged
<1>4. AreaRowsLocked'
  BY <1>1 DEF IInv, AreaRowsLocked, Harmless
<1>5. InsertedAreFree'
  BY <1>1 DEF IInv, InsertedAreFree, Harmless, TablesUnchanged
<1> QED
  BY <1>2, <1>3, <1>4, <1>5 DEF IInv, NoOverlap, CellsHaveAnArea, NoEmptyArea, CellsOf,
     TablesUnchanged

LEMMA RespondKeeps ==
    ASSUME IInv, NEW h \in Handlers, Respond(h), TablesUnchanged
    PROVE  IInv'
BY IdleIsHarmless, HarmlessKeeps DEF Respond

-----------------------------------------------------------------------------
\* The steps that only look: they accept a request or move it on.
LEMMA ReadsKeep ==
    ASSUME IInv, NEW h \in Handlers,
           CreateCheck(h) \/ UpdateRead(h) \/ RemoveRead(h) \/ UpdateCheckOverlap(h)
    PROVE  IInv'
<1>1. TablesUnchanged
  BY DEF CreateCheck, UpdateRead, RemoveRead, UpdateCheckOverlap
<1>2. CASE CreateCheck(h)
  <2>1. PICK S \in Shapes : req' = [req EXCEPT ![h] = [Idle EXCEPT !.op = "create", !.cells = S]]
    BY <1>2 DEF CreateCheck, Accept
  <2>2. S \in SUBSET Grid /\ S # {}
    BY ShapesAreCells
  <2>3. Harmless([Idle EXCEPT !.op = "create", !.cells = S])
    BY <2>2 DEF Harmless, Idle, Request, Steps
  <2> QED BY <1>1, <2>1, <2>3, HarmlessKeeps
<1>3. CASE UpdateRead(h)
  <2>1. PICK a \in areas, S \in Shapes \cup {{}},
             m \in ModeEdits \cup {None}, l \in LabelEdits \cup {None} :
          Accept(h, [Idle EXCEPT !.op = IF S = {} THEN "label_write" ELSE "update_check",
                                 !.area = a, !.cells = S, !.mode = m, !.label = l])
    BY <1>3, Zenon DEF UpdateRead
  <2>2. /\ a \in Areas /\ S \in SUBSET Grid
        /\ m \in Modes \cup {None} /\ l \in Labels \cup {None}
    BY ShapesAreCells, EditsAreKnown DEF IInv, StateOK
  <2>3. Harmless([Idle EXCEPT !.op = IF S = {} THEN "label_write" ELSE "update_check",
                              !.area = a, !.cells = S, !.mode = m, !.label = l])
    BY <2>2 DEF Harmless, Idle, Request, Steps
  <2> QED BY <1>1, <2>1, <2>3, HarmlessKeeps DEF Accept
<1>4. CASE RemoveRead(h)
  <2>1. PICK a \in areas : req' = [req EXCEPT ![h] = [Idle EXCEPT !.op = "remove", !.area = a]]
    BY <1>4 DEF RemoveRead, Accept
  <2>2. Harmless([Idle EXCEPT !.op = "remove", !.area = a])
    BY DEF Harmless, Idle, Request, Steps, IInv, StateOK
  <2> QED BY <1>1, <2>1, <2>2, HarmlessKeeps
<1>5. CASE UpdateCheckOverlap(h)
  <2>1. CASE Respond(h)
    BY <1>1, <2>1, RespondKeeps
  <2>2. CASE req' = [req EXCEPT ![h].op = "update_delete"]
    <3>1. req' = [req EXCEPT ![h] = [req[h] EXCEPT !.op = "update_delete"]]
      BY <2>2
    <3>2. Harmless([req[h] EXCEPT !.op = "update_delete"])
      BY <1>5 DEF UpdateCheckOverlap, IInv, StateOK, OpenWrites, Harmless, Request, Steps
    <3> QED BY <1>1, <3>1, <3>2, HarmlessKeeps
  <2> QED BY <1>5, <2>1, <2>2 DEF UpdateCheckOverlap
<1> QED BY <1>2, <1>3, <1>4, <1>5

-----------------------------------------------------------------------------
\* An update without cells writes two columns no part of IInv but StateOK reads.
LEMMA LabelsKeepTypes ==
    ASSUME StateOK, NEW h \in Handlers, NEW a \in Areas, WriteLabels(h, a)
    PROVE  mode' \in [Areas -> Modes] /\ label' \in [Areas -> Labels]
<1>1. /\ req[h].mode \in Modes \cup {None} /\ req[h].label \in Labels \cup {None}
      /\ mode[a] \in Modes /\ label[a] \in Labels
  BY DEF StateOK, Request
<1>2. Supplied(req[h].mode, mode[a]) \in Modes /\ Supplied(req[h].label, label[a]) \in Labels
  BY <1>1 DEF Supplied
<1> QED BY <1>2 DEF WriteLabels, StateOK

LEMMA LabelWriteKeeps ==
    ASSUME IInv, NEW h \in Handlers, LabelWrite(h)
    PROVE  IInv'
<1> DEFINE a == req[h].area
<1>1. a \in Areas
  BY DEF LabelWrite, IInv, StateOK
<1>2. mode' \in [Areas -> Modes] /\ label' \in [Areas -> Labels]
  <2>1. CASE WriteLabels(h, a)
    BY <1>1, <2>1, LabelsKeepTypes DEF IInv
  <2>2. CASE UNCHANGED <<mode, label>>
    BY <2>2 DEF IInv, StateOK
  <2> QED BY <2>1, <2>2 DEF LabelWrite
<1>3. /\ req' = [req EXCEPT ![h] = Idle]
      /\ UNCHANGED <<fresh, areas, squareMeters, cells>>
  BY DEF LabelWrite, Respond
<1>4. req'[h] = Idle /\ \A g \in Handlers \ {h} : req'[g] = req[g]
  BY <1>3 DEF IInv, StateOK
<1>5. StateOK'
  BY <1>2, <1>3, <1>4, IdleIsHarmless DEF IInv, StateOK, Harmless
<1>6. OpenWrites'
  BY <1>3, <1>4 DEF IInv, OpenWrites, Idle
<1>7. AreaRowsLocked'
  BY <1>3, <1>4 DEF IInv, AreaRowsLocked, Idle
<1>8. InsertedAreFree'
  BY <1>3, <1>4 DEF IInv, InsertedAreFree, Idle
<1> QED
  BY <1>3, <1>5, <1>6, <1>7, <1>8 DEF IInv, NoOverlap, CellsHaveAnArea, NoEmptyArea, CellsOf

-----------------------------------------------------------------------------
\* The deleteMany of an update, at once or after waiting.
LEMMA DeleteKeeps ==
    ASSUME IInv, NEW h \in Handlers, UpdateDelete(h) \/ UpdateUnblock(h)
    PROVE  IInv'
<1>1. TablesUnchanged
  BY DEF UpdateDelete, UpdateUnblock
<1>2. PICK q \in Request :
         /\ req' = [req EXCEPT ![h] = q]
         /\ q.op \in {"update_blocked", "update_insert"}
         /\ q.op # "update_insert" => q.deleted = {}
         /\ q.inserted = {} /\ q.cells # {} /\ q.area \in Areas
  <2>1. CASE UpdateDelete(h)
    <3> DEFINE S == CellsOf(req[h].area)
               q == IF S \cap LockedCells(h, req[h].area) = {}
                    THEN [req[h] EXCEPT !.op = "update_insert", !.deleted = S]
                    ELSE [req[h] EXCEPT !.op = "update_blocked", !.seen = S]
    <3>1. S \in SUBSET Grid
      BY DEF CellsOf
    <3>2. req' = [req EXCEPT ![h] = q]
      BY <2>1 DEF UpdateDelete
    <3>3. /\ req[h] \in Request /\ req[h].op = "update_delete" /\ req[h].area \in Areas
          /\ req[h].deleted = {} /\ req[h].inserted = {} /\ req[h].cells # {}
      BY <2>1 DEF UpdateDelete, IInv, StateOK, OpenWrites
    <3> HIDE DEF S
    <3>4. q \in Request
      BY <3>1, <3>3 DEF Request, Steps
    <3>5. /\ q.op \in {"update_blocked", "update_insert"}
          /\ q.op # "update_insert" => q.deleted = {}
          /\ q.inserted = {} /\ q.cells # {} /\ q.area \in Areas
      BY <3>3 DEF Request
    <3> HIDE DEF q
    <3> QED BY <3>2, <3>4, <3>5
  <2>2. CASE UpdateUnblock(h)
    <3> DEFINE q == [req[h] EXCEPT !.op = "update_insert", !.deleted = req[h].seen, !.seen = {}]
    <3>1. req' = [req EXCEPT ![h] = q]
      BY <2>2 DEF UpdateUnblock
    <3>2. /\ req[h] \in Request /\ req[h].op = "update_blocked" /\ req[h].area \in Areas
          /\ req[h].inserted = {} /\ req[h].cells # {}
      BY <2>2 DEF UpdateUnblock, IInv, StateOK, OpenWrites
    <3>3. q \in Request
      BY <3>2 DEF Request, Steps
    <3>4. q.op = "update_insert" /\ q.inserted = {} /\ q.cells # {} /\ q.area \in Areas
      BY <3>2 DEF Request
    <3> HIDE DEF q
    <3> QED BY <3>1, <3>3, <3>4
  <2> QED BY <2>1, <2>2
<1>3. req'[h] = q /\ \A g \in Handlers \ {h} : req'[g] = req[g]
  BY <1>2 DEF IInv, StateOK
<1>4. StateOK'
  BY <1>1, <1>2, <1>3 DEF IInv, StateOK, TablesUnchanged
<1>5. OpenWrites'
  BY <1>1, <1>2, <1>3 DEF IInv, OpenWrites, TablesUnchanged
<1>6. AreaRowsLocked'
  BY <1>2, <1>3 DEF IInv, AreaRowsLocked
<1>7. InsertedAreFree'
  BY <1>1, <1>2, <1>3 DEF IInv, InsertedAreFree, TablesUnchanged
<1> QED
  BY <1>1, <1>4, <1>5, <1>6, <1>7 DEF IInv, NoOverlap, CellsHaveAnArea, NoEmptyArea, CellsOf,
     TablesUnchanged

-----------------------------------------------------------------------------
\* createMany: the cells inserted were free, and no one else has them.
LEMMA InsertKeeps ==
    ASSUME IInv, NEW h \in Handlers, UpdateInsert(h)
    PROVE  IInv'
<1> DEFINE a == req[h].area
           S == req[h].cells
           q == [req[h] EXCEPT !.op = "update_area", !.inserted = S]
<1>1. TablesUnchanged
  BY DEF UpdateInsert
<1>2. CASE Respond(h)
  BY <1>1, <1>2, RespondKeeps
<1>3. CASE /\ a \in areas /\ ~UniqueViolation(S, {a} \X req[h].deleted)
           /\ req' = [req EXCEPT ![h].op = "update_area", ![h].inserted = S]
  <2>1. /\ req[h] \in Request /\ req[h].op = "update_insert" /\ a \in Areas
        /\ S # {} /\ S \in SUBSET Grid /\ req[h].deleted \in SUBSET Grid
        /\ S \cap PendingCells(h) = {} /\ ~AreaDeleting(h, a)
    BY DEF UpdateInsert, IInv, StateOK, OpenWrites, Request
  <2>2. req' = [req EXCEPT ![h] = q]
    BY <1>3
  <2>3. /\ q \in Request /\ q.op = "update_area" /\ q.inserted = S /\ q.area = a
        /\ q.deleted = req[h].deleted
    BY <2>1 DEF Request, Steps
  <2> HIDE DEF q
  <2>4. req'[h] = q /\ \A g \in Handlers \ {h} : req'[g] = req[g]
    BY <2>2 DEF IInv, StateOK
  <2>5. \A c \in S, b \in Areas : <<b, c>> \in cells => b = a /\ c \in q.deleted
    BY <1>3, <2>3 DEF UniqueViolation
  <2>6. \A g \in Handlers \ {h} : req[g].inserted \cap S = {}
    BY <2>1 DEF PendingCells, Others
  <2>7. StateOK'
    BY <1>1, <2>1, <2>2, <2>3, <2>4 DEF IInv, StateOK, TablesUnchanged
  <2>8. OpenWrites'
    <3>1. q.inserted # {} /\ q.area \in areas'
      BY <1>1, <1>3, <2>1, <2>3 DEF TablesUnchanged
    <3>2. areas' = areas
      BY <1>1 DEF TablesUnchanged
    <3> QED BY <2>3, <2>4, <3>1, <3>2 DEF IInv, OpenWrites
  <2>9. AreaRowsLocked'
    BY <2>1, <2>3, <2>4 DEF IInv, AreaRowsLocked, AreaDeleting, Others
  <2>10. InsertedAreFree'
    <3>1. \A g \in Handlers, c \in Grid, b \in Areas :
             c \in req'[g].inserted /\ <<b, c>> \in cells'
                 => b = req'[g].area /\ c \in req'[g].deleted
      BY <1>1, <2>3, <2>4, <2>5 DEF IInv, InsertedAreFree, TablesUnchanged
    <3>2. \A f, g \in Handlers : f # g => req'[f].inserted \cap req'[g].inserted = {}
      BY <2>3, <2>4, <2>6 DEF IInv, InsertedAreFree
    <3> QED BY <3>1, <3>2 DEF InsertedAreFree
  <2> QED
    BY <1>1, <2>7, <2>8, <2>9, <2>10 DEF IInv, NoOverlap, CellsHaveAnArea, NoEmptyArea,
       CellsOf, TablesUnchanged
<1> QED BY <1>2, <1>3 DEF UpdateInsert

-----------------------------------------------------------------------------
\* create: the new area's cells were free and no open transaction has them.
LEMMA CreateKeeps ==
    ASSUME IInv, NEW h \in Handlers, CreateCommit(h)
    PROVE  IInv'
<1> DEFINE S == req[h].cells
<1>1. /\ req' = [req EXCEPT ![h] = Idle] /\ Respond(h) /\ req[h].op = "create"
      /\ S \cap PendingCells(h) = {}
  BY DEF CreateCommit, Respond
<1>2. CASE TablesUnchanged
  BY <1>1, <1>2, RespondKeeps
<1>3. ASSUME ~UniqueViolation(S, {}), UNCHANGED <<mode, label>>,
             NEW a \in fresh,
             fresh' = fresh \ {a}, areas' = areas \cup {a},
             squareMeters' = [squareMeters EXCEPT ![a] = Cardinality(S)],
             cells' = cells \cup ({a} \X S)
      PROVE  IInv'
  <2>1. req'[h] = Idle /\ \A g \in Handlers \ {h} : req'[g] = req[g]
    BY <1>1 DEF IInv, StateOK
  <2>2. /\ a \in Areas /\ S # {} /\ S \in SUBSET Grid /\ Cardinality(S) \in Nat
    BY <1>1, CardinalityIsNat DEF IInv, StateOK, OpenWrites, Request
  <2>3. \A c \in S, b \in Areas : <<b, c>> \notin cells
    BY <1>3 DEF UniqueViolation
  <2>4. \A g \in Handlers \ {h} : req[g].inserted \cap S = {}
    BY <1>1 DEF PendingCells, Others
  <2> HIDE DEF S
  <2>5. StateOK'
    BY <1>1, <1>3, <2>1, <2>2, IdleIsHarmless DEF IInv, StateOK, Harmless
  <2>6. OpenWrites'
    BY <1>3, <2>1 DEF IInv, OpenWrites, Idle
  <2>7. AreaRowsLocked'
    BY <2>1 DEF IInv, AreaRowsLocked, Idle
  <2>8. InsertedAreFree'
    <3>1. \A g \in Handlers, c \in Grid, b \in Areas :
             c \in req'[g].inserted /\ <<b, c>> \in cells'
                 => b = req'[g].area /\ c \in req'[g].deleted
      BY <1>3, <2>1, <2>4 DEF IInv, InsertedAreFree, Idle
    <3>2. \A f, g \in Handlers : f # g => req'[f].inserted \cap req'[g].inserted = {}
      BY <2>1 DEF IInv, InsertedAreFree, Idle
    <3> QED BY <3>1, <3>2 DEF InsertedAreFree
  <2>9. NoOverlap'
    <3> SUFFICES ASSUME NEW r \in cells', NEW s \in cells', r[2] = s[2] PROVE r = s
      BY DEF NoOverlap
    <3>1. r \in Areas \X Grid /\ s \in Areas \X Grid
      BY <2>5 DEF StateOK
    <3>2. \A p \in cells : p[2] \notin S
      BY <2>3 DEF IInv, StateOK
    <3> QED BY <1>3, <3>1, <3>2 DEF IInv, NoOverlap
  <2>10. CellsHaveAnArea'
    BY <1>3 DEF IInv, CellsHaveAnArea
  <2>11. NoEmptyArea'
    BY <1>3, <2>2 DEF IInv, NoEmptyArea, CellsOf
  <2> QED BY <2>5, <2>6, <2>7, <2>8, <2>9, <2>10, <2>11 DEF IInv
<1> QED BY <1>2, <1>3 DEF CreateCommit

-----------------------------------------------------------------------------
\* A commit changes only the "seen" of the requests that wait.
LEMMA ForgetFacts ==
    ASSUME IInv, NEW h \in Handlers, NEW a, NEW S, Forget(h, a, S)
    PROVE  /\ req' \in [Handlers -> Request]
           /\ req'[h] = Idle
           /\ \A g \in Handlers \ {h} :
                 /\ req'[g].op = req[g].op /\ req'[g].area = req[g].area
                 /\ req'[g].cells = req[g].cells
                 /\ req'[g].deleted = req[g].deleted
                 /\ req'[g].inserted = req[g].inserted
<1>1. \A g \in Handlers : req[g] \in Request
  BY DEF IInv, StateOK
<1>2. ASSUME NEW g \in Handlers
      PROVE  /\ [req[g] EXCEPT !.seen = @ \ S] \in Request
             /\ [req[g] EXCEPT !.seen = @ \ S].op = req[g].op
             /\ [req[g] EXCEPT !.seen = @ \ S].area = req[g].area
             /\ [req[g] EXCEPT !.seen = @ \ S].cells = req[g].cells
             /\ [req[g] EXCEPT !.seen = @ \ S].deleted = req[g].deleted
             /\ [req[g] EXCEPT !.seen = @ \ S].inserted = req[g].inserted
  BY <1>1 DEF Request
<1>3. Idle \in Request
  BY IdleIsHarmless DEF Harmless
<1> QED BY <1>1, <1>2, <1>3 DEF Forget

-----------------------------------------------------------------------------
\* The cells an edit inserted are free but for those it deleted.
LEMMA UpdateKeeps ==
    ASSUME IInv, NEW h \in Handlers, UpdateCommit(h)
    PROVE  IInv'
<1> DEFINE a == req[h].area
           S == req[h].inserted
           D == req[h].deleted
<1>1. /\ req[h].op = "update_area" /\ Forget(h, a, D) /\ UNCHANGED <<fresh, areas>>
      /\ cells' = (cells \ ({a} \X D)) \cup ({a} \X S)
      /\ squareMeters' = [squareMeters EXCEPT ![a] = Cardinality(S)]
      /\ WriteLabels(h, a)
  BY DEF UpdateCommit, CellsAfter, SquareMetersAfter
<1>2. /\ a \in Areas /\ a \in areas /\ S \in SUBSET Grid /\ S # {} /\ Cardinality(S) \in Nat
  BY <1>1, CardinalityIsNat DEF IInv, StateOK, OpenWrites, Request
<1>3. \A c \in S, b \in Areas : <<b, c>> \in cells => b = a /\ c \in D
  BY <1>2 DEF IInv, InsertedAreFree
<1>4. \A g \in Handlers \ {h} : req[g].inserted \cap S = {}
  BY DEF IInv, InsertedAreFree
<1>5. mode' \in [Areas -> Modes] /\ label' \in [Areas -> Labels]
  BY <1>1, <1>2, LabelsKeepTypes DEF IInv
<1>6. /\ req' \in [Handlers -> Request] /\ req'[h] = Idle
      /\ \A g \in Handlers \ {h} :
            /\ req'[g].op = req[g].op /\ req'[g].area = req[g].area
            /\ req'[g].cells = req[g].cells
            /\ req'[g].deleted = req[g].deleted /\ req'[g].inserted = req[g].inserted
  BY <1>1, ForgetFacts
<1> HIDE DEF a, S, D
<1>7. StateOK'
  <2>1. cells' \subseteq Areas \X Grid
    BY <1>1, <1>2 DEF IInv, StateOK
  <2>2. squareMeters' \in [Areas -> Nat]
    BY <1>1, <1>2 DEF IInv, StateOK
  <2>3. fresh' \subseteq Areas /\ areas' \subseteq Areas
    BY <1>1 DEF IInv, StateOK
  <2>4. \A g \in Handlers : req'[g].op # "idle" /\ req'[g].op # "create" => req'[g].area \in Areas
    BY <1>6 DEF IInv, StateOK, Idle
  <2> QED BY <1>5, <1>6, <2>1, <2>2, <2>3, <2>4 DEF StateOK
<1>8. OpenWrites'
  BY <1>1, <1>6 DEF IInv, OpenWrites, Idle
<1>9. AreaRowsLocked'
  BY <1>6 DEF IInv, AreaRowsLocked, Idle
<1>10. InsertedAreFree'
  <2>1. \A g \in Handlers, c \in Grid, b \in Areas :
           c \in req'[g].inserted /\ <<b, c>> \in cells'
               => b = req'[g].area /\ c \in req'[g].deleted
    BY <1>1, <1>4, <1>6 DEF IInv, InsertedAreFree, Idle
  <2>2. \A f, g \in Handlers : f # g => req'[f].inserted \cap req'[g].inserted = {}
    BY <1>6 DEF IInv, InsertedAreFree, Idle
  <2> QED BY <2>1, <2>2 DEF InsertedAreFree
<1>11. NoOverlap'
  <2> SUFFICES ASSUME NEW r \in cells', NEW s \in cells', r[2] = s[2] PROVE r = s
    BY DEF NoOverlap
  <2>1. r \in Areas \X Grid /\ s \in Areas \X Grid
    BY <1>7 DEF StateOK
  <2>2. \A p \in cells : p \in Areas \X Grid /\ (p[2] \in S => p \in {a} \X D)
    BY <1>3 DEF IInv, StateOK
  <2>3. CASE r \in cells /\ s \in cells
    BY <2>3 DEF IInv, NoOverlap
  <2>4. CASE r \in {a} \X S
    BY <1>1, <2>1, <2>2, <2>4
  <2>5. CASE s \in {a} \X S
    BY <1>1, <2>1, <2>2, <2>5
  <2> QED BY <1>1, <2>3, <2>4, <2>5
<1>12. CellsHaveAnArea'
  BY <1>1, <1>2 DEF IInv, CellsHaveAnArea
<1>13. NoEmptyArea'
  <2> SUFFICES ASSUME NEW b \in areas PROVE CellsOf(b)' # {}
    BY <1>1 DEF NoEmptyArea
  <2>1. CASE b = a
    BY <1>1, <1>2, <2>1 DEF CellsOf
  <2>2. CASE b # a
    BY <1>1, <2>2 DEF IInv, NoEmptyArea, CellsOf
  <2> QED BY <2>1, <2>2
<1> QED BY <1>7, <1>8, <1>9, <1>10, <1>11, <1>12, <1>13 DEF IInv

-----------------------------------------------------------------------------
\* The two steps of a removal: the area row, then the cells with it.
LEMMA RemoveKeeps ==
    ASSUME IInv, NEW h \in Handlers, RemoveArea(h)
    PROVE  IInv'
<1> DEFINE q == [req[h] EXCEPT !.op = "remove_cascade"]
<1>1. TablesUnchanged
  BY DEF RemoveArea
<1>2. CASE Respond(h)
  BY <1>1, <1>2, RespondKeeps
<1>3. CASE req' = [req EXCEPT ![h].op = "remove_cascade"]
  <2>1. /\ req[h] \in Request /\ req[h].op = "remove" /\ req[h].area \in Areas
        /\ req[h].deleted = {} /\ req[h].inserted = {} /\ ~AreaHeld(h, req[h].area)
    BY DEF RemoveArea, IInv, StateOK, OpenWrites
  <2>2. req' = [req EXCEPT ![h] = q]
    BY <1>3
  <2>3. /\ q \in Request /\ q.op = "remove_cascade" /\ q.area = req[h].area
        /\ q.deleted = {} /\ q.inserted = {}
    BY <2>1 DEF Request, Steps
  <2> HIDE DEF q
  <2>4. req'[h] = q /\ \A g \in Handlers \ {h} : req'[g] = req[g]
    BY <2>2 DEF IInv, StateOK
  <2>5. StateOK'
    BY <1>1, <2>1, <2>2, <2>3, <2>4 DEF IInv, StateOK, TablesUnchanged
  <2>6. OpenWrites'
    BY <1>1, <2>3, <2>4 DEF IInv, OpenWrites, TablesUnchanged
  <2>7. AreaRowsLocked'
    BY <2>1, <2>3, <2>4 DEF IInv, AreaRowsLocked, AreaHeld, Others
  <2>8. InsertedAreFree'
    BY <1>1, <2>3, <2>4 DEF IInv, InsertedAreFree, TablesUnchanged
  <2> QED
    BY <1>1, <2>5, <2>6, <2>7, <2>8 DEF IInv, NoOverlap, CellsHaveAnArea, NoEmptyArea,
       CellsOf, TablesUnchanged
<1> QED BY <1>2, <1>3 DEF RemoveArea

LEMMA CascadeKeeps ==
    ASSUME IInv, NEW h \in Handlers, RemoveCommit(h)
    PROVE  IInv'
<1> DEFINE a == req[h].area
<1>1. /\ req[h].op = "remove_cascade" /\ areas' = areas \ {a}
      /\ cells' = cells \ ({a} \X CellsOf(a))
      /\ UNCHANGED <<fresh, squareMeters, mode, label>>
      /\ Forget(h, a, CellsOf(a))
  BY DEF RemoveCommit, Cascade
<1>2. /\ req' \in [Handlers -> Request] /\ req'[h] = Idle
      /\ \A g \in Handlers \ {h} :
            /\ req'[g].op = req[g].op /\ req'[g].area = req[g].area
            /\ req'[g].cells = req[g].cells
            /\ req'[g].deleted = req[g].deleted /\ req'[g].inserted = req[g].inserted
  BY <1>1, ForgetFacts
<1>3. \A g \in Handlers : req[g].op = "update_area" => req[g].area # a
  BY <1>1 DEF IInv, AreaRowsLocked
<1>4. \A r \in cells : r[1] = a => r \in {a} \X CellsOf(a)
  BY DEF IInv, StateOK, CellsOf
<1> HIDE DEF a
<1>5. StateOK'
  BY <1>1, <1>2 DEF IInv, StateOK, Idle
<1>6. OpenWrites'
  BY <1>1, <1>2, <1>3 DEF IInv, OpenWrites, Idle
<1>7. AreaRowsLocked'
  BY <1>2 DEF IInv, AreaRowsLocked, Idle
<1>8. InsertedAreFree'
  BY <1>1, <1>2 DEF IInv, InsertedAreFree, Idle
<1>9. NoOverlap' /\ CellsHaveAnArea'
  BY <1>1, <1>4 DEF IInv, NoOverlap, CellsHaveAnArea
<1>10. NoEmptyArea'
  BY <1>1 DEF IInv, NoEmptyArea, CellsOf
<1> QED BY <1>5, <1>6, <1>7, <1>8, <1>9, <1>10 DEF IInv

-----------------------------------------------------------------------------
LEMMA NextIInv == IInv /\ [Next]_vars => IInv'
<1> SUFFICES ASSUME IInv, [Next]_vars PROVE IInv'
  OBVIOUS
<1>1. CASE UNCHANGED vars
  <2>1. UNCHANGED <<fresh, areas, squareMeters, mode, label, cells, req>>
    BY <1>1 DEF vars
  <2>2. StateOK' /\ OpenWrites' /\ AreaRowsLocked' /\ InsertedAreFree'
    BY <2>1 DEF IInv, StateOK, OpenWrites, AreaRowsLocked, InsertedAreFree
  <2>3. NoOverlap' /\ CellsHaveAnArea' /\ NoEmptyArea'
    BY <2>1 DEF IInv, NoOverlap, CellsHaveAnArea, NoEmptyArea, CellsOf
  <2> QED BY <2>2, <2>3 DEF IInv
<1>2. ASSUME NEW h \in Handlers,
             Arrive(h) \/ Advance(h) \/ DeadlockVictim(h) \/ DatabaseError(h)
      PROVE  IInv'
  <2>1. CASE Arrive(h) \/ UpdateCheckOverlap(h)
    BY <2>1, ReadsKeep DEF Arrive
  <2>2. CASE LabelWrite(h)
    BY <2>2, LabelWriteKeeps
  <2>3. CASE UpdateDelete(h) \/ UpdateUnblock(h)
    BY <2>3, DeleteKeeps
  <2>4. CASE UpdateInsert(h)
    BY <2>4, InsertKeeps
  <2>5. CASE UpdateCommit(h)
    BY <2>5, UpdateKeeps
  <2>6. CASE CreateCommit(h)
    BY <2>6, CreateKeeps
  <2>7. CASE RemoveArea(h)
    BY <2>7, RemoveKeeps
  <2>8. CASE RemoveCommit(h)
    BY <2>8, CascadeKeeps
  <2>9. CASE DeadlockVictim(h) \/ DatabaseError(h)
    BY <2>9, RespondKeeps DEF DeadlockVictim, DatabaseError
  <2> QED
    BY <1>2, <2>1, <2>2, <2>3, <2>4, <2>5, <2>6, <2>7, <2>8, <2>9 DEF Advance
<1> QED BY <1>1, <1>2 DEF Next

\* The strengthened invariant holds in every behaviour.
THEOREM Invariance == Spec => []IInv
BY InitIInv, NextIInv, PTL DEF Spec

LEMMA StateCorrect == Spec => []StateOK
<1>1. IInv => StateOK
  BY DEF IInv
<1> QED BY <1>1, Invariance, PTL

\* Every variable keeps its type, whatever the requests do.
THEOREM TypeCorrect == Spec => []TypeOK
<1>1. Init => TypeOK
  BY InitIInv DEF Init, IInv, TypeOK
<1>2. IInv /\ TypeOK /\ [Next]_vars => TypeOK'
  <2> SUFFICES ASSUME IInv, TypeOK, [Next]_vars PROVE TypeOK'
    OBVIOUS
  <2>1. StateOK'
    BY NextIInv DEF IInv
  <2>2. overlapped' \subseteq Areas
    BY DEF TypeOK, Next, Observe, Waiting, vars
  <2> QED BY <2>1, <2>2 DEF TypeOK
<1> QED BY <1>1, <1>2, Invariance, PTL DEF Spec

\* No two areas ever share a cell: the answer of assertCellsDoNotOverlap may be stale
\* by the time of the insert, the unique index is not.
THEOREM AreasDoNotOverlap == Spec => []NoOverlap
<1>1. IInv => NoOverlap
  BY DEF IInv
<1> QED BY <1>1, Invariance, PTL

\* No cell row outlives its area.
THEOREM CellsKeepTheirArea == Spec => []CellsHaveAnArea
<1>1. IInv => CellsHaveAnArea
  BY DEF IInv
<1> QED BY <1>1, Invariance, PTL

\* No area is left without cells, even when edits and removals of it race.
THEOREM AreasKeepCells == Spec => []NoEmptyArea
<1>1. IInv => NoEmptyArea
  BY DEF IInv
<1> QED BY <1>1, Invariance, PTL

\* The cell table stays a map of the plan, on any grid and with any number of requests.
THEOREM CellsMatch == Spec => []CellsMatchAreas
BY AreasDoNotOverlap, CellsKeepTheirArea, AreasKeepCells, PTL DEF CellsMatchAreas

-----------------------------------------------------------------------------
\* Waits (WaitsFor, Deadlocked).

\* Every handler has its guard: what the next statement of h needs to run.
MayRun(h) ==
    LET a == req[h].area
        S == req[h].cells
    IN  \/ req[h].op \in {"update_check", "update_delete", "update_area"}
        \/ req[h].op = "create" /\ S \cap PendingCells(h) = {}
        \/ req[h].op = "label_write" /\ ~AreaDeleting(h, a)
        \/ req[h].op = "update_blocked" /\ req[h].seen \cap LockedCells(h, a) = {}
        \/ req[h].op = "update_insert" /\ S \cap PendingCells(h) = {} /\ ~AreaDeleting(h, a)
        \/ req[h].op = "remove" /\ ~AreaDeleting(h, a) /\ ~AreaHeld(h, a)
        \/ req[h].op = "remove_cascade" /\ CellsOf(a) \cap LockedCells(h, a) = {}

\* The requests h waits for, through however many others, and h.
Follows(C) == \A k \in C : {g \in Handlers : WaitsFor(k, g)} \subseteq C
AheadOf(h) == {g \in Handlers : \A C \in SUBSET Handlers : h \in C /\ Follows(C) => g \in C}

\* Whoever is in the way of a request, one of those ahead of it (or itself) can run its
\* statement or is aborted by the deadlock detector.
SomeoneGoesOn ==
    \A h \in Handlers : req[h].op # "idle" =>
        \E g \in AheadOf(h) : req[g].op # "idle" /\ (MayRun(g) \/ Deadlocked(g))

\* A statement that nobody is in the way of can run: WaitsFor has every guard.
LEMMA WhoWaitsForNobodyRuns ==
    ASSUME IInv, NEW h \in Handlers, req[h].op # "idle", \A g \in Handlers : ~WaitsFor(h, g)
    PROVE  MayRun(h)
<1> DEFINE a == req[h].area
           S == req[h].cells
<1>1. req[h].op \in Steps
  BY DEF IInv, StateOK, Request
<1>2. \A g \in Others(h) : g \in Handlers /\ ~WaitsForCells(h, g) /\ ~WaitsForArea(h, g)
                                          /\ ~WaitsForDeleted(h, g)
  BY DEF WaitsFor, Others
<1>3. req[h].op \in {"create", "update_insert"} => S \cap PendingCells(h) = {}
  BY <1>2 DEF WaitsForCells, PendingCells
<1>4. req[h].op \in {"label_write", "update_insert", "remove"} => ~AreaDeleting(h, a)
  BY <1>2 DEF WaitsForArea, AreaDeleting
<1>5. req[h].op = "remove" => ~AreaHeld(h, a)
  BY <1>2 DEF WaitsForArea, AreaHeld
<1>6. req[h].op = "update_blocked" => req[h].seen \cap LockedCells(h, a) = {}
  BY <1>2 DEF WaitsForDeleted, LockedCells
<1>7. req[h].op = "remove_cascade" => CellsOf(a) \cap LockedCells(h, a) = {}
  BY <1>2 DEF WaitsForDeleted, LockedCells
<1> QED BY <1>1, <1>3, <1>4, <1>5, <1>6, <1>7 DEF MayRun, Steps

\* A request that another waits for is open.
LEMMA WaitedForIsOpen ==
    ASSUME IInv, NEW h \in Handlers, NEW g \in Handlers, WaitsFor(h, g)
    PROVE  req[g].op # "idle"
BY DEF IInv, OpenWrites, WaitsFor, WaitsForCells, WaitsForArea, WaitsForDeleted

LEMMA AheadIsClosed ==
    ASSUME NEW h \in Handlers
    PROVE  /\ h \in AheadOf(h) /\ AheadOf(h) \in SUBSET Handlers /\ Follows(AheadOf(h))
           /\ \A g \in AheadOf(h) : AheadOf(g) \subseteq AheadOf(h)
<1>1. h \in AheadOf(h) /\ AheadOf(h) \in SUBSET Handlers /\ Follows(AheadOf(h))
  BY DEF AheadOf, Follows
<1>2. ASSUME NEW g \in AheadOf(h) PROVE AheadOf(g) \subseteq AheadOf(h)
  BY <1>1 DEF AheadOf
<1> QED BY <1>1, <1>2

\* Of the requests ahead of h, take one with the fewest ahead of it.
LEMMA LastAhead ==
    ASSUME NEW h \in Handlers
    PROVE  \E k \in AheadOf(h) : \A g \in AheadOf(k) : AheadOf(g) = AheadOf(k)
<1> DEFINE T == {AheadOf(k) : k \in AheadOf(h)}
<1>1. T \subseteq SUBSET Handlers /\ T # {}
  <2>1. \A k \in AheadOf(h) : AheadOf(k) \in SUBSET Handlers
    BY DEF AheadOf
  <2>2. AheadOf(h) \in T
    BY AheadIsClosed
  <2> QED BY <2>1, <2>2
<1>2. IsWellFoundedOn(StrictSubsetOrdering(Handlers), SUBSET Handlers)
  BY HandlersAreFinite, FS_StrictSubsetOrderingWellFounded, FS_FiniteSubsetsOfFinite
<1>3. PICK X \in T : \A Y \in T : ~(<<Y, X>> \in StrictSubsetOrdering(Handlers))
  <2> HIDE DEF T
  <2> QED BY <1>1, <1>2, WFMin
<1>4. PICK k \in AheadOf(h) : X = AheadOf(k)
  OBVIOUS
<1>5. k \in Handlers
  BY DEF AheadOf
<1>6. ASSUME NEW g \in AheadOf(k) PROVE AheadOf(g) = AheadOf(k)
  <2>1. g \in Handlers /\ g \in AheadOf(h)
    BY <1>4, <1>5, AheadIsClosed DEF AheadOf
  <2>2. AheadOf(g) \subseteq AheadOf(k)
    BY <1>5, AheadIsClosed
  <2>3. AheadOf(g) \in T /\ AheadOf(g) \in SUBSET Handlers /\ AheadOf(k) \in SUBSET Handlers
    BY <2>1 DEF AheadOf
  <2>4. ~(<<AheadOf(g), AheadOf(k)>> \in StrictSubsetOrdering(Handlers))
    BY <1>3, <1>4, <2>3
  <2> QED BY <2>2, <2>3, <2>4 DEF StrictSubsetOrdering
<1> QED BY <1>6

LEMMA WaitsLeadSomewhere == IInv => SomeoneGoesOn
<1> SUFFICES ASSUME IInv, NEW h \in Handlers, req[h].op # "idle"
             PROVE  \E g \in AheadOf(h) : req[g].op # "idle" /\ (MayRun(g) \/ Deadlocked(g))
  BY DEF SomeoneGoesOn
<1>1. PICK k \in AheadOf(h) : \A g \in AheadOf(k) : AheadOf(g) = AheadOf(k)
  BY LastAhead
<1>2. k \in Handlers /\ k \in AheadOf(k) /\ Follows(AheadOf(k))
  BY <1>1, AheadIsClosed DEF AheadOf
<1>3. CASE \A g \in Handlers : ~WaitsFor(k, g)
  <2>1. req[k].op # "idle"
    <3> DEFINE C == {g \in Handlers : req[g].op # "idle"}
    <3>1. C \in SUBSET Handlers /\ h \in C /\ Follows(C)
      BY WaitedForIsOpen DEF Follows
    <3> HIDE DEF C
    <3>2. k \in C
      BY <1>1, <3>1 DEF AheadOf
    <3> QED BY <3>2 DEF C
  <2> QED BY <1>1, <1>2, <1>3, <2>1, WhoWaitsForNobodyRuns
<1>4. ASSUME NEW g \in Handlers, WaitsFor(k, g)
      PROVE  \E r \in AheadOf(h) : req[r].op # "idle" /\ (MayRun(r) \/ Deadlocked(r))
  <2>1. g \in AheadOf(k) /\ req[g].op # "idle" /\ g \in AheadOf(h)
    BY <1>1, <1>2, <1>4, WaitedForIsOpen, AheadIsClosed DEF Follows
  <2>2. AheadOf(g) = AheadOf(k) /\ k \in AheadOf(g)
    BY <1>1, <1>2, <2>1
  <2>3. g \in AheadOf(k) /\ g \in AheadOf(g)
    BY <2>1, <2>2
  <2>4. ASSUME NEW C \in SUBSET Handlers,
               \A r \in C \cup {g} : {s \in Handlers : WaitsFor(r, s)} \subseteq C
        PROVE  g \in C
    <3>1. Follows(C \cup {g}) /\ C \cup {g} \in SUBSET Handlers
      BY <2>4 DEF Follows
    <3>2. k \in C \cup {g}
      BY <2>2, <3>1 DEF AheadOf
    <3> QED BY <1>4, <2>4, <3>2
  <2>5. Deadlocked(g)
    BY <2>4 DEF Deadlocked
  <2> QED BY <2>1, <2>5
<1> QED BY <1>3, <1>4

\* However many requests wait for each other's cells and area rows, and in whatever
\* order they came: of those ahead of a request that waits one can run, or the deadlock
\* detector aborts it.  No request is left waiting for a circle nobody breaks.
THEOREM RequestsGoOn == Spec => []SomeoneGoesOn
BY Invariance, WaitsLeadSomewhere, PTL

-----------------------------------------------------------------------------
\* The other half of an answer: a request has few statements to make, and makes each once.

\* How many statements a request has left to make, at most.
StatementsLeft(op) ==
    CASE op = "idle"                                                            -> 0
      [] op \in {"create", "label_write", "update_area", "remove_cascade"}      -> 1
      [] op \in {"update_insert", "remove"}                                     -> 2
      [] op = "update_blocked"                                                  -> 3
      [] op = "update_delete"                                                   -> 4
      [] op = "update_check"                                                    -> 5

\* A statement brings its request closer to the answer, and no statement of another
\* request, no failure and no deadlock sends it back.
GoesForward ==
    \A h \in Handlers :
        /\ Advance(h) => StatementsLeft(req'[h].op) < StatementsLeft(req[h].op)
        /\ req[h].op # "idle" /\ req'[h].op # req[h].op =>
               StatementsLeft(req'[h].op) < StatementsLeft(req[h].op)

LEMMA IdleIsLast ==
    ASSUME NEW op \in Steps, op # "idle"
    PROVE  StatementsLeft("idle") < StatementsLeft(op)
BY DEF Steps, StatementsLeft

\* What a statement of h does to the step of h, and to the steps of the others.
LEMMA StatementGoesForward ==
    ASSUME StateOK, NEW h \in Handlers, Advance(h)
    PROVE  /\ StatementsLeft(req'[h].op) < StatementsLeft(req[h].op)
           /\ \A g \in Others(h) : req'[g].op = req[g].op
<1>1. req \in [Handlers -> Request] /\ req[h].op \in Steps /\ Idle.op = "idle"
  BY DEF StateOK, Request, Idle
<1>2. ASSUME Respond(h), req[h].op # "idle"
      PROVE  /\ StatementsLeft(req'[h].op) < StatementsLeft(req[h].op)
             /\ \A g \in Others(h) : req'[g].op = req[g].op
  BY <1>1, <1>2, IdleIsLast DEF Respond, Others
<1>3. ASSUME NEW a, NEW S, Forget(h, a, S), req[h].op # "idle"
      PROVE  /\ StatementsLeft(req'[h].op) < StatementsLeft(req[h].op)
             /\ \A g \in Others(h) : req'[g].op = req[g].op
  <2>1. req'[h].op = "idle"
    BY <1>1, <1>3 DEF Forget
  <2>2. ASSUME NEW g \in Others(h) PROVE req'[g].op = req[g].op
    <3>1. req[g] \in Request /\ (req'[g] = req[g] \/ req'[g] = [req[g] EXCEPT !.seen = @ \ S])
      BY <1>1, <1>3 DEF Forget, Others
    <3> QED BY <3>1 DEF Request
  <2> QED BY <1>1, <1>3, <2>1, <2>2, IdleIsLast
<1>4. ASSUME NEW r \in Request, req' = [req EXCEPT ![h] = r], StatementsLeft(r.op) < StatementsLeft(req[h].op)
      PROVE  /\ StatementsLeft(req'[h].op) < StatementsLeft(req[h].op)
             /\ \A g \in Others(h) : req'[g].op = req[g].op
  BY <1>1, <1>4 DEF Others
<1>5. CASE CreateCommit(h) \/ LabelWrite(h)
  BY <1>2, <1>5 DEF CreateCommit, LabelWrite
<1>6. CASE UpdateCommit(h) \/ RemoveCommit(h)
  BY <1>3, <1>6 DEF UpdateCommit, RemoveCommit
<1>7. CASE UpdateCheckOverlap(h)
  <2>1. StatementsLeft("update_delete") < StatementsLeft("update_check")
    BY DEF StatementsLeft
  <2> QED BY <1>1, <1>2, <1>7, <2>1 DEF UpdateCheckOverlap, Others, Request
<1>8. CASE UpdateDelete(h)
  <2>1. /\ StatementsLeft("update_insert") < StatementsLeft("update_delete")
        /\ StatementsLeft("update_blocked") < StatementsLeft("update_delete")
    BY DEF StatementsLeft
  <2> QED BY <1>1, <1>8, <2>1 DEF UpdateDelete, Others, Request
<1>9. CASE UpdateUnblock(h)
  <2>1. StatementsLeft("update_insert") < StatementsLeft("update_blocked")
    BY DEF StatementsLeft
  <2> QED BY <1>1, <1>9, <2>1 DEF UpdateUnblock, Others, Request
<1>10. CASE UpdateInsert(h)
  <2>1. StatementsLeft("update_area") < StatementsLeft("update_insert")
    BY DEF StatementsLeft
  <2> QED BY <1>1, <1>2, <1>10, <2>1 DEF UpdateInsert, Others, Request
<1>11. CASE RemoveArea(h)
  <2>1. StatementsLeft("remove_cascade") < StatementsLeft("remove")
    BY DEF StatementsLeft
  <2> QED BY <1>1, <1>2, <1>11, <2>1 DEF RemoveArea, Others, Request
<1> QED BY <1>5, <1>6, <1>7, <1>8, <1>9, <1>10, <1>11 DEF Advance

\* Every statement of a request, waits and failures included, brings it closer to its
\* answer: an update makes five statements at most, a removal two.
THEOREM RequestsGoForward == Spec => [][GoesForward]_vars
<1>1. StateOK /\ [Next]_vars => [GoesForward]_vars
  <2> SUFFICES ASSUME StateOK, Next PROVE GoesForward
    OBVIOUS
  <2>1. req \in [Handlers -> Request] /\ Idle.op = "idle" /\ \A h \in Handlers : req[h].op \in Steps
    BY DEF StateOK, Request, Idle
  <2>2. PICK h \in Handlers : Arrive(h) \/ Advance(h) \/ DeadlockVictim(h) \/ DatabaseError(h)
    BY DEF Next
  <2>3. SUFFICES ASSUME NEW g \in Handlers, ~Advance(g), req[g].op # "idle", req'[g].op # req[g].op
                 PROVE  StatementsLeft(req'[g].op) < StatementsLeft(req[g].op)
    BY StatementGoesForward DEF GoesForward
  <2>4. CASE Advance(h)
    BY <2>3, <2>4, StatementGoesForward DEF Others
  <2>5. CASE DeadlockVictim(h) \/ DatabaseError(h)
    <3>1. req' = [req EXCEPT ![h] = Idle]
      BY <2>5 DEF DeadlockVictim, DatabaseError, Respond
    <3>2. req'[g].op = "idle"
      BY <2>1, <2>3, <3>1
    <3> QED BY <2>1, <2>3, <3>2, IdleIsLast
  <2>6. CASE Arrive(h)
    <3>1. req[h].op = "idle" /\ \E r : req' = [req EXCEPT ![h] = r]
      BY <2>6 DEF Arrive, CreateCheck, UpdateRead, RemoveRead, Accept
    <3> QED BY <2>1, <2>3, <3>1
  <2> QED BY <2>2, <2>4, <2>5, <2>6
<1> QED BY <1>1, StateCorrect, PTL DEF Spec

-----------------------------------------------------------------------------
\* Validation (RectangleCells).

UpTo(S, b) == {k \in S : k <= b}
Above(S, b) == {k \in S : b <= k}

LEMMA ExtremesExist ==
    ASSUME NEW S \in SUBSET Int, IsFiniteSet(S), S # {}
    PROVE  /\ Smallest(S) \in S /\ \A k \in S : Smallest(S) <= k
           /\ Largest(S) \in S /\ \A k \in S : k <= Largest(S)
<1> DEFINE L == {UpTo(S, b) : b \in S}
           G == {Above(S, b) : b \in S}
<1>1. IsWellFoundedOn(StrictSubsetOrdering(S), SUBSET S)
  BY FS_StrictSubsetOrderingWellFounded, FS_FiniteSubsetsOfFinite
<1>2. \E n \in S : \A k \in S : n <= k
  <2>1. L \subseteq SUBSET S /\ L # {}
    BY DEF UpTo
  <2>2. PICK X \in L : \A Y \in L : ~(<<Y, X>> \in StrictSubsetOrdering(S))
    <3> HIDE DEF L
    <3> QED BY <1>1, <2>1, WFMin
  <2>3. PICK n \in S : X = UpTo(S, n)
    OBVIOUS
  <2>4. ASSUME NEW k \in S, ~(n <= k) PROVE FALSE
    <3>1. n \in Int /\ k \in Int /\ k < n
      BY <2>4
    <3>2. UpTo(S, k) \subseteq UpTo(S, n) /\ n \in UpTo(S, n) /\ n \notin UpTo(S, k)
      <4>1. \A m \in S : m <= k => m <= n
        BY <3>1
      <4>2. n <= n /\ ~(n <= k)
        BY <3>1
      <4> QED BY <4>1, <4>2 DEF UpTo
    <3>3. UpTo(S, k) \in L /\ UpTo(S, k) \in SUBSET S /\ UpTo(S, n) \in SUBSET S
      BY DEF UpTo
    <3> QED BY <2>2, <2>3, <3>2, <3>3 DEF StrictSubsetOrdering
  <2> QED BY <2>4
<1>3. \E n \in S : \A k \in S : k <= n
  <2>1. G \subseteq SUBSET S /\ G # {}
    BY DEF Above
  <2>2. PICK X \in G : \A Y \in G : ~(<<Y, X>> \in StrictSubsetOrdering(S))
    <3> HIDE DEF G
    <3> QED BY <1>1, <2>1, WFMin
  <2>3. PICK n \in S : X = Above(S, n)
    OBVIOUS
  <2>4. ASSUME NEW k \in S, ~(k <= n) PROVE FALSE
    <3>1. n \in Int /\ k \in Int /\ n < k
      BY <2>4
    <3>2. Above(S, k) \subseteq Above(S, n) /\ n \in Above(S, n) /\ n \notin Above(S, k)
      <4>1. \A m \in S : k <= m => n <= m
        BY <3>1
      <4>2. n <= n /\ ~(k <= n)
        BY <3>1
      <4> QED BY <4>1, <4>2 DEF Above
    <3>3. Above(S, k) \in G /\ Above(S, k) \in SUBSET S /\ Above(S, n) \in SUBSET S
      BY DEF Above
    <3> QED BY <2>2, <2>3, <3>2, <3>3 DEF StrictSubsetOrdering
  <2> QED BY <2>4
<1> QED BY <1>2, <1>3 DEF Smallest, Largest

\* A list of cells: its cells, how many they are, and the box around them.
LEMMA CellsOfList ==
    ASSUME NEW n \in Nat, NEW list \in [1..n -> Int \X Int]
    PROVE  /\ CellSet(list) \in SUBSET (Int \X Int) /\ IsFiniteSet(CellSet(list))
           /\ Cardinality(CellSet(list)) = n <=> NoRepeats(list)
           /\ CellSet(list) = {} <=> n = 0
<1>1. IsFiniteSet(1..n) /\ Cardinality(1..n) = n
  BY FS_Interval
<1>2. list \in Surjection(1..n, CellSet(list))
  BY DEF Surjection, CellSet
<1>3. /\ IsFiniteSet(CellSet(list))
      /\ Cardinality(CellSet(list)) = n <=> list \in Injection(1..n, CellSet(list))
  BY <1>1, <1>2, FS_Surjection
<1>4. NoRepeats(list) <=> list \in Injection(1..n, CellSet(list))
  BY <1>2 DEF NoRepeats, Injection, IsInjective, CellSet
<1>5. CellSet(list) = {} <=> n = 0
  <2>1. DOMAIN list = 1..n
    OBVIOUS
  <2>2. 1..n = {} <=> n = 0
    <3>1. n # 0 => 1 \in 1..n
      OBVIOUS
    <3>2. \A i \in 1..n : n # 0
      OBVIOUS
    <3> QED BY <3>1, <3>2
  <2> QED BY <2>1, <2>2 DEF CellSet
<1> QED BY <1>3, <1>4, <1>5 DEF CellSet

\* The box around a finite set of cells: it holds all of them.
Xs(S) == {c[1] : c \in S}
Ys(S) == {c[2] : c \in S}
BoxOf(S) == (Smallest(Xs(S))..Largest(Xs(S))) \X (Smallest(Ys(S))..Largest(Ys(S)))

LEMMA SidesAreSets ==
    ASSUME NEW S \in SUBSET (Int \X Int), IsFiniteSet(S), S # {}
    PROVE  /\ Xs(S) \in SUBSET Int /\ IsFiniteSet(Xs(S)) /\ Xs(S) # {}
           /\ Ys(S) \in SUBSET Int /\ IsFiniteSet(Ys(S)) /\ Ys(S) # {}
<1> DEFINE f == [c \in S |-> c[1]]
           g == [c \in S |-> c[2]]
<1>1. f \in Surjection(S, Xs(S)) /\ g \in Surjection(S, Ys(S))
  BY DEF Surjection, Xs, Ys
<1>2. IsFiniteSet(Xs(S)) /\ IsFiniteSet(Ys(S))
  <2> HIDE DEF f, g
  <2> QED BY <1>1, FS_Surjection
<1>3. \A c \in S : c[1] \in Int /\ c[2] \in Int
  OBVIOUS
<1> QED BY <1>2, <1>3 DEF Xs, Ys

LEMMA BoxHoldsTheCells ==
    ASSUME NEW S \in SUBSET (Int \X Int), IsFiniteSet(S), S # {}
    PROVE  /\ Smallest(Xs(S)) \in Int /\ Largest(Xs(S)) \in Int
           /\ Smallest(Ys(S)) \in Int /\ Largest(Ys(S)) \in Int
           /\ Smallest(Xs(S)) <= Largest(Xs(S)) /\ Smallest(Ys(S)) <= Largest(Ys(S))
           /\ S \subseteq BoxOf(S)
<1> DEFINE x1 == Smallest(Xs(S))
           x2 == Largest(Xs(S))
           y1 == Smallest(Ys(S))
           y2 == Largest(Ys(S))
<1>1. /\ x1 \in Int /\ x2 \in Int /\ x1 <= x2
      /\ \A k \in Xs(S) : k \in Int /\ x1 <= k /\ k <= x2
  BY SidesAreSets, ExtremesExist
<1>2. /\ y1 \in Int /\ y2 \in Int /\ y1 <= y2
      /\ \A k \in Ys(S) : k \in Int /\ y1 <= k /\ k <= y2
  BY SidesAreSets, ExtremesExist
<1> HIDE DEF x1, x2, y1, y2
<1>3. ASSUME NEW c \in S PROVE c \in (x1..x2) \X (y1..y2)
  <2>1. c = <<c[1], c[2]>> /\ c[1] \in Xs(S) /\ c[2] \in Ys(S)
    BY DEF Xs, Ys
  <2>2. c[1] \in x1..x2 /\ c[2] \in y1..y2
    BY <1>1, <1>2, <2>1
  <2> QED BY <2>1, <2>2
<1> QED BY <1>1, <1>2, <1>3 DEF BoxOf, x1, x2, y1, y2

\* A filled rectangle is its own box.
LEMMA RectangleIsItsBox ==
    ASSUME NEW x1 \in Int, NEW x2 \in Int, NEW y1 \in Int, NEW y2 \in Int, x1 <= x2, y1 <= y2,
           NEW S, S = (x1..x2) \X (y1..y2)
    PROVE  BoxOf(S) = S
<1>1. <<x1, y1>> \in S /\ x1 \in x1..x2 /\ y1 \in y1..y2
  OBVIOUS
<1>2. Xs(S) = x1..x2
  <2>1. \A x \in x1..x2 : <<x, y1>> \in S /\ <<x, y1>>[1] = x
    BY <1>1
  <2>2. \A c \in S : c[1] \in x1..x2
    OBVIOUS
  <2> QED BY <2>1, <2>2 DEF Xs
<1>3. Ys(S) = y1..y2
  <2>1. \A y \in y1..y2 : <<x1, y>> \in S /\ <<x1, y>>[2] = y
    BY <1>1
  <2>2. \A c \in S : c[2] \in y1..y2
    OBVIOUS
  <2> QED BY <2>1, <2>2 DEF Ys
<1>4. \A lo, hi \in Int : lo <= hi => Smallest(lo..hi) = lo /\ Largest(lo..hi) = hi
  <2> TAKE lo, hi \in Int
  <2> HAVE lo <= hi
  <2>1. lo..hi \in SUBSET Int /\ IsFiniteSet(lo..hi) /\ lo \in lo..hi /\ hi \in lo..hi
    BY FS_Interval
  <2>2. /\ Smallest(lo..hi) \in lo..hi /\ Smallest(lo..hi) <= lo
        /\ Largest(lo..hi) \in lo..hi /\ hi <= Largest(lo..hi)
    BY <2>1, ExtremesExist
  <2> QED BY <2>2
<1>5. BoxOf(S) = (x1..x2) \X (y1..y2)
  BY <1>2, <1>3, <1>4 DEF BoxOf
<1> QED BY <1>5

LEMMA RectanglesAreProducts ==
    ASSUME NEW X \in SUBSET Int, NEW Y \in SUBSET Int, NEW S
    PROVE  S \in Rectangles(X, Y) <=>
               \E x1, x2 \in X, y1, y2 \in Y :
                   S = (x1..x2) \X (y1..y2) /\ x1 <= x2 /\ y1 <= y2
<1>1. ASSUME NEW x1 \in X, NEW x2 \in X, NEW y1 \in Y, NEW y2 \in Y
      PROVE  /\ {<<x, y>> : x \in x1..x2, y \in y1..y2} = (x1..x2) \X (y1..y2)
             /\ (x1..x2) \X (y1..y2) # {} <=> x1 <= x2 /\ y1 <= y2
  <2>1. x1 \in Int /\ x2 \in Int /\ y1 \in Int /\ y2 \in Int
    OBVIOUS
  <2>2. x1..x2 # {} <=> x1 <= x2
    BY <2>1
  <2>3. y1..y2 # {} <=> y1 <= y2
    BY <2>1
  <2>4. {<<x, y>> : x \in x1..x2, y \in y1..y2} = (x1..x2) \X (y1..y2)
    OBVIOUS
  <2> DEFINE A == x1..x2
             B == y1..y2
  <2>5. A \X B # {} <=> A # {} /\ B # {}
    <3> HIDE DEF A, B
    <3>1. \A a \in A, b \in B : <<a, b>> \in A \X B
      OBVIOUS
    <3>2. \A c \in A \X B : c[1] \in A /\ c[2] \in B
      OBVIOUS
    <3> QED BY <3>1, <3>2
  <2> QED BY <2>2, <2>3, <2>4, <2>5
<1> DEFINE Box(x1, x2, y1, y2) == {<<x, y>> : x \in x1..x2, y \in y1..y2}
<1>2. S \in Rectangles(X, Y) <=> \E x1, x2 \in X, y1, y2 \in Y : S = Box(x1, x2, y1, y2) /\ S # {}
  <2> HIDE DEF Box
  <2>1. Rectangles(X, Y) = {Box(x1, x2, y1, y2) : x1 \in X, x2 \in X, y1 \in Y, y2 \in Y} \ {{}}
    BY DEF Rectangles, Box
  <2> QED BY <2>1
<1>3. ASSUME NEW x1 \in X, NEW x2 \in X, NEW y1 \in Y, NEW y2 \in Y
      PROVE  S = Box(x1, x2, y1, y2) /\ S # {}
                 <=> S = (x1..x2) \X (y1..y2) /\ x1 <= x2 /\ y1 <= y2
  <2>1. Box(x1, x2, y1, y2) = (x1..x2) \X (y1..y2)
    BY <1>1
  <2>2. (x1..x2) \X (y1..y2) # {} <=> x1 <= x2 /\ y1 <= y2
    BY <1>1
  <2> HIDE DEF Box
  <2> QED BY <2>1, <2>2
<1> HIDE DEF Box
<1> QED BY <1>2, <1>3

\* assertCellsFormFilledRectangle accepts a list of cells, wherever they are and in
\* whatever order, exactly when it names every cell of a filled rectangle once.
THEOREM RectanglesAccepted ==
    ASSUME NEW n \in Nat, NEW list \in [1..n -> Int \X Int]
    PROVE  CellsFormFilledRectangle(list)
               <=> Cardinality(CellSet(list)) = n /\ CellSet(list) \in Rectangles(Int, Int)
<1> DEFINE S == CellSet(list)
<1>1. /\ S \in SUBSET (Int \X Int) /\ IsFiniteSet(S)
      /\ Cardinality(S) = n <=> NoRepeats(list)
      /\ S = {} <=> n = 0
  BY CellsOfList
<1>2. list \in Seq(Int \X Int) /\ Len(list) = n /\ (list = <<>> <=> n = 0)
  OBVIOUS
<1>3. CASE n = 0
  <2>1. ~CellsFormFilledRectangle(list)
    BY <1>2, <1>3 DEF CellsFormFilledRectangle
  <2>2. S \notin Rectangles(Int, Int)
    BY <1>1, <1>3 DEF Rectangles
  <2> QED BY <2>1, <2>2
<1>4. CASE n # 0
  <2> DEFINE x1 == Smallest(Xs(S))
             x2 == Largest(Xs(S))
             y1 == Smallest(Ys(S))
             y2 == Largest(Ys(S))
  <2>1. /\ x1 \in Int /\ x2 \in Int /\ y1 \in Int /\ y2 \in Int /\ x1 <= x2 /\ y1 <= y2
        /\ S \subseteq (x1..x2) \X (y1..y2)
    <3> HIDE DEF S
    <3> QED BY <1>1, <1>4, BoxHoldsTheCells DEF BoxOf
  <2>2. MinX(list) = x1 /\ MaxX(list) = x2 /\ MinY(list) = y1 /\ MaxY(list) = y2
    BY DEF MinX, MaxX, MinY, MaxY, Xs, Ys
  <2> HIDE DEF x1, x2, y1, y2
  <2>3. BoxIsFilled(list) <=> S = (x1..x2) \X (y1..y2)
    <3>1. BoxIsFilled(list) <=> \A x \in x1..x2, y \in y1..y2 : <<x, y>> \in S
      BY <2>2 DEF BoxIsFilled
    <3> HIDE DEF S
    <3>2. ASSUME \A x \in x1..x2, y \in y1..y2 : <<x, y>> \in S PROVE (x1..x2) \X (y1..y2) \subseteq S
      BY <3>2
    <3>3. S = (x1..x2) \X (y1..y2) => \A x \in x1..x2, y \in y1..y2 : <<x, y>> \in S
      OBVIOUS
    <3> QED BY <2>1, <3>1, <3>2, <3>3
  <2>4. Cardinality((x1..x2) \X (y1..y2)) = Side(x1, x2) * Side(y1, y2)
    <3>1. IsFiniteSet(x1..x2) /\ Cardinality(x1..x2) = Side(x1, x2)
      BY <2>1, FS_Interval DEF Side
    <3>2. IsFiniteSet(y1..y2) /\ Cardinality(y1..y2) = Side(y1, y2)
      BY <2>1, FS_Interval DEF Side
    <3>3. Cardinality((x1..x2) \X (y1..y2)) = Cardinality(x1..x2) * Cardinality(y1..y2)
      BY <3>1, <3>2, FS_Product
    <3> QED BY <3>1, <3>2, <3>3, Zenon
  <2>5. CellsFormFilledRectangle(list)
            <=> NoRepeats(list) /\ S = (x1..x2) \X (y1..y2) /\ Cardinality(S) = n
    BY <1>2, <1>4, <2>2, <2>3, <2>4 DEF CellsFormFilledRectangle
  <2>6. S \in Rectangles(Int, Int) <=> S = (x1..x2) \X (y1..y2)
    <3>1. ASSUME S = (x1..x2) \X (y1..y2) PROVE S \in Rectangles(Int, Int)
      BY <2>1, <3>1, RectanglesAreProducts
    <3>2. ASSUME S \in Rectangles(Int, Int) PROVE S = (x1..x2) \X (y1..y2)
      <4> HIDE DEF S
      <4>1. PICK u1, u2 \in Int, v1, v2 \in Int :
                S = (u1..u2) \X (v1..v2) /\ u1 <= u2 /\ v1 <= v2
        BY <3>2, RectanglesAreProducts
      <4>3. BoxOf(S) = S
        BY <4>1, RectangleIsItsBox
      <4>4. BoxOf(S) = (x1..x2) \X (y1..y2)
        BY DEF BoxOf, x1, x2, y1, y2
      <4> QED BY <4>3, <4>4, Zenon
    <3> QED BY <3>1, <3>2
  <2>7. NoRepeats(list) <=> Cardinality(S) = n
    BY <1>1
  <2>8. CellsFormFilledRectangle(list) <=> S \in Rectangles(Int, Int) /\ Cardinality(S) = n
    <3> HIDE DEF S
    <3> QED BY <2>5, <2>6, <2>7
  <2> QED BY <2>8
<1> QED BY <1>3, <1>4

LEMMA ListsAreJudged == AcceptsEveryRectangle /\ AcceptsNothingElse
<1>1. Columns \in SUBSET Int /\ GridRows \in SUBSET Int /\ Cardinality(Grid) \in Nat
  BY GridIsFinite, FS_CardinalityType
<1>2. ASSUME NEW n \in Nat, NEW list \in [1..n -> Grid]
      PROVE  CellsFormFilledRectangle(list)
                 <=> /\ Cardinality(CellSet(list)) = n
                     /\ CellSet(list) \in Rectangles(Columns, GridRows)
  <2>1. list \in [1..n -> Int \X Int] /\ CellSet(list) \subseteq Grid
    BY <1>1 DEF Grid, CellSet
  <2> DEFINE S == CellSet(list)
  <2>2. S \in Rectangles(Columns, GridRows) <=> S \in Rectangles(Int, Int)
    <3> HIDE DEF S
    <3>1. ASSUME S \in Rectangles(Columns, GridRows) PROVE S \in Rectangles(Int, Int)
      <4>1. PICK u1, u2 \in Columns, v1, v2 \in GridRows :
                S = (u1..u2) \X (v1..v2) /\ u1 <= u2 /\ v1 <= v2
        BY <1>1, <3>1, RectanglesAreProducts
      <4>2. u1 \in Int /\ u2 \in Int /\ v1 \in Int /\ v2 \in Int
        BY <1>1
      <4> QED BY <4>1, <4>2, RectanglesAreProducts
    <3>2. ASSUME S \in Rectangles(Int, Int), S \subseteq Grid
          PROVE  S \in Rectangles(Columns, GridRows)
      <4>1. PICK u1, u2 \in Int, v1, v2 \in Int :
                S = (u1..u2) \X (v1..v2) /\ u1 <= u2 /\ v1 <= v2
        BY <3>2, RectanglesAreProducts
      <4>2. <<u1, v1>> \in S /\ <<u2, v2>> \in S
        BY <4>1
      <4>3. u1 \in Columns /\ u2 \in Columns /\ v1 \in GridRows /\ v2 \in GridRows
        BY <3>2, <4>2 DEF Grid
      <4> QED BY <1>1, <4>1, <4>3, RectanglesAreProducts
    <3> QED BY <2>1, <3>1, <3>2 DEF S
  <2> QED BY <2>1, <2>2, RectanglesAccepted
<1> QED
  BY <1>1, <1>2 DEF AcceptsEveryRectangle, AcceptsNothingElse, NamesRectangle

\* A request keeps the cells it was accepted with.
HoldsShapes == \A h \in Handlers : req[h].cells \in Shapes \cup {{}}

LEMMA ShapesAreHeld == StateOK /\ HoldsShapes /\ [Next]_vars => HoldsShapes'
<1> SUFFICES ASSUME StateOK, HoldsShapes, [Next]_vars PROVE HoldsShapes'
  OBVIOUS
<1>1. req \in [Handlers -> Request] /\ Idle.cells = {}
  BY DEF StateOK, Idle
<1>2. ASSUME NEW h \in Handlers, NEW q, req' = [req EXCEPT ![h] = q], q.cells \in Shapes \cup {{}}
      PROVE  HoldsShapes'
  BY <1>1, <1>2 DEF HoldsShapes
<1>3. ASSUME NEW h \in Handlers, Respond(h) PROVE HoldsShapes'
  BY <1>1, <1>2, <1>3 DEF Respond
<1>4. ASSUME NEW h \in Handlers, NEW a, NEW S, Forget(h, a, S) PROVE HoldsShapes'
  <2>1. ASSUME NEW g \in Handlers PROVE req'[g].cells \in Shapes \cup {{}}
    <3>1. /\ req[g] \in Request /\ req[g].cells \in Shapes \cup {{}}
          /\ \/ req'[g] = Idle \/ req'[g] = req[g]
             \/ req'[g] = [req[g] EXCEPT !.seen = @ \ S]
      BY <1>1, <1>4 DEF Forget, HoldsShapes
    <3> QED BY <1>1, <3>1 DEF Request
  <2> QED BY <2>1 DEF HoldsShapes
<1>5. CASE UNCHANGED vars
  BY <1>5 DEF vars, HoldsShapes
<1>6. ASSUME NEW h \in Handlers,
             Arrive(h) \/ Advance(h) \/ DeadlockVictim(h) \/ DatabaseError(h)
      PROVE  HoldsShapes'
  <2>1. req[h] \in Request /\ req[h].cells \in Shapes \cup {{}}
    BY <1>1 DEF HoldsShapes
  <2>2. CASE CreateCheck(h)
    <3>1. PICK S \in Shapes : req' = [req EXCEPT ![h] = [Idle EXCEPT !.op = "create", !.cells = S]]
      BY <2>2 DEF CreateCheck, Accept
    <3>2. PICK q : q = [Idle EXCEPT !.op = "create", !.cells = S]
      OBVIOUS
    <3> QED BY <1>2, <3>1, <3>2 DEF Idle
  <2>3. CASE UpdateRead(h)
    <3>1. PICK a \in areas, S \in Shapes \cup {{}},
               m \in ModeEdits \cup {None}, l \in LabelEdits \cup {None} :
            Accept(h, [Idle EXCEPT !.op = IF S = {} THEN "label_write" ELSE "update_check",
                                   !.area = a, !.cells = S, !.mode = m, !.label = l])
      BY <2>3, Zenon DEF UpdateRead
    <3>2. PICK q : q = [Idle EXCEPT !.op = IF S = {} THEN "label_write" ELSE "update_check",
                                    !.area = a, !.cells = S, !.mode = m, !.label = l]
      OBVIOUS
    <3>3. q.cells = S
      BY <3>2 DEF Idle
    <3> QED BY <1>2, <3>1, <3>2, <3>3 DEF Accept
  <2>4. CASE RemoveRead(h)
    <3>1. PICK a \in areas : req' = [req EXCEPT ![h] = [Idle EXCEPT !.op = "remove", !.area = a]]
      BY <2>4 DEF RemoveRead, Accept
    <3>2. PICK q : q = [Idle EXCEPT !.op = "remove", !.area = a]
      OBVIOUS
    <3> QED BY <1>2, <3>1, <3>2 DEF Idle
  <2>5. CASE UpdateCheckOverlap(h) \/ UpdateDelete(h) \/ UpdateUnblock(h) \/ UpdateInsert(h) \/ RemoveArea(h)
    <3>1. Respond(h) \/ \E q : req' = [req EXCEPT ![h] = q] /\ q.cells = req[h].cells
      BY <1>1, <2>1, <2>5 DEF UpdateCheckOverlap, UpdateDelete, UpdateUnblock, UpdateInsert, RemoveArea, Request
    <3> QED BY <1>2, <1>3, <2>1, <3>1
  <2>6. CASE UpdateCommit(h) \/ RemoveCommit(h)
    BY <1>4, <2>6 DEF UpdateCommit, RemoveCommit
  <2>7. CASE CreateCommit(h) \/ LabelWrite(h) \/ DeadlockVictim(h) \/ DatabaseError(h)
    BY <1>3, <2>7 DEF CreateCommit, LabelWrite, DeadlockVictim, DatabaseError
  <2> QED BY <1>6, <2>2, <2>3, <2>4, <2>5, <2>6, <2>7 DEF Arrive, Advance
<1> QED BY <1>5, <1>6 DEF Next

\* On any grid: validation accepts the lists that name every cell of a filled rectangle of
\* the grid once, in any order, and no other list; and a request goes on with what was accepted.
THEOREM AcceptsRectangles == Spec => []AcceptsExactlyFilledRectangles
<1>1. Init => HoldsShapes
  <2>1. Idle.cells = {}
    BY DEF Idle
  <2>2. Init => \A h \in Handlers : req[h] = Idle
    BY DEF Init
  <2> QED BY <2>1, <2>2 DEF HoldsShapes
<1>2. HoldsShapes => AcceptsExactlyFilledRectangles
  BY ListsAreJudged, ShapesAreAccepted DEF HoldsShapes, RequestsHoldRectangles, AcceptsExactlyFilledRectangles
<1> QED BY <1>1, <1>2, ShapesAreHeld, StateCorrect, PTL DEF Spec

-----------------------------------------------------------------------------
(* Sizes and shapes.  An edit whose deleteMany did not wait sees every cell of    *)
(* its area, and is the only one that has deleted or inserted cells of it.        *)

EditOps == {"update_insert", "update_area"}

EditsSeeTheirArea ==
    \A h \in Handlers :
        /\ req[h].op = "update_area" => req[h].inserted \in Shapes
        /\ req[h].op = "update_blocked" => req[h].area \in overlapped
        /\ req[h].op \in EditOps /\ req[h].area \in areas \ overlapped =>
               req[h].deleted = CellsOf(req[h].area)

OneEditor ==
    \A g, h \in Handlers :
        /\ g # h /\ req[g].op \in EditOps /\ req[h].op \in EditOps
        /\ req[g].area = req[h].area
        => req[h].area \notin areas \ overlapped

\* An id is used once, and a request is about an area that has been created.
IdsAreUsedOnce ==
    /\ fresh \cap areas = {}
    /\ \A h \in Handlers : req[h].op \notin {"idle", "create"} => req[h].area \notin fresh

Drawn == \A a \in areas \ overlapped :
             CellsOf(a) \in Shapes /\ squareMeters[a] = Cardinality(CellsOf(a))

SInv == /\ IInv /\ HoldsShapes
        /\ EditsSeeTheirArea /\ OneEditor /\ IdsAreUsedOnce /\ Drawn

LEMMA ObserveFacts ==
    ASSUME IInv', Observe
    PROVE  /\ overlapped \subseteq overlapped'
           /\ \A g \in Handlers : req'[g].op = "update_blocked" => req'[g].area \in overlapped'
BY DEF Observe, Waiting, IInv, StateOK

\* A step that writes no area, and leaves request q with h.
LEMMA GoesOnDrawn ==
    ASSUME SInv, IInv', HoldsShapes', Observe, NEW h \in Handlers, NEW q,
           req' = [req EXCEPT ![h] = q], UNCHANGED <<fresh, areas, squareMeters, cells>>,
           q.op = "update_area" => q.inserted \in Shapes,
           q.op \notin {"idle", "create"} => q.area \notin fresh,
           q.op \in EditOps /\ q.area \in areas \ overlapped =>
               /\ q.deleted = CellsOf(q.area)
               /\ \A g \in Handlers \ {h} : req[g].op \in EditOps => req[g].area # q.area
    PROVE  SInv'
<1>1. req'[h] = q /\ \A g \in Handlers \ {h} : req'[g] = req[g]
  BY DEF SInv, IInv, StateOK
<1>2. \A a : CellsOf(a)' = CellsOf(a)
  BY DEF CellsOf
<1>3. areas' \ overlapped' \subseteq areas \ overlapped
  BY ObserveFacts
<1>4. \A g \in Handlers :
          /\ req'[g].op = "update_area" => req'[g].inserted \in Shapes
          /\ req'[g].op \in EditOps /\ req'[g].area \in areas' \ overlapped' =>
                 req'[g].deleted = CellsOf(req'[g].area)
  BY <1>1, <1>3 DEF SInv, EditsSeeTheirArea
<1>5. EditsSeeTheirArea'
  BY <1>2, <1>4, ObserveFacts DEF EditsSeeTheirArea
<1>6. OneEditor'
  BY <1>1, <1>3 DEF SInv, OneEditor
<1>7. IdsAreUsedOnce'
  BY <1>1 DEF SInv, IdsAreUsedOnce
<1>8. Drawn'
  BY <1>2, <1>3 DEF SInv, Drawn
<1> QED BY <1>5, <1>6, <1>7, <1>8 DEF SInv

LEMMA RespondDrawn ==
    ASSUME SInv, IInv', HoldsShapes', Observe, NEW h \in Handlers, Respond(h),
           UNCHANGED <<fresh, areas, squareMeters, cells>>
    PROVE  SInv'
<1>1. Idle.op = "idle"
  BY DEF Idle
<1> QED BY <1>1, GoesOnDrawn DEF Respond, EditOps

LEMMA ReadsDrawn ==
    ASSUME SInv, IInv', HoldsShapes', Observe, NEW h \in Handlers,
           \/ CreateCheck(h) \/ UpdateRead(h) \/ RemoveRead(h) \/ UpdateCheckOverlap(h)
           \/ UpdateDelete(h) \/ UpdateUnblock(h) \/ UpdateInsert(h) \/ RemoveArea(h)
    PROVE  SInv'
<1>1. UNCHANGED <<fresh, areas, squareMeters, cells>>
  BY DEF CreateCheck, UpdateRead, RemoveRead, UpdateCheckOverlap, UpdateDelete,
         UpdateUnblock, UpdateInsert, RemoveArea, TablesUnchanged
<1>2. CASE Respond(h)
  BY <1>1, <1>2, RespondDrawn
<1>3. CASE CreateCheck(h)
  <2>1. PICK S \in Shapes : req' = [req EXCEPT ![h] = [Idle EXCEPT !.op = "create", !.cells = S]]
    BY <1>3 DEF CreateCheck, Accept
  <2>2. PICK q : q = [Idle EXCEPT !.op = "create", !.cells = S]
    OBVIOUS
  <2>3. q.op = "create"
    BY <2>2 DEF Idle
  <2> QED BY <1>1, <2>1, <2>2, <2>3, GoesOnDrawn DEF EditOps
<1>4. CASE UpdateRead(h)
  <2>1. PICK a \in areas, S \in Shapes \cup {{}},
             m \in ModeEdits \cup {None}, l \in LabelEdits \cup {None} :
          Accept(h, [Idle EXCEPT !.op = IF S = {} THEN "label_write" ELSE "update_check",
                                 !.area = a, !.cells = S, !.mode = m, !.label = l])
    BY <1>4, Zenon DEF UpdateRead
  <2>2. PICK q : q = [Idle EXCEPT !.op = IF S = {} THEN "label_write" ELSE "update_check",
                                  !.area = a, !.cells = S, !.mode = m, !.label = l]
    OBVIOUS
  <2>3. q.op \in {"label_write", "update_check"} /\ q.area = a
    BY <2>2 DEF Idle
  <2>4. req' = [req EXCEPT ![h] = q]
    BY <2>1, <2>2 DEF Accept
  <2>5. a \notin fresh
    BY DEF SInv, IdsAreUsedOnce
  <2> QED BY <1>1, <2>3, <2>4, <2>5, GoesOnDrawn DEF EditOps
<1>5. CASE RemoveRead(h)
  <2>1. PICK a \in areas : req' = [req EXCEPT ![h] = [Idle EXCEPT !.op = "remove", !.area = a]]
    BY <1>5 DEF RemoveRead, Accept
  <2>2. PICK q : q = [Idle EXCEPT !.op = "remove", !.area = a]
    OBVIOUS
  <2>3. q.op = "remove" /\ q.area = a /\ a \notin fresh
    BY <2>2 DEF Idle, SInv, IdsAreUsedOnce
  <2> QED BY <1>1, <2>1, <2>2, <2>3, GoesOnDrawn DEF EditOps
<1> DEFINE a == req[h].area
<1>6. CASE UpdateCheckOverlap(h) /\ ~Respond(h)
  <2>1. PICK q : q = [req[h] EXCEPT !.op = "update_delete"]
    OBVIOUS
  <2>2. req' = [req EXCEPT ![h] = q]
    BY <1>6, <2>1 DEF UpdateCheckOverlap
  <2>3. q.op = "update_delete" /\ q.area \notin fresh
    BY <1>6, <2>1 DEF UpdateCheckOverlap, SInv, IInv, StateOK, Request, IdsAreUsedOnce
  <2> QED BY <1>1, <2>2, <2>3, GoesOnDrawn DEF EditOps
<1>7. CASE UpdateDelete(h) /\ CellsOf(a) \cap LockedCells(h, a) = {}
  <2>1. PICK q : q = [req[h] EXCEPT !.op = "update_insert", !.deleted = CellsOf(a)]
    OBVIOUS
  <2>2. req' = [req EXCEPT ![h] = q]
    BY <1>7, <2>1 DEF UpdateDelete
  <2>3. /\ q.op = "update_insert" /\ q.area = a /\ q.deleted = CellsOf(a) /\ a \notin fresh
    BY <1>7, <2>1 DEF UpdateDelete, SInv, IInv, StateOK, Request, IdsAreUsedOnce
  <2>4. ASSUME a \in areas \ overlapped, NEW g \in Handlers \ {h},
               req[g].op \in EditOps, req[g].area = a
        PROVE  FALSE
    <3>1. req[g].deleted = CellsOf(a)
      BY <2>4 DEF SInv, EditsSeeTheirArea
    <3>2. CellsOf(a) # {}
      BY <2>4 DEF SInv, IInv, NoEmptyArea
    <3>3. req[g].deleted \subseteq LockedCells(h, a)
      BY <2>4 DEF LockedCells, Others
    <3> QED BY <1>7, <3>1, <3>2, <3>3
  <2> HIDE DEF a
  <2> QED BY <1>1, <2>2, <2>3, <2>4, GoesOnDrawn DEF EditOps
<1>8. CASE UpdateDelete(h) /\ CellsOf(a) \cap LockedCells(h, a) # {}
  <2>1. PICK q : q = [req[h] EXCEPT !.op = "update_blocked", !.seen = CellsOf(a)]
    OBVIOUS
  <2>2. req' = [req EXCEPT ![h] = q]
    BY <1>8, <2>1 DEF UpdateDelete
  <2>3. req[h].op = "update_delete" /\ req[h] \in Request
    BY <1>8 DEF UpdateDelete, SInv, IInv, StateOK
  <2>4. q.op = "update_blocked" /\ q.area = a
    BY <2>1, <2>3 DEF Request
  <2>5. a \notin fresh
    BY <2>3 DEF SInv, IdsAreUsedOnce
  <2> HIDE DEF a
  <2> QED BY <1>1, <2>2, <2>4, <2>5, GoesOnDrawn DEF EditOps
<1>9. CASE UpdateUnblock(h)
  <2>1. PICK q : q = [req[h] EXCEPT !.op = "update_insert", !.deleted = req[h].seen, !.seen = {}]
    OBVIOUS
  <2>2. req' = [req EXCEPT ![h] = q]
    BY <1>9, <2>1 DEF UpdateUnblock
  <2>3. q.op = "update_insert" /\ q.area \notin fresh /\ q.area \in overlapped
    BY <1>9, <2>1
       DEF UpdateUnblock, SInv, IInv, StateOK, Request, IdsAreUsedOnce, EditsSeeTheirArea
  <2> QED BY <1>1, <2>2, <2>3, GoesOnDrawn DEF EditOps
<1>10. CASE UpdateInsert(h) /\ ~Respond(h)
  <2>1. PICK q : q = [req[h] EXCEPT !.op = "update_area", !.inserted = req[h].cells]
    OBVIOUS
  <2>2. req' = [req EXCEPT ![h] = q]
    BY <1>10, <2>1 DEF UpdateInsert
  <2>3. req[h].op = "update_insert" /\ req[h] \in Request
    BY <1>10 DEF UpdateInsert, SInv, IInv, StateOK
  <2>4. req[h].cells \in Shapes
    BY <2>3 DEF SInv, HoldsShapes, IInv, OpenWrites
  <2>5. /\ q.op = "update_area" /\ q.inserted \in Shapes
        /\ q.area = a /\ q.deleted = req[h].deleted
    BY <2>1, <2>3, <2>4 DEF Request
  <2>6. a \notin fresh
    BY <2>3 DEF SInv, IdsAreUsedOnce
  <2>7. a \in areas \ overlapped =>
            /\ req[h].deleted = CellsOf(a)
            /\ \A g \in Handlers \ {h} : req[g].op \in EditOps => req[g].area # a
    BY <2>3 DEF SInv, EditsSeeTheirArea, OneEditor, EditOps
  <2> HIDE DEF a
  <2> QED BY <1>1, <2>2, <2>5, <2>6, <2>7, GoesOnDrawn
<1>11. CASE RemoveArea(h) /\ ~Respond(h)
  <2>1. PICK q : q = [req[h] EXCEPT !.op = "remove_cascade"]
    OBVIOUS
  <2>2. req' = [req EXCEPT ![h] = q]
    BY <1>11, <2>1 DEF RemoveArea
  <2>3. q.op = "remove_cascade" /\ q.area \notin fresh
    BY <1>11, <2>1 DEF RemoveArea, SInv, IInv, StateOK, Request, IdsAreUsedOnce
  <2> QED BY <1>1, <2>2, <2>3, GoesOnDrawn DEF EditOps
<1> QED BY <1>2, <1>3, <1>4, <1>5, <1>6, <1>7, <1>8, <1>9, <1>10, <1>11

\* A commit about area a: the other requests keep theirs, and what they know of the
\* areas that stay and are not a.
LEMMA CommitDrawn ==
    ASSUME SInv, IInv', HoldsShapes', Observe, NEW h \in Handlers, NEW a \in Areas,
           req'[h] = Idle,
           \A g \in Handlers \ {h} :
               /\ req'[g].op = req[g].op /\ req'[g].area = req[g].area
               /\ req'[g].deleted = req[g].deleted /\ req'[g].inserted = req[g].inserted,
           areas' \ {a} \subseteq areas, fresh' \subseteq fresh, fresh' \cap areas' = {},
           \A b \in Areas \ {a} : CellsOf(b)' = CellsOf(b) /\ squareMeters'[b] = squareMeters[b],
           a \in areas' \ overlapped' =>
               /\ CellsOf(a)' \in Shapes /\ squareMeters'[a] = Cardinality(CellsOf(a)')
               /\ \A g \in Handlers \ {h} : req[g].op \in EditOps => req[g].area # a
    PROVE  SInv'
<1>1. Idle.op = "idle"
  BY DEF Idle
<1>2. overlapped \subseteq overlapped' /\ areas' \subseteq Areas
  BY ObserveFacts DEF IInv, StateOK
<1>3. ASSUME NEW g \in Handlers, req'[g].op \in EditOps, req'[g].area \in areas' \ overlapped'
      PROVE  /\ g # h /\ req'[g].area # a /\ req'[g].area \in areas \ overlapped
             /\ req[g].op \in EditOps
  BY <1>1, <1>2, <1>3 DEF EditOps
<1>4. ASSUME NEW g \in Handlers
      PROVE  /\ req'[g].op = "update_area" => req'[g].inserted \in Shapes
             /\ req'[g].op = "update_blocked" => req'[g].area \in overlapped'
             /\ req'[g].op \in EditOps /\ req'[g].area \in areas' \ overlapped' =>
                    req'[g].deleted = {c \in Grid : <<req'[g].area, c>> \in cells'}
  <2>1. req'[g].op = "update_area" => req'[g].inserted \in Shapes
    BY <1>1 DEF SInv, EditsSeeTheirArea
  <2>2. ASSUME req'[g].op \in EditOps, req'[g].area \in areas' \ overlapped'
        PROVE  req'[g].deleted = {c \in Grid : <<req'[g].area, c>> \in cells'}
    <3>1. /\ g # h /\ req'[g].area # a /\ req'[g].area \in areas \ overlapped
          /\ req[g].op \in EditOps
      BY <1>3, <2>2
    <3>2. req[g].deleted = CellsOf(req[g].area)
      BY <3>1 DEF SInv, EditsSeeTheirArea
    <3>3. PICK b \in Areas \ {a} : b = req[g].area
      BY <1>2, <2>2, <3>1
    <3>4. CellsOf(b)' = CellsOf(b)
      BY <3>3
    <3> QED BY <3>1, <3>2, <3>3, <3>4 DEF CellsOf
  <2> QED BY <2>1, <2>2, ObserveFacts
<1>5. EditsSeeTheirArea'
  BY <1>4 DEF EditsSeeTheirArea, CellsOf
<1>6. OneEditor'
  <2> SUFFICES ASSUME NEW g \in Handlers, NEW k \in Handlers, g # k,
                      req'[g].op \in EditOps, req'[k].op \in EditOps,
                      req'[g].area = req'[k].area, req'[k].area \in areas' \ overlapped'
               PROVE  FALSE
    BY DEF OneEditor
  <2> QED BY <1>3 DEF SInv, OneEditor
<1>7. IdsAreUsedOnce'
  BY <1>1 DEF SInv, IdsAreUsedOnce
<1>8. Drawn'
  <2>1. ASSUME NEW b \in areas' \ overlapped', b # a
        PROVE  CellsOf(b)' \in Shapes /\ squareMeters'[b] = Cardinality(CellsOf(b)')
    <3>1. b \in areas \ overlapped /\ b \in Areas \ {a}
      BY <1>2, <2>1
    <3>2. CellsOf(b)' = CellsOf(b) /\ squareMeters'[b] = squareMeters[b]
      BY <3>1
    <3> QED BY <3>1, <3>2 DEF SInv, Drawn
  <2>2. ASSUME NEW b \in areas' \ overlapped'
        PROVE  CellsOf(b)' \in Shapes /\ squareMeters'[b] = Cardinality(CellsOf(b)')
    BY <2>1
  <2> QED BY <2>2 DEF Drawn, CellsOf
<1> QED BY <1>5, <1>6, <1>7, <1>8 DEF SInv

\* The new area is made of the cells its request asked for.
LEMMA CreateDrawn ==
    ASSUME SInv, IInv', HoldsShapes', Observe, NEW h \in Handlers, CreateCommit(h)
    PROVE  SInv'
<1> DEFINE S == req[h].cells
<1>1. Respond(h)
  BY DEF CreateCommit
<1>2. CASE TablesUnchanged
  BY <1>1, <1>2, RespondDrawn DEF TablesUnchanged
<1>3. ASSUME NEW a \in fresh, fresh' = fresh \ {a}, areas' = areas \cup {a},
             squareMeters' = [squareMeters EXCEPT ![a] = Cardinality(S)],
             cells' = cells \cup ({a} \X S)
      PROVE  SInv'
  <2>1. a \in Areas /\ a \notin areas /\ S \in Shapes /\ S \in SUBSET Grid
    BY ShapesAreCells DEF CreateCommit, SInv, IInv, StateOK, HoldsShapes, OpenWrites,
       IdsAreUsedOnce
  <2>2. \A r \in cells : r[1] # a
    BY <2>1 DEF SInv, IInv, CellsHaveAnArea
  <2>3. CellsOf(a)' = S
    BY <1>3, <2>1, <2>2 DEF CellsOf
  <2>4. \A b \in Areas \ {a} : CellsOf(b)' = CellsOf(b) /\ squareMeters'[b] = squareMeters[b]
    BY <1>3, <2>1 DEF CellsOf, SInv, IInv, StateOK
  <2>5. squareMeters'[a] = Cardinality(S)
    BY <1>3, <2>1 DEF SInv, IInv, StateOK
  <2>6. fresh' \cap areas' = {} /\ areas' \ {a} \subseteq areas /\ fresh' \subseteq fresh
    BY <1>3 DEF SInv, IdsAreUsedOnce
  <2>7. \A g \in Handlers \ {h} : req[g].op \in EditOps => req[g].area # a
    BY <1>3 DEF SInv, IdsAreUsedOnce, EditOps
  <2>8. req'[h] = Idle /\ \A g \in Handlers \ {h} : req'[g] = req[g]
    BY <1>1 DEF Respond, SInv, IInv, StateOK
  <2> HIDE DEF S
  <2> QED BY <2>1, <2>3, <2>4, <2>5, <2>6, <2>7, <2>8, CommitDrawn
<1> QED BY <1>2, <1>3 DEF CreateCommit

\* The edited area is made of the cells that were inserted.
LEMMA UpdateDrawn ==
    ASSUME SInv, IInv', HoldsShapes', Observe, NEW h \in Handlers, UpdateCommit(h),
           NEW a, a = req[h].area, NEW S, S = req[h].inserted, NEW D, D = req[h].deleted
    PROVE  SInv'
<1>1. /\ UNCHANGED <<fresh, areas>> /\ cells' = (cells \ ({a} \X D)) \cup ({a} \X S)
      /\ squareMeters' = [squareMeters EXCEPT ![a] = Cardinality(S)]
      /\ Forget(h, a, D)
  BY DEF UpdateCommit, CellsAfter, SquareMetersAfter
<1>2. /\ a \in Areas /\ S \in Shapes /\ S \in SUBSET Grid
      /\ a \in areas \ overlapped => D = CellsOf(a)
  BY ShapesAreCells DEF UpdateCommit, SInv, IInv, StateOK, EditsSeeTheirArea, EditOps
<1>3. /\ req'[h] = Idle
      /\ \A g \in Handlers \ {h} :
             /\ req'[g].op = req[g].op /\ req'[g].area = req[g].area
             /\ req'[g].deleted = req[g].deleted /\ req'[g].inserted = req[g].inserted
  BY <1>1, ForgetFacts DEF SInv
<1>4. a \in areas \ overlapped =>
          \A g \in Handlers \ {h} : req[g].op \in EditOps => req[g].area # a
  BY DEF UpdateCommit, SInv, OneEditor, EditOps
<1>5. squareMeters'[a] = Cardinality(S)
      /\ \A b \in Areas \ {a} : squareMeters'[b] = squareMeters[b]
  BY <1>1, <1>2 DEF SInv, IInv, StateOK
<1>6. fresh' \cap areas' = {} /\ areas' \ {a} \subseteq areas /\ fresh' \subseteq fresh
  BY <1>1 DEF SInv, IdsAreUsedOnce
<1>7. areas' \ overlapped' \subseteq areas \ overlapped
  BY <1>1, ObserveFacts
<1>8. cells' = (cells \ ({a} \X D)) \cup ({a} \X S)
  BY <1>1
<1>9. \A b \in Areas \ {a} : CellsOf(b)' = CellsOf(b)
  BY <1>8 DEF CellsOf
<1>10. ASSUME a \in areas \ overlapped PROVE CellsOf(a)' = S
  <2>1. \A c \in Grid : <<a, c>> \in cells => c \in D
    BY <1>2, <1>10 DEF CellsOf
  <2>2. \A c \in Grid : <<a, c>> \in cells' <=> c \in S
    BY <1>8, <2>1
  <2> QED BY <1>2, <2>2 DEF CellsOf
<1>11. a \in areas' \ overlapped' =>
           CellsOf(a)' \in Shapes /\ squareMeters'[a] = Cardinality(CellsOf(a)')
  <2>1. ASSUME a \in areas' \ overlapped' PROVE CellsOf(a)' = S
    BY <1>7, <1>10, <2>1
  <2> QED BY <1>2, <1>5, <2>1
<1> QED BY <1>2, <1>3, <1>4, <1>5, <1>6, <1>7, <1>9, <1>11, CommitDrawn

LEMMA RemoveDrawn ==
    ASSUME SInv, IInv', HoldsShapes', Observe, NEW h \in Handlers, RemoveCommit(h),
           NEW a, a = req[h].area
    PROVE  SInv'
<1>1. /\ areas' = areas \ {a} /\ cells' = cells \ ({a} \X CellsOf(a)) /\ a \in Areas
      /\ UNCHANGED <<fresh, squareMeters>> /\ Forget(h, a, CellsOf(a))
  BY DEF RemoveCommit, Cascade, SInv, IInv, StateOK
<1>2. /\ req'[h] = Idle
      /\ \A g \in Handlers \ {h} :
             /\ req'[g].op = req[g].op /\ req'[g].area = req[g].area
             /\ req'[g].deleted = req[g].deleted /\ req'[g].inserted = req[g].inserted
  BY <1>1, ForgetFacts DEF SInv
<1>3. \A b \in Areas \ {a} : CellsOf(b)' = CellsOf(b)
  BY <1>1 DEF CellsOf
<1>4. fresh' \cap areas' = {} /\ areas' \ {a} \subseteq areas /\ fresh' \subseteq fresh
  BY <1>1 DEF SInv, IdsAreUsedOnce
<1>5. /\ \A b \in Areas \ {a} : squareMeters'[b] = squareMeters[b]
      /\ a \notin areas'
  BY <1>1
<1> QED BY <1>1, <1>2, <1>3, <1>4, <1>5, CommitDrawn

LEMMA NextSInv == SInv /\ [Next]_vars => SInv'
<1> SUFFICES ASSUME SInv, [Next]_vars PROVE SInv'
  OBVIOUS
<1>1. IInv' /\ HoldsShapes'
  BY NextIInv, ShapesAreHeld DEF SInv, IInv
<1>2. CASE UNCHANGED vars
  <2>1. \A a : CellsOf(a)' = CellsOf(a)
    BY <1>2 DEF vars, CellsOf
  <2>2. /\ EditsSeeTheirArea' /\ OneEditor' /\ IdsAreUsedOnce' /\ Drawn'
    BY <1>2, <2>1 DEF vars, SInv, EditsSeeTheirArea, OneEditor, IdsAreUsedOnce, Drawn, CellsOf
  <2> QED BY <1>1, <2>2 DEF SInv
<1>3. ASSUME NEW h \in Handlers, Observe,
             Arrive(h) \/ Advance(h) \/ DeadlockVictim(h) \/ DatabaseError(h)
      PROVE  SInv'
  <2>1. CASE CreateCommit(h)
    BY <1>1, <1>3, <2>1, CreateDrawn
  <2>2. CASE UpdateCommit(h)
    <3>1. PICK a, S, D : a = req[h].area /\ S = req[h].inserted /\ D = req[h].deleted
      OBVIOUS
    <3> QED BY <1>1, <1>3, <2>2, <3>1, UpdateDrawn
  <2>3. CASE RemoveCommit(h)
    <3>1. PICK a : a = req[h].area
      OBVIOUS
    <3> QED BY <1>1, <1>3, <2>3, <3>1, RemoveDrawn
  <2>4. CASE LabelWrite(h) \/ DeadlockVictim(h) \/ DatabaseError(h)
    BY <1>1, <1>3, <2>4, RespondDrawn
       DEF LabelWrite, DeadlockVictim, DatabaseError, TablesUnchanged
  <2>5. CASE \/ CreateCheck(h) \/ UpdateRead(h) \/ RemoveRead(h) \/ UpdateCheckOverlap(h)
             \/ UpdateDelete(h) \/ UpdateUnblock(h) \/ UpdateInsert(h) \/ RemoveArea(h)
    BY <1>1, <1>3, <2>5, ReadsDrawn
  <2> QED BY <1>3, <2>1, <2>2, <2>3, <2>4, <2>5 DEF Arrive, Advance
<1> QED BY <1>2, <1>3 DEF Next

\* Every area of which no two edits have met is a filled rectangle, and its stored size is
\* the number of its cells, on any grid and with any number of requests under way.
THEOREM AreasConsistent == Spec => []AreasAreConsistent
<1>1. ASSUME Init PROVE SInv
  <2>1. IInv /\ areas = {}
    BY <1>1, InitIInv DEF Init
  <2>2. \A h \in Handlers : req[h].op = "idle" /\ req[h].cells = {}
    BY <1>1 DEF Init, Idle
  <2> QED BY <2>1, <2>2 DEF SInv, HoldsShapes, EditsSeeTheirArea, OneEditor, IdsAreUsedOnce,
          Drawn, EditOps
<1>2. SInv /\ [Next]_vars => SInv'
  BY NextSInv
<1>3. SInv => AreasAreConsistent
  BY ShapesAreAccepted
     DEF SInv, Drawn, AreasAreConsistent, SizeIsCellCount, AreaIsRectangle
<1> QED BY <1>1, <1>2, <1>3, PTL DEF Spec
=============================================================================
