----------------------------- MODULE SpaceAreaCells -----------------------------
(* The areas of one venue plan and the grid cells they are made of:               *)
(* SpaceAreasService.create, update and the deletion of a free area.              *)
(*                                                                                *)
(* Statements run as in VenueAllocations.  Two things matter here more than       *)
(* there.  deleteMany fixes the rows it will delete when it starts; if it has to  *)
(* wait for another transaction it does not see the rows that one inserts.  And   *)
(* inserting a cell locks the row of its area against deletion.                   *)
(*                                                                                *)
(* An operator Op_Fault is Op with a plausible fault, used by no specification.   *)
EXTENDS RectangleCells

CONSTANTS
    Areas,        \* SpaceArea ids; an id is used once
    Columns,      \* x coordinates of the grid
    GridRows,     \* y coordinates of the grid
    Handlers,     \* requests that may be in flight together
    Shapes,       \* bound: the sets of cells requests may ask for
    ModeEdits,    \* bound: the display modes an update may set
    LabelEdits,   \* bound: the labels an update may set
    None          \* a field a request does not supply

Modes  == {"ORGANIZATION", "CUSTOM_LABEL", "HIDDEN"}
Labels == {"text", "no label"}
Grid   == Columns \X GridRows

ASSUME GridIsFinite == Columns \subseteq Int /\ GridRows \subseteq Int /\ IsFiniteSet(Grid)
ASSUME ShapesAreCells == Shapes \subseteq (SUBSET Grid) \ {{}}
ASSUME ShapesAreAccepted == Shapes \subseteq Rectangles(Columns, GridRows)
ASSUME EditsAreKnown == ModeEdits \subseteq Modes /\ LabelEdits \subseteq Labels
ASSUME HandlersAreFinite == IsFiniteSet(Handlers)
ASSUME NoneIsNoArea == None \notin Areas \cup Modes \cup Labels

VARIABLES
    fresh,         \* area ids not used yet
    areas,         \* the SpaceArea rows that exist
    squareMeters,  \* area -> its stored size
    mode,          \* area -> publicDisplayMode
    label,         \* area -> customPublicLabel
    cells,         \* the SpaceAreaCell rows, as pairs of area and cell
    req,           \* handler -> the request it is running
    overlapped     \* history: areas an edit of which has waited for another edit of it

vars == <<fresh, areas, squareMeters, mode, label, cells, req, overlapped>>

Steps == {"idle", "create", "update_check", "update_delete", "update_blocked",
          "update_insert", "update_area", "label_write", "remove", "remove_cascade"}

\* "deleted" and "inserted" are the writes of an open transaction; "seen" is what a
\* waiting deleteMany will delete.
Request == [op : Steps, area : Areas \cup {None}, cells : SUBSET Grid,
            mode : Modes \cup {None}, label : Labels \cup {None},
            seen : SUBSET Grid, deleted : SUBSET Grid, inserted : SUBSET Grid]

Idle == [op |-> "idle", area |-> None, cells |-> {}, mode |-> None, label |-> None,
         seen |-> {}, deleted |-> {}, inserted |-> {}]

\* The rows and the requests, without the history.
StateOK ==
    /\ fresh \subseteq Areas /\ areas \subseteq Areas
    /\ squareMeters \in [Areas -> Nat]
    /\ mode \in [Areas -> Modes]
    /\ label \in [Areas -> Labels]
    /\ cells \subseteq Areas \X Grid
    /\ req \in [Handlers -> Request]
    /\ \A h \in Handlers : req[h].op # "idle" /\ req[h].op # "create" =>
                               req[h].area \in Areas

TypeOK == StateOK /\ overlapped \subseteq Areas

Init ==
    /\ fresh = Areas /\ areas = {} /\ cells = {}
    /\ squareMeters = [a \in Areas |-> 0]
    /\ mode = [a \in Areas |-> "ORGANIZATION"]
    /\ label = [a \in Areas |-> "no label"]
    /\ req = [h \in Handlers |-> Idle]
    /\ overlapped = {}

-----------------------------------------------------------------------------
CellsOf(a) == {c \in Grid : <<a, c>> \in cells}

\* assertCellsDoNotOverlap; "self" is None when an area is created.
Overlap(S, self) == \E a \in Areas \ {self}, c \in S : <<a, c>> \in cells

Others(h) == Handlers \ {h}

\* Rows of area a that another open transaction has deleted.
LockedCells(h, a) == UNION {req[g].deleted : g \in {g \in Others(h) : req[g].area = a}}

\* Cells whose unique index entry another open transaction has written or removed.
PendingCells(h) == UNION {req[g].deleted \cup req[g].inserted : g \in Others(h)}

\* Another transaction has deleted the row of the area, or holds it against deletion.
AreaDeleting(h, a) == \E g \in Others(h) : req[g].op = "remove_cascade" /\ req[g].area = a
AreaHeld(h, a)     == \E g \in Others(h) : req[g].op = "update_area" /\ req[g].area = a

Respond(h)   == req' = [req EXCEPT ![h] = Idle]
Accept(h, r) == req[h].op = "idle" /\ req' = [req EXCEPT ![h] = r]
TablesUnchanged == UNCHANGED <<fresh, areas, squareMeters, mode, label, cells>>

-----------------------------------------------------------------------------
\* create: validate the rectangle, look for overlapping cells, then insert the area
\* and its cells in one transaction.

CreateCheck(h) ==
    \E S \in Shapes :
        /\ ~Overlap(S, None)
        /\ Accept(h, [Idle EXCEPT !.op = "create", !.cells = S])
        /\ TablesUnchanged

\* SpaceAreaCell_venuePlanId_x_y_key, apart from the rows the transaction deleted.
UniqueViolation_NoIndex(S, mine) == FALSE
UniqueViolation(S, mine) ==
    \E c \in S, a \in Areas : <<a, c>> \in cells /\ <<a, c>> \notin mine

\* The insert waits for the transactions that hold one of its cells.
CreateCommit(h) ==
    LET S == req[h].cells
    IN  /\ req[h].op = "create"
        /\ S \cap PendingCells(h) = {}
        /\ \/ /\ UniqueViolation(S, {}) \/ fresh = {}       \* bound: ids used up
              /\ TablesUnchanged
           \/ /\ ~UniqueViolation(S, {})
              /\ \E a \in fresh :
                    /\ fresh' = fresh \ {a}
                    /\ areas' = areas \cup {a}
                    /\ squareMeters' = [squareMeters EXCEPT ![a] = Cardinality(S)]
                    /\ cells' = cells \cup ({a} \X S)
              /\ UNCHANGED <<mode, label>>
        /\ Respond(h)

-----------------------------------------------------------------------------
\* update: check the display mode against the label, and the new cells, then write.

\* publicDisplayMode CUSTOM_LABEL needs a label, after the update.
LabelMissing(m, l) == m = "CUSTOM_LABEL" /\ l = "no label"

Supplied(new, old) == IF new = None THEN old ELSE new

\* The cells a request asks for have passed assertCellsFormFilledRectangle: Shapes
\* are some of the sets it accepts.  {} stands for an update without cells.
UpdateRead(h) ==
    \E a \in areas, S \in Shapes \cup {{}},
       m \in ModeEdits \cup {None}, l \in LabelEdits \cup {None} :
        /\ ~LabelMissing(Supplied(m, mode[a]), Supplied(l, label[a]))
        /\ Accept(h, [Idle EXCEPT !.op = IF S = {} THEN "label_write" ELSE "update_check",
                                  !.area = a, !.cells = S, !.mode = m, !.label = l])
        /\ TablesUnchanged

UpdateCheckOverlap(h) ==
    /\ req[h].op = "update_check"
    /\ IF Overlap(req[h].cells, req[h].area)
       THEN Respond(h)
       ELSE req' = [req EXCEPT ![h].op = "update_delete"]
    /\ TablesUnchanged

\* The fields of the area row, as the request leaves them.
WriteLabels(h, a) ==
    /\ mode' = [mode EXCEPT ![a] = Supplied(req[h].mode, @)]
    /\ label' = [label EXCEPT ![a] = Supplied(req[h].label, @)]

\* An update without cells writes the row by itself.
LabelWrite(h) ==
    LET a == req[h].area
    IN  /\ req[h].op = "label_write"
        /\ ~AreaDeleting(h, a)
        /\ IF a \in areas THEN WriteLabels(h, a) ELSE UNCHANGED <<mode, label>>
        /\ Respond(h)
        /\ UNCHANGED <<fresh, areas, squareMeters, cells>>

\* deleteMany: the rows it sees now are the rows it will delete.
UpdateDelete(h) ==
    LET a == req[h].area
        S == CellsOf(a)
    IN  /\ req[h].op = "update_delete"
        /\ req' = IF S \cap LockedCells(h, a) = {}
                  THEN [req EXCEPT ![h].op = "update_insert", ![h].deleted = S]
                  ELSE [req EXCEPT ![h].op = "update_blocked", ![h].seen = S]
        /\ TablesUnchanged

UpdateUnblock(h) ==
    /\ req[h].op = "update_blocked"
    /\ req[h].seen \cap LockedCells(h, req[h].area) = {}
    /\ req' = [req EXCEPT ![h].op = "update_insert",
                          ![h].deleted = req[h].seen, ![h].seen = {}]
    /\ TablesUnchanged

\* createMany: waits for cells and for an area row other transactions hold, and
\* fails on a cell that is taken or an area that is gone.
UpdateInsert(h) ==
    LET a == req[h].area
        S == req[h].cells
    IN  /\ req[h].op = "update_insert"
        /\ S \cap PendingCells(h) = {}
        /\ ~AreaDeleting(h, a)
        /\ IF a \notin areas \/ UniqueViolation(S, {a} \X req[h].deleted)
           THEN Respond(h)
           ELSE req' = [req EXCEPT ![h].op = "update_area", ![h].inserted = S]
        /\ TablesUnchanged

\* Rows this transaction deletes are no longer there for a deleteMany that waits.
Forget(h, a, S) ==
    req' = [g \in Handlers |->
               IF g = h THEN Idle
               ELSE IF req[g].area = a THEN [req[g] EXCEPT !.seen = @ \ S]
               ELSE req[g]]

\* The update of the area row, then commit.
SquareMetersAfter_NotUpdated(a, S) == squareMeters[a]
SquareMetersAfter(a, S) == Cardinality(S)

\* The cell rows once the transaction that replaces "old" by "new" is committed.
CellsAfter(a, old, new) == (cells \ ({a} \X old)) \cup ({a} \X new)

UpdateCommit(h) ==
    LET a == req[h].area
        S == req[h].inserted
    IN  /\ req[h].op = "update_area"
        /\ cells' = CellsAfter(a, req[h].deleted, S)
        /\ squareMeters' = [squareMeters EXCEPT ![a] = SquareMetersAfter(a, S)]
        /\ WriteLabels(h, a)
        /\ Forget(h, a, req[h].deleted)
        /\ UNCHANGED <<fresh, areas>>

-----------------------------------------------------------------------------
\* remove, for an area without allocations (VenueAllocations has the others): the
\* delete takes the area row, then cascades to every cell the area has by then.

RemoveRead(h) ==
    \E a \in areas :
        /\ Accept(h, [Idle EXCEPT !.op = "remove", !.area = a])
        /\ TablesUnchanged

RemoveArea(h) ==
    LET a == req[h].area
    IN  /\ req[h].op = "remove"
        /\ ~AreaDeleting(h, a) /\ ~AreaHeld(h, a)
        /\ IF a \in areas THEN req' = [req EXCEPT ![h].op = "remove_cascade"]
                          ELSE Respond(h)
        /\ TablesUnchanged

Cascade(a) == CellsOf(a)

RemoveCommit(h) ==
    LET a == req[h].area
    IN  /\ req[h].op = "remove_cascade"
        /\ CellsOf(a) \cap LockedCells(h, a) = {}
        /\ areas' = areas \ {a}
        /\ cells' = cells \ ({a} \X Cascade(a))
        /\ Forget(h, a, CellsOf(a))
        /\ UNCHANGED <<fresh, squareMeters, mode, label>>

-----------------------------------------------------------------------------
DatabaseError(h) ==
    /\ req[h].op # "idle"
    /\ Respond(h)
    /\ TablesUnchanged

\* The statement of h waits for a lock or an index entry of the transaction of g.
WaitsForCells(h, g) ==
    /\ req[h].op \in {"create", "update_insert"}
    /\ req[h].cells \cap (req[g].deleted \cup req[g].inserted) # {}

WaitsForArea(h, g) ==
    /\ req[h].area = req[g].area
    /\ \/ /\ req[h].op \in {"label_write", "update_insert", "remove"}
          /\ req[g].op = "remove_cascade"
       \/ req[h].op = "remove" /\ req[g].op = "update_area"

WaitsForDeleted(h, g) ==
    /\ req[h].area = req[g].area
    /\ \/ req[h].op = "update_blocked" /\ req[h].seen \cap req[g].deleted # {}
       \/ req[h].op = "remove_cascade" /\ CellsOf(req[h].area) \cap req[g].deleted # {}

WaitsFor(h, g) ==
    g \in Others(h) /\ (WaitsForCells(h, g) \/ WaitsForArea(h, g) \/ WaitsForDeleted(h, g))

\* h waits in a circle: whatever set holds all that h waits for, and all that those in
\* the set wait for, holds h itself.  Two updates whose cells change places are a circle,
\* and so are an update and the removal of its area.
Deadlocked_NoDetector(h) == FALSE
Deadlocked(h) ==
    \A C \in SUBSET Handlers :
        (\A k \in C \cup {h} : {g \in Handlers : WaitsFor(k, g)} \subseteq C) => h \in C

\* PostgreSQL aborts a transaction of every circle.
DeadlockVictim(h) ==
    /\ Deadlocked(h)
    /\ Respond(h)
    /\ TablesUnchanged

Arrive(h)  == CreateCheck(h) \/ UpdateRead(h) \/ RemoveRead(h)
Advance(h) == \/ CreateCommit(h)
              \/ UpdateCheckOverlap(h) \/ LabelWrite(h) \/ UpdateDelete(h)
              \/ UpdateUnblock(h) \/ UpdateInsert(h) \/ UpdateCommit(h)
              \/ RemoveArea(h) \/ RemoveCommit(h)

\* The history: deleteMany of an edit waits for the rows another edit has deleted.  No
\* action reads it.
Waiting == {a \in Areas : \E h \in Handlers :
                req[h].op = "update_blocked" /\ req[h].area = a}
Observe == overlapped' = overlapped \cup Waiting'

Next == \E h \in Handlers :
            /\ Arrive(h) \/ Advance(h) \/ DeadlockVictim(h) \/ DatabaseError(h)
            /\ Observe

Spec == Init /\ [][Next]_vars

\* As in VenueAllocations: lock waits are queued and deadlocks are broken.
Fairness == \A h \in Handlers : /\ SF_vars(Advance(h) /\ Observe)
                                /\ WF_vars(DeadlockVictim(h) /\ Observe)

LiveSpec == Spec /\ Fairness

-----------------------------------------------------------------------------
\* "Active areas cannot overlap": a cell of the plan belongs to one area, however
\* creations, edits and removals interleave.
NoOverlap == \A r, s \in cells : r[2] = s[2] => r = s

\* A cell row belongs to an area that exists: removing an area takes all its cells,
\* those a concurrent edit has just given it included.
CellsHaveAnArea == \A r \in cells : r[1] \in areas

\* An area never loses all its cells, not even halfway through an edit.
NoEmptyArea == \A a \in areas : CellsOf(a) # {}

\* The cell table is a map of the plan: no cell belongs to two areas or to none, and every
\* area has its place, while creations, edits and removals interleave.
CellsMatchAreas == NoOverlap /\ CellsHaveAnArea /\ NoEmptyArea

\* "Area square meters equal the selected 1 m x 1 m cell count."
SizeIsCellCount(a) == squareMeters[a] = Cardinality(CellsOf(a))

\* An area is one of the filled rectangles that validation accepts.
AreaIsRectangle(a) == CellsOf(a) \in Rectangles(Columns, GridRows)

\* A list that names each cell of a filled rectangle once.
NamesRectangle(list, n) ==
    Cardinality(CellSet(list)) = n /\ CellSet(list) \in Rectangles(Columns, GridRows)

AcceptsEveryRectangle ==
    \A n \in 0..(Cardinality(Grid) + 1) : \A list \in [1..n -> Grid] :
        NamesRectangle(list, n) => CellsFormFilledRectangle(list)

AcceptsNothingElse ==
    \A n \in 0..(Cardinality(Grid) + 1) : \A list \in [1..n -> Grid] :
        CellsFormFilledRectangle(list) => NamesRectangle(list, n)

RequestsHoldRectangles ==
    \A h \in Handlers : req[h].cells # {} => req[h].cells \in Rectangles(Columns, GridRows)

\* assertCellsFormFilledRectangle accepts the lists that name each cell of a filled
\* rectangle once, in any order, and no other: comparing the product of the sides with
\* the number of cells loses no rectangle, and admits no list with gaps or repeated cells.
\* What a request goes on with is such a rectangle until its last statement.
AcceptsExactlyFilledRectangles ==
    AcceptsEveryRectangle /\ AcceptsNothingElse /\ RequestsHoldRectangles

\* Whatever runs beside its creation, its edits and its removal, an area is one filled
\* rectangle and its size is the size of it.  The exception is an area two edits of which
\* met: the second deletes the cells it saw, not those the first one has put there.
AreasAreConsistent ==
    \A a \in areas \ overlapped : SizeIsCellCount(a) /\ AreaIsRectangle(a)

\* Every request is answered, whoever it waits for.
EveryRequestIsAnswered ==
    \A h \in Handlers : req[h].op # "idle" ~> req[h].op = "idle"
=============================================================================
