--------------------------------- MODULE MapEditor ---------------------------------
(* The venue map page: the hall is drawn in a frame that reports its booths and where    *)
(* they are dragged; the page keeps one space area of the plan per booth, by requests    *)
(* that are sent one after another and interleave with those of other tasks.            *)
EXTENDS Naturals, Sequences, FiniteSets

CONSTANTS
    NumBooths,        \* booths of the floor plan, in the order of the catalog
    NumSpots,         \* places in the hall; a booth or an area takes one
    MaxAreas,         \* bound: areas of the plan
    MaxMapActions,    \* bound: what the user does in one behaviour
    NoArea            \* no area, nothing selected, no plan loaded

Booths == 1..NumBooths
Spots  == 1..NumSpots
ParkedRow == 100000                               \* PARKED_CELL_ROW, off the hall
Parks  == {ParkedRow + i : i \in 0..(NumBooths - 1)}
Foreign == 0                                      \* the code of an area without a booth
AreaIds == 1..MaxAreas

Areas   == [code : Booths \cup {Foreign}, spot : Spots \cup Parks]
Layouts == [AreaIds -> Areas \cup {NoArea}]

ASSUME HallIsSized ==
    NumBooths \in Nat /\ NumSpots \in Nat /\ NumBooths <= NumSpots /\ NumSpots < ParkedRow
ASSUME MapBoundsAreNat == MaxAreas \in Nat /\ MaxMapActions \in Nat
ASSUME NoAreaIsNone ==
    NoArea \notin Booths \cup Spots \cup AreaIds \cup Areas \cup Layouts \cup [Booths -> Spots]

VARIABLES
    visiting,    \* the page is open
    places,      \* the areas as the API has them
    plan,        \* as the page last loaded them, NoArea before
    reading,     \* a load of the plan: "none", "sent", "read" with what it read
    mapBooths,   \* where the booths stand, NoArea before the catalog has arrived
    dirty,       \* booths dragged since the layout was saved
    imported,    \* importedPlanIdRef
    due,         \* the plan or the booths have changed since the import was last considered
    persisting,  \* persistingBoothIdRef
    tasks,       \* sequences of requests under way
    selection,   \* the selected booth and area
    gestures,    \* how often the user has acted
    outcome,     \* history: "done" when the import that ended last knew the plan, was alone,
                 \* lost no request and was not broken off
    saved        \* history: where a drag, or the layout, was last saved
mapVars == <<visiting, places, plan, reading, mapBooths, dirty, imported, due, persisting, tasks,
             selection, gestures, outcome, saved>>

Writes == [area : AreaIds \cup {0}, code : Booths, spot : Spots \cup Parks, fatal : BOOLEAN]
Tasks  == [of : {"import", "pick", "move", "layout"}, booth : Booths \cup {0}, todo : Seq(Writes),
           area : AreaIds \cup {NoArea}, wrote : BOOLEAN, failed : BOOLEAN, brokenOff : BOOLEAN, cancelled : BOOLEAN,
           alone : BOOLEAN, at : [Booths -> Spots \cup {NoArea}]]

MapTypeOK ==
    /\ {visiting, imported, due} \subseteq BOOLEAN /\ places \in Layouts /\ plan \in Layouts \cup {NoArea}
    /\ reading \in [step : {"none", "sent", "read"}, layout : Layouts \cup {NoArea}]
    /\ reading.step = "read" => reading.layout # NoArea
    /\ mapBooths \in [Booths -> Spots] \cup {NoArea} /\ dirty \subseteq Booths
    /\ tasks \subseteq Tasks /\ gestures \in 0..MaxMapActions /\ persisting \in Booths \cup {NoArea}
    /\ outcome \in {"none", "done"} /\ saved \in [Booths -> Spots \cup {NoArea}]
    /\ selection \in [booth : Booths \cup {NoArea}, area : AreaIds \cup {NoArea}]

Existing(l) == {i \in AreaIds : l[i] # NoArea}
SpotsOf(l)  == {l[i].spot : i \in Existing(l)}
Distinct(l) == \A i, j \in Existing(l) : i # j => l[i].spot # l[j].spot
NotReading  == [step |-> "none", layout |-> NoArea]
NoSelection == [booth |-> NoArea, area |-> NoArea]
Nowhere     == [b \in Booths |-> NoArea]

\* The plan has an area per booth, not all of them where the floor plan has them, and may
\* have one of another shape.
MapInit ==
    /\ visiting = TRUE
    /\ places \in {l \in [AreaIds -> {NoArea} \cup [code : Booths \cup {Foreign}, spot : Spots]] :
                       /\ Distinct(l) /\ \A i \in AreaIds : i > NumBooths + 1 => l[i] = NoArea
                       /\ \A i \in Existing(l) : l[i].code = IF i > NumBooths THEN Foreign ELSE i}
    /\ plan = NoArea /\ reading = [step |-> "sent", layout |-> NoArea] /\ mapBooths = NoArea
    /\ dirty = {} /\ imported = FALSE /\ tasks = {} /\ selection = NoSelection
    /\ gestures = 0 /\ outcome = "none" /\ saved = Nowhere /\ due = FALSE /\ persisting = NoArea

-----------------------------------------------------------------------------
RefreshPlan == reading' = [step |-> "sent", layout |-> NoArea]

\* An effect of the page runs before the user can act again.
Gesture ==
    /\ gestures < MaxMapActions /\ gestures' = gestures + 1
    /\ visiting /\ ~due /\ plan # NoArea /\ mapBooths # NoArea

\* Of several areas with one code the first is found.
FindBoothArea(b, l) ==
    LET found == {i \in Existing(l) : l[i].code = b}
    IN  IF found = {} THEN 0 ELSE CHOOSE i \in found : \A j \in found : i <= j

AnswerPlan ==
    /\ reading.step = "sent" /\ reading' = [step |-> "read", layout |-> places]
    /\ UNCHANGED <<visiting, places, plan, mapBooths, dirty, imported, due, persisting, tasks, selection,
                   gestures, outcome, saved>>

\* A change of the plan or of the booths makes the import due and disowns the running one.
Cancelled(ts) == {IF t.of = "import" THEN [t EXCEPT !.cancelled = TRUE] ELSE t : t \in ts}
Considered == due' = TRUE /\ tasks' = Cancelled(tasks)

\* An area that is no longer in the plan is no longer selected.
ReceivePlan ==
    /\ reading.step = "read" /\ plan' = reading.layout /\ reading' = NotReading /\ Considered
    /\ selection' = IF selection.area # NoArea /\ reading.layout[selection.area] # NoArea
                    THEN selection ELSE [selection EXCEPT !.area = NoArea]
    /\ UNCHANGED <<visiting, places, mapBooths, dirty, imported, persisting, gestures, outcome, saved>>

\* A load that fails takes the plan off the page.
FailPlan ==
    /\ reading # NotReading /\ plan' = NoArea /\ reading' = NotReading /\ Considered
    /\ UNCHANGED <<visiting, places, mapBooths, dirty, imported, persisting, selection, gestures, outcome, saved>>

\* The frame sends its catalog when it is ready, and again with every selection and every
\* plan it is given.  It has the booths where the drawing of the hall has them, until they
\* are dragged: it does not put them where their areas are.
Drawn == [b \in Booths |-> b]

OnCatalog ==
    /\ plan # NoArea /\ mapBooths' = IF mapBooths = NoArea THEN Drawn ELSE mapBooths
    /\ Considered
    /\ UNCHANGED <<visiting, places, plan, reading, dirty, imported, persisting, selection, gestures, outcome, saved>>

-----------------------------------------------------------------------------
\* Tasks.

Task(of, b, todo) == [of |-> of, booth |-> b, todo |-> todo, area |-> NoArea, wrote |-> FALSE,
                      failed |-> FALSE, brokenOff |-> FALSE, cancelled |-> FALSE, alone |-> TRUE, at |-> Nowhere]
Beside(ts, t) == {[u EXCEPT !.alone = FALSE] : u \in ts} \cup {[t EXCEPT !.alone = ts = {} /\ plan = places]}
Start(t) == tasks' = Beside(tasks, t)

\* persistMapBooth and persistMapBoothMove: the area of the booth is moved, or created.
Persist(b, s, l) == [area |-> FindBoothArea(b, l), code |-> b, spot |-> s, fatal |-> TRUE]

\* persistMissingMapBooths.  A booth on the spot of an area without a booth, or of an
\* earlier booth, is left out; booths that have to move are first parked off the hall, in
\* case they move to one another's spots; a parking request that fails ends the import.
Fits(b) ==
    /\ \A i \in Existing(plan) : plan[i].code = Foreign => plan[i].spot # mapBooths[b]
    /\ \A c \in Booths : c < b => mapBooths[c] # mapBooths[b]
Moving(b)   == Fits(b) /\ FindBoothArea(b, plan) # 0 /\ plan[FindBoothArea(b, plan)].spot # mapBooths[b]
Creating(b) == Fits(b) /\ FindBoothArea(b, plan) = 0
InOrder(S)  == [i \in 1..Cardinality(S) |-> CHOOSE b \in S : Cardinality({c \in S : c <= b}) = i]
BoothMoves   == InOrder({b \in Booths : Moving(b)})
BoothCreates == InOrder({b \in Booths : Creating(b)})

Parking_None == <<>>
Parking ==
    [i \in 1..Len(BoothMoves) |-> [area |-> FindBoothArea(BoothMoves[i], plan), code |-> BoothMoves[i],
                              spot |-> ParkedRow + i - 1, fatal |-> TRUE]]

ImportWrites ==
    LET Place(s) == [i \in 1..Len(s) |-> [Persist(s[i], mapBooths[s[i]], plan) EXCEPT !.fatal = FALSE]]
    IN  Parking \o Place(BoothMoves) \o Place(BoothCreates)

PersistMissingMapBooths ==
    /\ due /\ due' = FALSE
    /\ IF plan # NoArea /\ mapBooths # NoArea /\ ~imported
       THEN imported' = TRUE /\ Start(Task("import", 0, ImportWrites)) /\ outcome' = "none"
       ELSE UNCHANGED <<imported, tasks, outcome>>
    /\ UNCHANGED <<visiting, places, plan, reading, mapBooths, dirty, persisting, selection, gestures, saved>>

\* A click on an area, or beside every area.
HandleSelectArea(i) ==
    /\ Gesture /\ selection' = [booth |-> NoArea, area |-> i]
    /\ UNCHANGED <<visiting, places, plan, reading, mapBooths, dirty, imported, due, persisting, tasks, outcome, saved>>

\* A click on a booth, in the hall or in the list; one without an area gets one, once as
\* long as no other booth gets one at the same time.
HandleSelectBooth(b) ==
    /\ Gesture
    /\ LET i == FindBoothArea(b, plan)
       IN  /\ selection' = [booth |-> b, area |-> IF i = 0 THEN NoArea ELSE i]
           /\ IF i = 0 /\ persisting # b
              THEN /\ persisting' = b /\ outcome' = "none"
                   /\ Start(Task("pick", b, <<Persist(b, mapBooths[b], plan)>>))
              ELSE UNCHANGED <<persisting, tasks, outcome>>
    /\ UNCHANGED <<visiting, places, plan, reading, mapBooths, dirty, imported, due, saved>>

\* A booth is dragged to another spot of the hall.
HandleBoothMoved(b, s) ==
    /\ Gesture /\ mapBooths[b] # s
    /\ mapBooths' = [mapBooths EXCEPT ![b] = s] /\ dirty' = dirty \cup {b} /\ due' = TRUE
    /\ LET i == FindBoothArea(b, plan)
       IN  selection' = [booth |-> b, area |-> IF i = 0 THEN selection.area ELSE i]
    /\ tasks' = Beside(Cancelled(tasks), [Task("move", b, <<Persist(b, s, plan)>>) EXCEPT !.at[b] = s])
    /\ outcome' = "none" /\ saved' = [saved EXCEPT ![b] = NoArea]
    /\ UNCHANGED <<visiting, places, plan, reading, imported, persisting>>

\* The booths that are dirty, or the selected one, are saved once more.
DirtyBooths == IF dirty # {} THEN dirty ELSE {selection.booth} \ {NoArea}

HandleSaveLayout ==
    /\ Gesture /\ DirtyBooths # {} /\ \A t \in tasks : t.of # "layout"
    /\ LET order == InOrder(DirtyBooths)
       IN  Start([Task("layout", 0, [i \in 1..Len(order) |-> Persist(order[i], mapBooths[order[i]], plan)])
                     EXCEPT !.at = [b \in Booths |-> IF b \in DirtyBooths THEN mapBooths[b] ELSE NoArea]])
    /\ outcome' = "none"
    /\ UNCHANGED <<visiting, places, plan, reading, mapBooths, dirty, imported, due, persisting, selection, saved>>

-----------------------------------------------------------------------------
\* The API takes a request if the spot is free; areas are not removed.  Beyond MaxAreas a
\* request to create one is lost.
FreeFor(i, s) == \A j \in Existing(places) : j = i \/ places[j].spot # s
FreshIds == AreaIds \ Existing(places)

Step(t, u) == tasks' = (tasks \ {t}) \cup {u}
Done(t) == t.todo = <<>>

Written(w, i) ==
    /\ IF w.area = 0 THEN i \in FreshIds /\ \A j \in FreshIds : i <= j ELSE i = w.area /\ i \in Existing(places)
    /\ FreeFor(i, w.spot)
    /\ places' = [places EXCEPT ![i] = [code |-> w.code, spot |-> w.spot]]

\* A request fails because the API refuses it, or because it or its answer is lost: the
\* task goes on with the next one, or ends.
Failed(t) == [t EXCEPT !.todo = IF Head(@).fatal THEN <<>> ELSE Tail(@), !.failed = TRUE, !.brokenOff = Head(t.todo).fatal]

TaskStep(t) ==
    /\ ~Done(t)
    /\ LET w == Head(t.todo)
       IN  \/ \E i \in AreaIds :
                  Written(w, i) /\ Step(t, [t EXCEPT !.todo = Tail(@), !.area = i, !.wrote = @ \/ ~(t.of = "import" /\ w.fatal)])
           \/ ~FreeFor(w.area, w.spot) /\ Step(t, Failed(t)) /\ UNCHANGED places
           \/ /\ Step(t, [Failed(t) EXCEPT !.alone = FALSE])
              /\ UNCHANGED places \/ \E i \in AreaIds : Written(w, i)
    /\ UNCHANGED <<visiting, plan, reading, mapBooths, dirty, imported, due, persisting, selection, gestures, outcome, saved>>

\* The page goes on after the last request of a task.
Ends(t, rest) == Done(t) /\ tasks' = rest /\ UNCHANGED <<visiting, places, plan, mapBooths, gestures>>

\* An import that was broken off in its parking may be started again; one that the page
\* has disowned, or that changed nothing, does not refresh the plan.
EndImport(t) ==
    /\ t.of = "import" /\ Ends(t, tasks \ {t})
    /\ imported' = (imported /\ ~t.brokenOff)
    /\ IF t.wrote /\ ~t.cancelled THEN RefreshPlan ELSE UNCHANGED reading
    /\ outcome' = IF t.alone /\ ~t.brokenOff THEN "done" ELSE outcome
    /\ UNCHANGED <<dirty, due, persisting, selection, saved>>

EndPick(t) ==
    /\ t.of = "pick" /\ Ends(t, tasks \ {t})
    /\ selection' = [selection EXCEPT !.area = t.area]
    /\ persisting' = IF persisting = t.booth THEN NoArea ELSE persisting
    /\ IF t.failed THEN UNCHANGED reading ELSE RefreshPlan
    /\ UNCHANGED <<dirty, imported, due, outcome, saved>>

\* What a task that was alone has saved.
SavedBy(t) == [b \in Booths |-> IF t.alone /\ ~t.failed /\ t.at[b] = mapBooths[b] THEN t.at[b] ELSE saved[b]]

\* A drag does not refresh the plan.
EndMove(t) ==
    /\ t.of = "move" /\ Ends(t, tasks \ {t}) /\ saved' = SavedBy(t)
    /\ selection' = IF t.failed THEN selection ELSE [selection EXCEPT !.area = t.area]
    /\ UNCHANGED <<reading, dirty, imported, due, persisting, outcome>>

\* Also what was dragged in the meantime is no longer dirty.
EndLayout(t) ==
    /\ t.of = "layout" /\ Ends(t, IF t.failed THEN tasks \ {t} ELSE Cancelled(tasks \ {t}))
    /\ IF t.failed THEN UNCHANGED <<dirty, due, reading>> ELSE dirty' = {} /\ due' = TRUE /\ RefreshPlan
    /\ saved' = SavedBy(t)
    /\ UNCHANGED <<imported, persisting, selection, outcome>>

\* The tab is closed: what has not been sent is never sent.  The next visit reads the plan
\* again and imports again.
LeaveMap ==
    /\ Gesture /\ visiting' = FALSE /\ tasks' = {} /\ plan' = NoArea /\ mapBooths' = NoArea
    /\ reading' = NotReading /\ dirty' = {} /\ imported' = FALSE /\ due' = FALSE /\ persisting' = NoArea
    /\ selection' = NoSelection /\ outcome' = "none"
    /\ UNCHANGED <<places, saved>>

Revisit ==
    /\ ~visiting /\ visiting' = TRUE /\ RefreshPlan
    /\ UNCHANGED <<places, plan, mapBooths, dirty, imported, due, persisting, tasks, selection, gestures, outcome, saved>>

MapNext ==
    \/ AnswerPlan \/ ReceivePlan \/ FailPlan \/ OnCatalog \/ PersistMissingMapBooths
    \/ HandleSaveLayout \/ LeaveMap \/ Revisit
    \/ \E b \in Booths : HandleSelectBooth(b) \/ \E s \in Spots : HandleBoothMoved(b, s)
    \/ \E i \in AreaIds \cup {NoArea} : (i # NoArea => plan # NoArea /\ plan[i] # NoArea) /\ HandleSelectArea(i)
    \/ \E t \in tasks : TaskStep(t) \/ EndImport(t) \/ EndPick(t) \/ EndMove(t) \/ EndLayout(t)

MapSpec == MapInit /\ [][MapNext]_mapVars

-----------------------------------------------------------------------------
\* Properties.

\* An import that ran to its end, knew the plan, was alone and lost no request has brought
\* every booth that fits to its spot, also when booths change places and when an earlier
\* import was cut short by closing the tab; except where the area of a booth that does not
\* fit stands, or a second area of a booth.
Stays(i, l) == l[i].code \in Booths /\ (~Fits(l[i].code) \/ i # FindBoothArea(l[i].code, l))
Blocked(b)  == \E i \in Existing(places) : places[i].spot = mapBooths[b] /\ Stays(i, places)

ImportPlacesBooths ==
    outcome = "done" /\ plan # NoArea /\ reading = NotReading =>
        \A b \in Booths : Fits(b) /\ ~Blocked(b) =>
            [code |-> b, spot |-> mapBooths[b]] \in {places[i] : i \in AreaIds}

\* Where a booth was dragged, or saved with the layout, with no other request under way,
\* there its area stays until the booth is dragged again, also over an import that runs to
\* its end without losing a request.
SavedPositionIsKept ==
    outcome = "done" => \A b \in Booths :
        saved[b] # NoArea => [code |-> b, spot |-> saved[b]] \in {places[i] : i \in AreaIds}
=============================================================================
