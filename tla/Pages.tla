---------------------------------- MODULE Pages -----------------------------------
(* The list pages of the web application: a page shows what it last loaded, keeps a *)
(* copy of it in a cache that outlives the page, and changes rows through requests   *)
(* whose answers arrive in any order, also after the filters have changed or the     *)
(* page is gone.                                                                     *)
EXTENDS Naturals

CONSTANTS
    Ids,              \* rows of the table a page lists
    EventCycles,      \* values of the cycle switcher
    MaxPageActions,   \* bound: what the user does in one behaviour
    None              \* no row, nothing cached, or no key

Stages  == {"open", "final"}
Filters == {"all", "mine"}              \* search text, staff, type: a predicate on rows

RowValues == [cycle : EventCycles, mine : BOOLEAN, stage : Stages]
Rows      == [Ids -> RowValues \cup {None}]
Views     == [cycle : EventCycles, filter : Filters]
AnyView   == None                       \* the cache key of a page that has only one
Contents  == [status : {"loading", "error", "ready"}, rows : Rows]

ASSUME NoneIsNoListRow == None \notin RowValues
ASSUME PageBoundIsNat == MaxPageActions \in Nat

-----------------------------------------------------------------------------
\* The pages.  keyed: the cache key names the cycle and the filters.  perCycle: the list
\* is that of a cycle.  asked: the filters are part of the request, else of the
\* rendering.  changed, created, removed: what the page does with the answer.

BuilderSales == [keyed |-> TRUE, perCycle |-> TRUE, asked |-> TRUE, changed |-> "optimistic",
                 created |-> "insertAndReload", removed |-> "drop"]
Partners     == [keyed |-> TRUE, perCycle |-> TRUE, asked |-> TRUE, changed |-> "optimistic",
                 created |-> "insertAndReload", removed |-> "drop"]
CyclesList   == [keyed |-> FALSE, perCycle |-> FALSE, asked |-> FALSE, changed |-> "refetch",
                 created |-> "insert", removed |-> "drop"]
Organizations == [keyed |-> FALSE, perCycle |-> FALSE, asked |-> TRUE, changed |-> "reload",
                  created |-> "reload", removed |-> "reload"]
ContactsList == [keyed |-> FALSE, perCycle |-> FALSE, asked |-> TRUE, changed |-> "reload",
                 created |-> "never", removed |-> "reload"]
StaffAccounts == [keyed |-> FALSE, perCycle |-> FALSE, asked |-> FALSE, changed |-> "replace",
                  created |-> "insert", removed |-> "never"]
AllPages == {BuilderSales, Partners, CyclesList, Organizations, ContactsList, StaffAccounts}

VARIABLES
    page,        \* the page that is visited, chosen at the start
    mounted,     \* it is on the screen
    view,        \* the cycle and the filters its list was last asked for
    typed,       \* the filter as typed, before SEARCH_DEBOUNCE_MS have passed
    shown,       \* its load state
    cache,       \* lib/client-cache.ts
    server,      \* the rows the API has
    loads,       \* list requests whose answer the page will use
    moves,       \* requests that change a row
    actions,     \* how often the user has acted
    disturbed    \* history: requests have overlapped, or an answer was lost, since the last
                 \* load that had the page for itself
pageVars == <<page, mounted, view, typed, shown, cache, server, loads, moves, actions, disturbed>>

NoRows  == [i \in Ids |-> None]
Loading == [status |-> "loading", rows |-> NoRows]

Keys  == Views \cup {AnyView}
Loads == [by : {"effect", "handler"}, view : Views, phase : {"sent", "ready", "error"}, rows : Rows]
Moves == [of : {"change", "create", "remove"}, id : Ids, key : Keys, previous : RowValues \cup {None},
          to : Stages, cycle : EventCycles, phase : {"sent", "done", "failed"}, row : RowValues \cup {None}]

PageTypeOK ==
    /\ page \in AllPages /\ mounted \in BOOLEAN /\ view \in Views /\ typed \in Filters
    /\ shown \in Contents /\ cache \in [Keys -> Contents \cup {None}] /\ server \in Rows
    /\ loads \subseteq Loads /\ moves \subseteq Moves
    /\ actions \in 0..MaxPageActions /\ disturbed \in BOOLEAN

\* The first visit, in a new tab, with the load its effect starts.
PageInit ==
    /\ page \in AllPages /\ mounted = TRUE
    /\ view \in [cycle : EventCycles, filter : {"all"}] /\ typed = "all"
    /\ shown = Loading /\ cache = [k \in Keys |-> None]
    /\ server \in [Ids -> [cycle : EventCycles, mine : BOOLEAN, stage : {"open"}] \cup {None}]
    /\ server # NoRows
    /\ ~page.perCycle => \A i \in Ids : server[i] # None => server[i].cycle = view.cycle
    /\ loads = {[by |-> "effect", view |-> view, phase |-> "sent", rows |-> NoRows]}
    /\ moves = {} /\ actions = 0 /\ disturbed = FALSE

-----------------------------------------------------------------------------
Key(v) == IF page.keyed THEN v ELSE AnyView

\* The rows of the API that a request for view v lists.
Listed(v) ==
    [i \in Ids |-> IF /\ server[i] # None /\ server[i].cycle = v.cycle
                      /\ page.asked /\ v.filter = "mine" => server[i].mine
                   THEN server[i] ELSE None]

\* The setter of useClientCachedState: it changes the current state, and writes the
\* cache under the key it was made for.
Put(content, k) == shown' = content /\ cache' = [cache EXCEPT ![k] = content]
KeepShown == UNCHANGED <<shown, cache>>

\* A list that is not loaded is left alone (the guard on prev.status).
With(i, row) == IF shown.status = "ready" THEN [shown EXCEPT !.rows[i] = row] ELSE shown

\* The clean-up of the load effect: "cancelled" makes the answers of its earlier
\* requests void.  A request a handler waits for is not cancelled.
StillHeard(L) == {l \in L : l.by = "handler"}

Request(by, v) == [by |-> by, view |-> v, phase |-> "sent", rows |-> NoRows]
StartLoad(v)   == loads' = StillHeard(loads) \cup {Request("effect", v)}

\* A load that starts while no change is under way tells what the server has.
Alone == moves = {}

Act == actions < MaxPageActions /\ mounted /\ actions' = actions + 1

-----------------------------------------------------------------------------
\* The user turns to another cycle or filter.  A list that is not in the cache is
\* replaced only by the answer.
TurnTo(v) ==
    /\ view' = v
    /\ IF Key(v) # Key(view) /\ cache[Key(v)] # None
       THEN shown' = cache[Key(v)] ELSE UNCHANGED shown
    /\ IF page.asked THEN StartLoad(v) /\ disturbed' = ~Alone ELSE UNCHANGED <<loads, disturbed>>
    /\ UNCHANGED <<page, mounted, cache, server, moves>>

SwitchCycle ==
    /\ Act /\ page.perCycle
    /\ \E c \in EventCycles \ {view.cycle} : TurnTo([view EXCEPT !.cycle = c])
    /\ UNCHANGED typed

TypeFilter ==
    /\ Act
    /\ \E f \in Filters \ {typed} : typed' = f
    /\ UNCHANGED <<page, mounted, view, shown, cache, server, loads, moves, disturbed>>

Debounced ==
    /\ mounted /\ typed # view.filter
    /\ TurnTo([view EXCEPT !.filter = typed])
    /\ UNCHANGED <<typed, actions>>

Leave ==
    /\ Act /\ mounted' = FALSE /\ loads' = {}
    /\ UNCHANGED <<page, view, typed, shown, cache, server, moves, disturbed>>

\* The last known list of the cache is shown until the answer arrives.
Return ==
    /\ ~mounted /\ mounted' = TRUE
    /\ LET v == [view EXCEPT !.filter = "all"]
       IN  /\ view' = v /\ typed' = "all"
           /\ shown' = IF cache[Key(v)] = None THEN Loading ELSE cache[Key(v)]
           /\ loads' = {Request("effect", v)}
    /\ disturbed' = ~Alone
    /\ UNCHANGED <<page, cache, server, moves, actions>>

-----------------------------------------------------------------------------
\* The API answers a list request, and the page receives the answer.

AnswerLoad(l) ==
    /\ l.phase = "sent"
    /\ \E a \in {[l EXCEPT !.phase = "ready", !.rows = Listed(l.view)], [l EXCEPT !.phase = "error"]} :
           loads' = (loads \ {l}) \cup {a}
    /\ UNCHANGED <<page, mounted, view, typed, shown, cache, server, moves, actions, disturbed>>

ReceiveLoad(l) ==
    /\ l.phase \in {"ready", "error"} /\ mounted
    /\ loads' = loads \ {l}
    /\ IF l.phase = "error" /\ l.by = "handler" THEN KeepShown        \* a message only
       ELSE Put([status |-> l.phase, rows |-> l.rows], Key(l.view))
    /\ disturbed' = (disturbed \/ (l.by = "handler" /\ (l.phase = "error" \/ loads # {l})))
    /\ UNCHANGED <<page, mounted, view, typed, server, moves, actions>>

-----------------------------------------------------------------------------
\* Changing rows.

Send(of, i, to) ==
    moves' = moves \cup
        {[of |-> of, id |-> i, key |-> Key(view), previous |-> shown.rows[i], to |-> to,
          cycle |-> view.cycle, phase |-> "sent", row |-> None]}

\* The rows of the old view stay on the screen, and can be changed, until the new list
\* arrives.
Overlap == disturbed' = (disturbed \/ loads # {} \/ ~Alone)

\* A page that asks for a confirmation waits for the answer before it takes another
\* change; a dragged card can be dragged again.
Busy == page.changed \in {"refetch", "replace"} /\ moves # {}

\* handleDragEnd and handleStageChange, or the confirmed change of the other pages.
ChangeRow(i) ==
    /\ Act /\ ~Busy /\ shown.status = "ready" /\ shown.rows[i] # None
    /\ \E to \in Stages \ {shown.rows[i].stage} :
           /\ Send("change", i, to)
           /\ IF page.changed = "optimistic"
              THEN Put(With(i, [shown.rows[i] EXCEPT !.stage = to]), Key(view)) ELSE KeepShown
    /\ Overlap /\ UNCHANGED <<page, mounted, view, typed, server, loads>>

CreateRow(i) ==
    /\ Act /\ ~Busy /\ page.created # "never" /\ server[i] = None /\ \A m \in moves : m.id # i
    /\ Send("create", i, "open") /\ KeepShown
    /\ Overlap /\ UNCHANGED <<page, mounted, view, typed, server, loads>>

RemoveRow(i) ==
    /\ Act /\ ~Busy /\ page.removed # "never" /\ shown.status = "ready" /\ shown.rows[i] # None
    /\ Send("remove", i, "open") /\ KeepShown
    /\ Overlap /\ UNCHANGED <<page, mounted, view, typed, server, loads>>

\* What the API may do with a request: carry it out, or refuse it.
Effects(m) ==
    CASE m.of = "change" -> IF server[m.id] = None THEN {} ELSE {[server[m.id] EXCEPT !.stage = m.to]}
      [] m.of = "create" -> {[cycle |-> m.cycle, mine |-> b, stage |-> "open"] : b \in BOOLEAN}
      [] m.of = "remove" -> {None}

AnswerMove(m) ==
    /\ m.phase = "sent"
    /\ \/ \E row \in Effects(m) :
             /\ server' = [server EXCEPT ![m.id] = row]
             /\ moves' = (moves \ {m}) \cup {[m EXCEPT !.phase = "done", !.row = row]}
             /\ UNCHANGED disturbed
       \/ /\ moves' = (moves \ {m}) \cup {[m EXCEPT !.phase = "failed"]}
          /\ UNCHANGED <<server, disturbed>>
       \/ \E row \in Effects(m) :                   \* done, but the answer is lost
             /\ server' = [server EXCEPT ![m.id] = row]
             /\ moves' = (moves \ {m}) \cup {[m EXCEPT !.phase = "failed"]}
             /\ disturbed' = TRUE
    /\ UNCHANGED <<page, mounted, view, typed, shown, cache, loads, actions>>

\* What the page does with an answer, by kind of request.
Reaction(m) == CASE m.of = "change" -> page.changed [] m.of = "create" -> page.created
                 [] m.of = "remove" -> page.removed

\* A card that was moved in advance goes back where it was.
Undo_Nothing(m) == KeepShown
Undo(m) == IF Reaction(m) = "optimistic" THEN Put(With(m.id, m.previous), m.key) ELSE KeepShown

Reloads(m) == mounted /\ m.phase = "done" /\ Reaction(m) \in {"reload", "insertAndReload"}

ReceiveMove(m) ==
    /\ m.phase # "sent"
    /\ moves' = moves \ {m}
    /\ IF ~mounted THEN KeepShown /\ UNCHANGED loads
       ELSE IF m.phase = "failed" THEN Undo(m) /\ UNCHANGED loads
       ELSE /\ IF Reaction(m) \in {"reload", "refetch"} THEN KeepShown ELSE Put(With(m.id, m.row), m.key)
            /\ CASE Reloads(m) -> StartLoad(view)
                 [] Reaction(m) = "refetch" -> loads' = loads \cup {Request("handler", view)}
                 [] OTHER -> UNCHANGED loads
    /\ disturbed' = (moves # {m} \/ ~(Reloads(m) \/ (loads = {} /\ ~disturbed)))
    /\ UNCHANGED <<page, mounted, view, typed, server, actions>>

PageNext ==
    \/ SwitchCycle \/ TypeFilter \/ Debounced \/ Leave \/ Return
    \/ \E l \in loads : AnswerLoad(l) \/ ReceiveLoad(l)
    \/ \E i \in Ids : ChangeRow(i) \/ CreateRow(i) \/ RemoveRow(i)
    \/ \E m \in moves : AnswerMove(m) \/ ReceiveMove(m)

PageSpec == PageInit /\ [][PageNext]_pageVars

-----------------------------------------------------------------------------
\* Properties.

\* When all is answered the page shows what the API has for its cycle and filters: the
\* answer to an earlier filter never wins, a refused move is undone, a created or
\* removed row is there or gone.  It need not if a change overlapped another request, a
\* change of the filters or leaving the page, or its answer was lost.
SettledPageAgrees ==
    mounted /\ shown.status = "ready" /\ loads = {} /\ moves = {} /\ ~disturbed
        => shown.rows = Listed(view)
=============================================================================
