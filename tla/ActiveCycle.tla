-------------------------------- MODULE ActiveCycle --------------------------------
(* The cycle the whole application looks at.  Three places hold it: the address of the *)
(* page (?cycle=), the choice just made in the switcher, and the session storage of the *)
(* tab; useCycleQueryParam reconciles them after every render.  The router carries out  *)
(* a replacement of the address some time after it is asked for.                        *)
EXTENDS Naturals, Sequences

CONSTANTS
    CycleIds,           \* cycles that may be in the list
    MaxCycleActions,    \* bound: what the user does in one behaviour
    NoCycle             \* no parameter, no choice, nothing stored; also the empty cycleId

ASSUME NoCycleIsNone == NoCycle \notin CycleIds
ASSUME CycleBoundIsNat == MaxCycleActions \in Nat

VARIABLES
    listed,       \* the loaded cycles, {} while the list is loading or could not be loaded
    active,       \* the one that is ACTIVE
    url,          \* the parameter in the address
    optimistic,   \* optimisticCycleId
    stored,       \* session storage
    storable,     \* whether session storage works
    replacing,    \* replacements of the address the router has not carried out
    used,         \* how often the user has acted
    picked,       \* history: the cycle last chosen, in the switcher or by an address
    crossed       \* history: while a replacement was under way the list was loaded again,
                  \* or the cycle was chosen that the address still named
cycleVars == <<listed, active, url, optimistic, stored, storable, replacing, used, picked, crossed>>

MaybeCycle == CycleIds \cup {NoCycle}

CycleTypeOK ==
    /\ listed \subseteq CycleIds /\ active \in MaybeCycle /\ url \in MaybeCycle
    /\ optimistic \in MaybeCycle /\ stored \in MaybeCycle /\ storable \in BOOLEAN
    /\ replacing \in Seq(CycleIds) /\ used \in 0..MaxCycleActions
    /\ picked \in MaybeCycle /\ crossed \in BOOLEAN

CycleInit ==
    /\ listed = {} /\ active \in MaybeCycle /\ url \in MaybeCycle /\ storable \in BOOLEAN
    /\ optimistic = NoCycle /\ stored = NoCycle /\ replacing = <<>> /\ used = 0
    /\ picked = NoCycle /\ crossed = FALSE

-----------------------------------------------------------------------------
\* pickDefaultCycleId: the address, the storage, the ACTIVE cycle, the first one.
DefaultCycle(u, s, a, L) ==
    IF L = {} THEN NoCycle
    ELSE IF u \in L THEN u
    ELSE IF s \in L THEN s
    ELSE IF a \in L THEN a ELSE CHOOSE c \in L : TRUE

CycleIdOf(L, a, o, u, s) == IF o \in L THEN o ELSE DefaultCycle(u, s, a, L)
CycleId == CycleIdOf(listed, active, optimistic, url, stored)

\* A render with new values, and the effect after it: the cycle is stored, and the
\* address is replaced when it differs.
Render(L, a, o, u, s, queue) ==
    LET c == CycleIdOf(L, a, o, u, s)
    IN  /\ listed' = L /\ active' = a /\ optimistic' = o /\ url' = u
        /\ stored' = IF storable /\ c # NoCycle THEN c ELSE s
        /\ replacing' = IF c # NoCycle /\ c # u /\ (c # CycleId \/ u # url)
                        THEN Append(queue, c) ELSE queue

\* ActiveCycleProvider: the list is loaded, loaded again, or cannot be loaded; a cycle
\* is activated, closed, created or removed.
Reload ==
    /\ used < MaxCycleActions /\ used' = used + 1
    /\ \E L \in SUBSET CycleIds, a \in MaybeCycle :
           /\ Render(L, a, optimistic, url, stored, replacing)
           /\ picked' = IF picked \in L THEN picked ELSE NoCycle
    /\ crossed' = (crossed \/ replacing # <<>>)
    /\ UNCHANGED storable

\* The switcher, which is disabled until there is a list.
Pickable == listed \ {CycleId}

Pick ==
    /\ used < MaxCycleActions /\ used' = used + 1
    /\ \E c \in Pickable :
           /\ Render(listed, active, c, url, IF storable THEN c ELSE stored, replacing)
           /\ picked' = c
           /\ crossed' = (crossed \/ (c = url /\ replacing # <<>>))
    /\ UNCHANGED storable

\* A new address takes the place of the choice that was made in advance.
OptimisticAfter_Kept(u) == optimistic
OptimisticAfter(u) == IF u # url THEN NoCycle ELSE optimistic

\* The router carries out the oldest replacement, or only the newest one.
Replaced ==
    /\ replacing # <<>>
    /\ \E i \in {1, Len(replacing)} :
           LET u == replacing[i]
           IN  Render(listed, active, OptimisticAfter(u), u, stored, SubSeq(replacing, i + 1, Len(replacing)))
    /\ UNCHANGED <<storable, used, picked, crossed>>

\* Back, forward, or a link: the address names another cycle, or none.
Visit ==
    /\ used < MaxCycleActions /\ used' = used + 1 /\ replacing = <<>>
    /\ \E u \in MaybeCycle \ {url} :
           /\ Render(listed, active, OptimisticAfter(u), u, stored, replacing)
           /\ picked' = IF u = NoCycle /\ storable THEN picked ELSE IF u \in listed THEN u ELSE NoCycle
    /\ UNCHANGED <<storable, crossed>>

CycleNext == Reload \/ Pick \/ Replaced \/ Visit
CycleSpec == CycleInit /\ [][CycleNext]_cycleVars

-----------------------------------------------------------------------------
\* Properties.

\* What the user chose, in the switcher or by going back, forward or to an address, stays
\* chosen, through late replacements of the address, reloads of the list and links that
\* do not carry it.  The exception is a choice of the cycle the address still names, made
\* while it is being replaced: it asks for no replacement, and the late one overrides it.
PickIsKept == picked # NoCycle /\ replacing = <<>> /\ ~crossed => CycleId = picked
=============================================================================
