---------------------------------- MODULE Sheets ----------------------------------
(* The sheet of a builder deal or of a partner participation: it slides over the board, *)
(* shows the record with a draft of its details, and changes the record by requests of  *)
(* its own (details, stage, areas, account, deletion) that do not wait for one another.  *)
(* Closing it hides it; it is made anew only for another record.                        *)
EXTENDS Naturals, FiniteSets

CONSTANTS
    Records,           \* deals, or participations, on the board
    MaxSheetActions,   \* bound: what the user and others do in one behaviour
    NoRecord           \* no record

Fields == {"text", "size"}
Values == {"empty", "given"}
Typed  == Values \cup {"invalid"}        \* a draft holds what was typed

DealStages    == {"NEW", "CONTACTED", "NEGOTIATION", "WON", "LOST"}
PartnerStages == {"NEW", "CONTACTED", "CONFIRMED", "DECLINED"}
Items  == [stage : DealStages \cup PartnerStages, fields : [Fields -> Values], area : BOOLEAN]
Drafts == [Fields -> Typed]

ASSUME NoRecordIsNone == NoRecord \notin Records /\ NoRecord \notin Items
ASSUME SheetBoundIsNat == MaxSheetActions \in Nat

VARIABLES
    kind,        \* "deal" or "partner": what the board lists
    selected,    \* the record the page has opened, NoRecord when the sheet is closed
    activeId,    \* the record the sheet was made for
    pane,        \* loadState: status, the record, hasExpoAccount
    draft,
    editing,
    board,       \* the records as the page shows them; onUpdated and onDeleted change it
    items,       \* the records as the API has them
    accounts,    \* records whose organization has a ToonExpo account
    asks,        \* requests under way
    acts,        \* how often somebody has acted
    intended,    \* history: the draft as the user left it
    crossing,    \* history: requests of the sheet overlapped, it was typed in or cancelled
                 \* while one was under way, or an answer was lost
    overtyped,   \* history: typed in this sheet while a request was under way whose answer
                 \* fills the draft anew
    outdated,    \* history: records changed elsewhere since the sheet was made
    astray       \* history: records that a sheet has ever had crossing requests about, or
                 \* has shown outdated: the board need not have their stage
sheetVars == <<kind, selected, activeId, pane, draft, editing, board, items, accounts, asks, acts,
               intended, crossing, overtyped, outdated, astray>>

Empty     == [f \in Fields |-> "empty"]
Nothing   == [stage |-> "NEW", fields |-> Empty, area |-> FALSE]
SheetLoad == [status |-> "loading", item |-> Nothing, account |-> FALSE]

Kinds == {"load", "reload", "save", "stage", "release", "assign", "account", "delete"}
Asks  == [of : Kinds, id : Records, step : {"first", "second", "done", "failed"}, item : Items \cup {NoRecord},
          account : BOOLEAN, keepDraft : BOOLEAN, previous : Items, patch : [Fields -> Values \cup {"same"}],
          to : DealStages \cup PartnerStages, release : BOOLEAN]

SheetTypeOK ==
    /\ kind \in {"deal", "partner"} /\ {selected, activeId} \subseteq Records \cup {NoRecord}
    /\ pane \in [status : {"loading", "error", "ready"}, item : Items, account : BOOLEAN]
    /\ draft \in Drafts /\ intended \in Drafts /\ {editing, crossing, overtyped} \subseteq BOOLEAN
    /\ {board, items} \subseteq [Records -> Items \cup {NoRecord}]
    /\ accounts \subseteq Records /\ {outdated, astray} \subseteq SUBSET Records /\ asks \subseteq Asks
    /\ acts \in 0..MaxSheetActions

SheetInit ==
    /\ kind \in {"deal", "partner"}
    /\ \E s \in IF kind = "deal" THEN DealStages ELSE PartnerStages, b \in BOOLEAN :
           /\ items = [r \in Records |-> [stage |-> s, fields |-> Empty, area |-> b]]
           /\ accounts = IF b THEN Records ELSE {}
    /\ board = items /\ selected = NoRecord /\ activeId = NoRecord /\ pane = SheetLoad
    /\ draft = Empty /\ intended = Empty /\ editing = FALSE /\ asks = {} /\ acts = 0
    /\ crossing = FALSE /\ overtyped = FALSE /\ outdated = {} /\ astray = {}

-----------------------------------------------------------------------------
\* The stages the switcher of the sheet offers.
AllowedDealStages(s) ==
    CASE s = "NEW"         -> {"CONTACTED", "LOST"}
      [] s = "CONTACTED"   -> {"NEW", "NEGOTIATION", "LOST"}
      [] s = "NEGOTIATION" -> {"CONTACTED", "WON", "LOST"}
      [] s = "LOST"        -> {"NEW", "CONTACTED", "NEGOTIATION"}
      [] s = "WON"         -> {"NEGOTIATION", "LOST"}
AllowedPartnerStages(s) ==
    CASE s = "NEW"       -> {"CONTACTED", "DECLINED"}
      [] s = "CONTACTED" -> {"NEW", "CONFIRMED", "DECLINED"}
      [] OTHER           -> {"NEW", "CONTACTED"}
AllowedNextStages == IF kind = "deal" THEN AllowedDealStages(pane.item.stage)
                     ELSE AllowedPartnerStages(pane.item.stage)

\* The stages the API lets a record have next.
DealTakes(i, s) ==
    \/ s = i.stage
    \/ /\ i.stage # "WON"
       /\ s = "WON" => i.stage = "NEGOTIATION" /\ i.area
PartnerTakes(i, s) ==
    \/ s \in {i.stage, "NEW", "CONTACTED"}
    \/ s = "CONFIRMED" /\ i.stage = "CONTACTED"
    \/ s = "DECLINED" /\ i.stage \in {"NEW", "CONTACTED"}
Takes(i, s) == IF kind = "deal" THEN DealTakes(i, s) ELSE PartnerTakes(i, s)

\* What the API makes of a field: a size that is no whole number clears it.
Saved(v) == IF v = "invalid" THEN "empty" ELSE v

Baseline == pane.item.fields
IsDirty  == draft # Baseline
BuildDetailsPatch_Whole(d) == [f \in Fields |-> Saved(d[f])]
BuildDetailsPatch(d) == [f \in Fields |-> IF d[f] # Baseline[f] THEN Saved(d[f]) ELSE "same"]

-----------------------------------------------------------------------------
Pending(K) == \E a \in asks : a.of \in K /\ a.id = activeId
Shown      == selected # NoRecord /\ pane.status = "ready" /\ ~Pending({"delete"})
SheetAct   == acts < MaxSheetActions /\ acts' = acts + 1

Question(of) == [of |-> of, id |-> activeId, step |-> "first", item |-> NoRecord, account |-> FALSE,
                 keepDraft |-> IsDirty, previous |-> pane.item, patch |-> [f \in Fields |-> "same"],
                 to |-> pane.item.stage, release |-> FALSE]
Ask(a) == asks' = asks \cup {a} /\ crossing' = (crossing \/ asks # {})

\* setDeal: only a sheet that is loaded, and was made for this record, takes it; the
\* board is told in any case.
SetDeal(id, i, syncDraft) ==
    /\ IF id = activeId /\ pane.status = "ready"
       THEN /\ pane' = [pane EXCEPT !.item = i]
            /\ draft' = IF syncDraft THEN i.fields ELSE draft
       ELSE UNCHANGED <<pane, draft>>
    /\ board' = [board EXCEPT ![id] = IF @ = NoRecord THEN @ ELSE i]

\* A click on a card.  The sheet of the record it was made for shows what it showed when
\* it was closed.
Open(r) ==
    /\ SheetAct /\ selected = NoRecord /\ board[r] # NoRecord /\ selected' = r
    /\ IF r = activeId
       THEN UNCHANGED <<activeId, pane, draft, editing, asks, intended, crossing, outdated>>
       ELSE /\ activeId' = r /\ pane' = SheetLoad /\ draft' = Empty /\ intended' = Empty
            /\ editing' = FALSE
            /\ asks' = {a \in asks : a.of # "load"} \cup
                           {[Question("load") EXCEPT !.id = r, !.previous = Nothing, !.to = "NEW",
                                                     !.keepDraft = FALSE]}
            /\ crossing' = (asks # {}) /\ outdated' = outdated \ {r}
    /\ UNCHANGED <<kind, board, items, accounts>>

Close ==
    /\ selected # NoRecord /\ ~Pending({"delete"}) /\ selected' = NoRecord
    /\ UNCHANGED <<kind, activeId, pane, draft, editing, board, items, accounts, asks, acts, intended,
                   crossing, outdated>>

Edit ==
    /\ Shown /\ ~editing /\ editing' = TRUE
    /\ UNCHANGED <<kind, selected, activeId, pane, draft, board, items, accounts, asks, acts, intended,
                   crossing, outdated>>

\* The size of a deal is the only field that can be typed wrong.
UpdateDraft(f) ==
    /\ SheetAct /\ Shown /\ editing
    /\ \E v \in IF kind = "deal" /\ f = "size" THEN Typed ELSE Values :
           draft[f] # v /\ draft' = [draft EXCEPT ![f] = v]
    /\ intended' = draft' /\ crossing' = (crossing \/ asks # {})
    /\ UNCHANGED <<kind, selected, activeId, pane, editing, board, items, accounts, asks, outdated>>

HandleCancelDraft ==
    /\ Shown /\ editing /\ ~Pending({"save"})
    /\ draft' = Baseline /\ intended' = Baseline /\ editing' = FALSE
    /\ crossing' = (crossing \/ asks # {})
    /\ UNCHANGED <<kind, selected, activeId, pane, board, items, accounts, asks, acts, outdated>>

HandleSave ==
    /\ SheetAct /\ Shown /\ editing /\ IsDirty /\ ~Pending({"save"})
    /\ Ask([Question("save") EXCEPT !.patch = BuildDetailsPatch(draft)])
    /\ UNCHANGED <<kind, selected, activeId, pane, draft, editing, board, items, accounts, intended, outdated>>

\* The switcher; LOST and DECLINED are confirmed in a dialog, which offers to release the
\* areas of a deal.  The sheet shows the new stage in advance.
HandleStageChange(s, release) ==
    /\ SheetAct /\ Shown /\ ~Pending({"stage"}) /\ s \in AllowedNextStages
    /\ release => s = "LOST" /\ pane.item.area
    /\ Ask([Question("stage") EXCEPT !.to = s, !.release = release])
    /\ SetDeal(activeId, [pane.item EXCEPT !.stage = s], ~IsDirty)
    /\ UNCHANGED <<kind, selected, activeId, editing, items, accounts, intended, outdated>>

\* The areas section: releasing an area or assigning a free one, in dialogs that wait.
ChangeArea(of) ==
    /\ SheetAct /\ Shown /\ ~Pending({"release", "assign"})
    /\ IF of = "release" THEN pane.item.area ELSE ~pane.item.area
    /\ Ask(Question(of))
    /\ UNCHANGED <<kind, selected, activeId, pane, draft, editing, board, items, accounts, intended, outdated>>

\* The account of the organization is asked for at ToonExpo.
AddAccount ==
    /\ SheetAct /\ Shown /\ ~pane.account /\ ~Pending({"account"})
    /\ Ask(Question("account"))
    /\ UNCHANGED <<kind, selected, activeId, pane, draft, editing, board, items, accounts, intended, outdated>>

HandleDelete ==
    /\ SheetAct /\ Shown
    /\ Ask(Question("delete"))
    /\ UNCHANGED <<kind, selected, activeId, pane, draft, editing, board, items, accounts, intended, outdated>>

\* A card is dragged on the board behind the closed sheet.
DraggedBehind(r) ==
    /\ SheetAct /\ selected = NoRecord /\ items[r] # NoRecord /\ board[r] # NoRecord
    /\ \E s \in DealStages \cup PartnerStages :
           /\ s \in (IF kind = "deal" THEN DealStages ELSE PartnerStages)
           /\ s # items[r].stage /\ Takes(items[r], s)
           /\ items' = [items EXCEPT ![r].stage = s] /\ board' = [board EXCEPT ![r] = items'[r]]
    /\ outdated' = outdated \cup {r}
    /\ UNCHANGED <<kind, selected, activeId, pane, draft, editing, accounts, asks, intended, crossing>>

\* A colleague fills in a field of the open record.
ChangedElsewhere ==
    /\ Shown /\ items[selected] # NoRecord
    /\ items[selected].fields["text"] # "given"
    /\ items' = [items EXCEPT ![selected].fields["text"] = "given"]
    /\ outdated' = outdated \cup {selected}
    /\ UNCHANGED <<kind, selected, activeId, pane, draft, editing, board, accounts, asks, acts, intended,
                   crossing>>

-----------------------------------------------------------------------------
\* The API.  A load reads the record, then its organization and account requests.

Fail(a)  == [a EXCEPT !.step = "failed"]
Found(a) == items[a.id] # NoRecord

AnswerLoadStep(a) ==
    /\ a.of \in {"load", "reload"} /\ a.step \in {"first", "second"}
    /\ \E b \in {Fail(a)} \cup
                (IF a.step = "second" THEN {[a EXCEPT !.step = "done", !.account = a.id \in accounts]}
                 ELSE IF Found(a) THEN {[a EXCEPT !.step = "second", !.item = items[a.id]]} ELSE {}) :
           asks' = (asks \ {a}) \cup {b}
    /\ UNCHANGED <<kind, selected, activeId, pane, draft, editing, board, items, accounts, acts, intended,
                   crossing, outdated>>

\* What a change makes of the record.
Changed(a) ==
    LET i == items[a.id]
    IN  CASE a.of = "save"    -> [i EXCEPT !.fields = [f \in Fields |-> IF a.patch[f] = "same" THEN @[f] ELSE a.patch[f]]]
          [] a.of = "stage"   -> [i EXCEPT !.stage = a.to, !.area = @ /\ ~a.release]
          [] a.of = "release" -> [i EXCEPT !.area = FALSE]
          [] a.of = "assign"  -> [i EXCEPT !.area = TRUE]
          [] OTHER            -> i

\* A lost deal gets no area; a release finds the allocation active, an assignment the area
\* free.
Accepts(a) ==
    LET i == items[a.id]
    IN  /\ Found(a)
        /\ a.of = "stage"   => Takes(i, a.to)
        /\ a.of = "release" => i.area
        /\ a.of = "assign"  => ~i.area /\ i.stage # "LOST"

CarryOut(a) ==
    /\ Accepts(a)
    /\ items' = [items EXCEPT ![a.id] = IF a.of = "delete" THEN NoRecord ELSE Changed(a)]
    /\ accounts' \in IF a.of = "account" THEN {accounts, accounts \cup {a.id}} ELSE {accounts}

AnswerChange(a) ==
    /\ a.of \notin {"load", "reload"} /\ a.step = "first"
    /\ \/ UNCHANGED <<items, accounts, crossing>> /\ asks' = (asks \ {a}) \cup {Fail(a)}
       \/ /\ CarryOut(a) /\ UNCHANGED crossing
          /\ asks' = (asks \ {a}) \cup
                        {[a EXCEPT !.step = "done", !.item = Changed(a), !.account = a.id \in accounts']}
       \/ /\ CarryOut(a) /\ crossing' = TRUE                         \* the answer is lost
          /\ asks' = (asks \ {a}) \cup {Fail(a)}
    /\ UNCHANGED <<kind, selected, activeId, pane, draft, editing, board, acts, intended, outdated>>

-----------------------------------------------------------------------------
\* The sheet receives the answers.

Mine(a) == a.id = activeId
Take(a) == asks' = asks \ {a}
Content(a) == [status |-> "ready", item |-> a.item, account |-> a.account]

ReceiveLoaded(a) ==
    /\ a.of = "load" /\ a.step \in {"done", "failed"} /\ Take(a)
    /\ IF a.step = "failed" THEN pane' = [SheetLoad EXCEPT !.status = "error"] /\ UNCHANGED <<draft, intended>>
       ELSE pane' = Content(a) /\ draft' = a.item.fields /\ intended' = draft'
    /\ editing' = (editing /\ a.step = "failed")
    /\ UNCHANGED <<kind, selected, activeId, board, items, accounts, acts, crossing, outdated>>

\* reloadDeal is not cancelled: it also fills a sheet that is not loaded.
ReceiveReloaded(a) ==
    /\ a.of = "reload" /\ a.step \in {"done", "failed"} /\ Take(a)
    /\ IF a.step = "failed" THEN UNCHANGED <<pane, draft, board>> /\ crossing' = TRUE
       ELSE /\ board' = [board EXCEPT ![a.id] = IF @ = NoRecord THEN @ ELSE a.item]
            /\ IF Mine(a) THEN pane' = Content(a) /\ draft' = IF a.keepDraft THEN draft ELSE a.item.fields
               ELSE UNCHANGED <<pane, draft>>
            /\ UNCHANGED crossing
    /\ intended' = IF Mine(a) /\ ~a.keepDraft /\ a.step = "done" /\ ~overtyped THEN draft' ELSE intended
    /\ UNCHANGED <<kind, selected, activeId, editing, items, accounts, acts, outdated>>

ReceiveSaved(a) ==
    /\ a.of = "save" /\ a.step \in {"done", "failed"} /\ Take(a)
    /\ IF a.step = "failed" THEN UNCHANGED <<pane, draft, board, editing, intended>>
       ELSE /\ SetDeal(a.id, a.item, TRUE)
            /\ editing' = (editing /\ ~Mine(a)) /\ intended' = IF overtyped THEN intended ELSE draft'
    /\ UNCHANGED <<kind, selected, activeId, items, accounts, acts, crossing, outdated>>

AfterStage_KeepsAdvance(a) == IF a.step = "done" THEN a.item ELSE [a.previous EXCEPT !.stage = a.to]
AfterStage(a) == IF a.step = "done" THEN a.item ELSE a.previous
KeepsDraft_Never(a) == FALSE
KeepsDraft(a) == a.keepDraft

ReceiveStage(a) ==
    /\ a.of = "stage" /\ a.step \in {"done", "failed"} /\ Take(a)
    /\ SetDeal(a.id, AfterStage(a), ~KeepsDraft(a))
    /\ intended' = IF a.keepDraft \/ overtyped THEN intended ELSE draft'
    /\ UNCHANGED <<kind, selected, activeId, editing, items, accounts, acts, crossing, outdated>>

\* After a release or an assignment the whole record is read again.
ReceiveArea(a) ==
    /\ a.of \in {"release", "assign"} /\ a.step \in {"done", "failed"}
    /\ asks' = (asks \ {a}) \cup
           IF a.step = "failed" THEN {}
           ELSE {[a EXCEPT !.of = "reload", !.step = "first", !.item = NoRecord]}
    /\ UNCHANGED <<kind, selected, activeId, pane, draft, editing, board, items, accounts, acts, intended,
                   crossing, outdated>>

\* A request that ToonExpo has not carried out yet leaves hasExpoAccount as it was.
ReceiveAccount(a) ==
    /\ a.of = "account" /\ a.step \in {"done", "failed"} /\ Take(a)
    /\ pane' = IF a.step = "done" /\ Mine(a) /\ pane.status = "ready"
             THEN [pane EXCEPT !.account = @ \/ a.account] ELSE pane
    /\ UNCHANGED <<kind, selected, activeId, draft, editing, board, items, accounts, acts, intended,
                   crossing, outdated>>

ReceiveDeleted(a) ==
    /\ a.of = "delete" /\ a.step \in {"done", "failed"} /\ Take(a)
    /\ IF a.step = "done" THEN selected' = NoRecord /\ board' = [board EXCEPT ![a.id] = NoRecord]
       ELSE UNCHANGED <<selected, board>>
    /\ UNCHANGED <<kind, activeId, pane, draft, editing, items, accounts, acts, intended, crossing, outdated>>

SheetStep ==
    \/ \E r \in Records : Open(r) \/ DraggedBehind(r)
    \/ ChangedElsewhere \/ Close \/ Edit \/ HandleCancelDraft \/ HandleSave \/ AddAccount \/ HandleDelete
    \/ \E f \in Fields : UpdateDraft(f)
    \/ \E s \in DealStages \cup PartnerStages, b \in BOOLEAN : HandleStageChange(s, b)
    \/ \E of \in {"release", "assign"} : ChangeArea(of)
    \/ \E a \in asks : AnswerLoadStep(a) \/ AnswerChange(a) \/ ReceiveLoaded(a) \/ ReceiveReloaded(a)
                       \/ ReceiveSaved(a) \/ ReceiveStage(a) \/ ReceiveArea(a) \/ ReceiveAccount(a)
                       \/ ReceiveDeleted(a)

\* The board is told of a record only by its sheet: nothing reads it again.
Strays == astray' = astray \cup {r \in Records :
    \/ crossing' /\ (r \in {activeId, activeId'} \/ \E a \in asks' : a.id = r)
    \/ r = activeId' /\ r \in outdated'}

\* A load, a save, and a change or reload asked for with an unedited draft fill the draft.
FillsDraft(a) == Mine(a) /\ \/ a.of \in {"load", "save"}
                            \/ a.of \in {"reload", "stage", "release", "assign"} /\ ~a.keepDraft
Overtypes == overtyped' = /\ activeId' = activeId
                          /\ overtyped \/ /\ acts' # acts /\ draft' # draft
                                          /\ \E a \in asks : FillsDraft(a)

SheetNext == SheetStep /\ Strays /\ Overtypes

SheetSpec == SheetInit /\ [][SheetNext]_sheetVars

-----------------------------------------------------------------------------
\* Properties.

\* When all is answered an open sheet shows the record as the API has it, and the board
\* shows the same stage: one shown in advance has been confirmed or taken back, in both
\* places.  It need not when requests of the sheet have overlapped, an answer was lost,
\* or the record was changed elsewhere since the sheet was made.  A new sheet of the
\* record reads it again; the board stays wrong when that has happened once.
SettledSheetAgrees ==
    selected # NoRecord /\ pane.status = "ready" /\ asks = {} /\ ~crossing /\ selected \notin outdated
        => /\ pane.item = items[selected] /\ pane.account = (selected \in accounts)
           /\ selected \notin astray => board[selected].stage = items[selected].stage

\* What the user has typed stays in the draft while stages and areas are changed, confirmed,
\* refused and read again, in any order, whether their answers arrive or are lost, also when
\* he goes on typing meanwhile.  The exception is a sheet in which he has typed while a load
\* or a save was under way, or a change or reload that was asked for before he had edited
\* anything: its answer fills the draft anew.
DraftIsKept == pane.status = "ready" /\ ~overtyped => draft = intended

\* Saving details writes the fields that were edited: what a colleague has changed in
\* another field since the sheet was loaded stays.  A size that was typed wrong counts as
\* edited: it is sent as no size.
SaveKeepsOtherFields ==
    [][\A r \in Records, f \in Fields :
           items[r] # NoRecord /\ items'[r] # NoRecord /\ items[r].fields[f] # items'[r].fields[f] =>
               \/ r \in outdated' /\ asks' = asks
               \/ \E a \in asks \ asks' : /\ a.of = "save" /\ a.id = r
                                          /\ \/ a.previous.fields[f] # a.patch[f]
                                             \/ f = "size" /\ a.patch[f] = "empty"
      ]_sheetVars
=============================================================================
