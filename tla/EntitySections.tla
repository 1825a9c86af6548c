------------------------------ MODULE EntitySections -------------------------------
(* The sections at the foot of a sheet: the notes or the attachments of a record, and the *)
(* dialog that assigns a free area to it.  A section loads its list, adds what the user   *)
(* creates and drops what he deletes without loading it again.  An attachment is created  *)
(* in three calls: presign, upload to the storage, confirm.                               *)
EXTENDS Naturals

Steps == {"presign", "put", "confirm", "done", "failed"}

CONSTANTS
    Entries,            \* notes, attachments or areas
    MaxSectionActions,  \* bound: what the user does in one behaviour
    NoEntry             \* nothing is being created or deleted

ASSUME SectionBoundIsNat == MaxSectionActions \in Nat
ASSUME NoEntryIsNone == NoEntry \notin [entry : Entries, step : Steps \cup {"sent"}]

VARIABLES
    section,      \* "notes", "attachments" or "areas"
    list,         \* loadState: status and entries
    kept,         \* what the API has: of areas, the free ones
    objects,      \* files in the storage
    listLoad,     \* the load: "sent", then "read" with the entries, then "over"
    adding,       \* what is being created: the entry and the step, NoEntry when nothing is
    dropping,     \* what is being deleted
    works,        \* how often the user has acted
    unsure        \* history: the entries changed while the list was loading, those whose answer
                  \* was lost, and those that a failed load left out
sectionVars == <<section, list, kept, objects, listLoad, adding, dropping, works, unsure>>

SectionTypeOK ==
    /\ section \in {"notes", "attachments", "areas"}
    /\ list \in [status : {"loading", "error", "ready"}, entries : SUBSET Entries]
    /\ kept \subseteq Entries /\ objects \subseteq Entries
    /\ listLoad \in [step : {"sent", "read", "over"}, entries : SUBSET Entries]
    /\ adding \in [entry : Entries, step : Steps] \cup {NoEntry}
    /\ dropping \in [entry : Entries, step : {"sent", "done", "failed"}] \cup {NoEntry}
    /\ works \in 0..MaxSectionActions /\ unsure \subseteq Entries

SectionInit ==
    /\ section \in {"notes", "attachments", "areas"} /\ list = [status |-> "loading", entries |-> {}]
    /\ kept \in SUBSET Entries /\ objects = IF section = "attachments" THEN kept ELSE {}
    /\ listLoad = [step |-> "sent", entries |-> {}]
    /\ adding = NoEntry /\ dropping = NoEntry /\ works = 0 /\ unsure = {}

-----------------------------------------------------------------------------
Work == works < MaxSectionActions /\ works' = works + 1
Early == listLoad.step # "over"

AnswerList ==
    /\ listLoad.step = "sent" /\ listLoad' = [step |-> "read", entries |-> kept]
    /\ UNCHANGED <<section, list, kept, objects, adding, dropping, works, unsure>>

\* A list that cannot be loaded is an error; the dialog of the free areas shows none.
ReceiveList ==
    /\ listLoad.step = "read" /\ listLoad' = [listLoad EXCEPT !.step = "over"]
    /\ list' \in {[status |-> "ready", entries |-> listLoad.entries],
                  [status |-> IF section = "areas" THEN "ready" ELSE "error", entries |-> {}]}
    /\ unsure' = unsure \cup (listLoad.entries \ list'.entries)
    /\ UNCHANGED <<section, kept, objects, adding, dropping, works>>

\* The form of a note, or the file dialog, is there while the list is loading.
HandleSubmit(e) ==
    /\ Work /\ section # "areas" /\ adding = NoEntry /\ e \notin kept \cup objects \cup list.entries
    /\ adding' = [entry |-> e, step |-> IF section = "notes" THEN "confirm" ELSE "presign"]
    /\ unsure' = IF Early THEN unsure \cup {e} ELSE unsure
    /\ UNCHANGED <<section, list, kept, objects, listLoad, dropping>>

\* A free area is assigned from the dialog's list.
Assignable == IF section = "areas" /\ list.status = "ready" THEN list.entries ELSE {}

HandleAssign(e) ==
    /\ Work /\ adding = NoEntry /\ e \in Assignable
    /\ adding' = [entry |-> e, step |-> "confirm"]
    /\ UNCHANGED <<section, list, kept, objects, listLoad, dropping, unsure>>

\* Each call is made when the one before it has been answered, and any may fail.
NextStep(s) == CASE s = "presign" -> "put" [] s = "put" -> "confirm" [] s = "confirm" -> "done"

AnswerAdding ==
    /\ adding # NoEntry /\ adding.step \notin {"done", "failed"}
    /\ LET e == adding.entry IN
       \/ /\ adding.step = "confirm" /\ section = "attachments" => e \in objects \* the API looks
          /\ adding' = [adding EXCEPT !.step = NextStep(@)]
          /\ objects' = IF adding.step = "put" THEN objects \cup {e} ELSE objects
          /\ kept' = IF adding.step # "confirm" THEN kept
                     ELSE IF section = "areas" THEN kept \ {e} ELSE kept \cup {e}
          /\ UNCHANGED unsure
       \/ /\ adding' = [adding EXCEPT !.step = "failed"] /\ UNCHANGED <<kept, objects, unsure>>
       \/ /\ adding.step = "confirm" /\ section # "attachments"       \* the answer is lost
          /\ adding' = [adding EXCEPT !.step = "failed"] /\ unsure' = unsure \cup {e}
          /\ kept' = IF section = "areas" THEN kept \ {e} ELSE kept \cup {e}
          /\ UNCHANGED objects
    /\ UNCHANGED <<section, list, listLoad, dropping, works>>

\* The setter adds to the current list; a list that is not loaded becomes the one entry.
Added_Forgets(e) == {e}
Added(e) == IF list.status = "ready" THEN list.entries \cup {e} ELSE {e}

\* The dialog of the areas is closed, and made anew when it is opened again.
ReceiveAdding ==
    /\ adding # NoEntry /\ adding.step \in {"done", "failed"} /\ adding' = NoEntry
    /\ CASE adding.step = "failed" -> UNCHANGED <<list, listLoad, unsure>>
         [] adding.step = "done" /\ section = "areas" ->
                                      /\ list' = [status |-> "loading", entries |-> {}]
                                      /\ listLoad' = [step |-> "sent", entries |-> {}] /\ unsure' = {}
         [] OTHER                  -> /\ list' = [status |-> "ready", entries |-> Added(adding.entry)]
                                      /\ UNCHANGED <<listLoad, unsure>>
    /\ UNCHANGED <<section, kept, objects, dropping, works>>

HandleDeleteEntry(e) ==
    /\ Work /\ section # "areas" /\ dropping = NoEntry /\ list.status = "ready" /\ e \in list.entries
    /\ dropping' = [entry |-> e, step |-> "sent"]
    /\ unsure' = IF Early THEN unsure \cup {e} ELSE unsure
    /\ UNCHANGED <<section, list, kept, objects, listLoad, adding>>

AnswerDropping ==
    /\ dropping # NoEntry /\ dropping.step = "sent"
    /\ \/ /\ kept' = kept \ {dropping.entry} /\ objects' = objects \ {dropping.entry}
          /\ \/ dropping' = [dropping EXCEPT !.step = "done"] /\ UNCHANGED unsure
             \/ /\ dropping' = [dropping EXCEPT !.step = "failed"]
                /\ unsure' = unsure \cup {dropping.entry}
       \/ dropping' = [dropping EXCEPT !.step = "failed"] /\ UNCHANGED <<kept, objects, unsure>>
    /\ UNCHANGED <<section, list, listLoad, adding, works>>

Dropped(e) == IF list.status = "ready" THEN [list EXCEPT !.entries = @ \ {e}] ELSE list

ReceiveDropping ==
    /\ dropping # NoEntry /\ dropping.step # "sent" /\ dropping' = NoEntry
    /\ list' = IF dropping.step = "done" THEN Dropped(dropping.entry) ELSE list
    /\ UNCHANGED <<section, kept, objects, listLoad, adding, works, unsure>>

SectionNext ==
    \/ AnswerList \/ ReceiveList \/ AnswerAdding \/ ReceiveAdding \/ AnswerDropping \/ ReceiveDropping
    \/ \E e \in Entries : HandleSubmit(e) \/ HandleAssign(e) \/ HandleDeleteEntry(e)

SectionSpec == SectionInit /\ [][SectionNext]_sectionVars

-----------------------------------------------------------------------------
\* Properties.

\* When all is answered a section lists what the API has, and every attachment it lists has
\* its file, whatever overlapped or was refused on the way.  Only the entries themselves that
\* were changed while the list was loading, whose answer was lost or that a failed load left
\* out may be wrong: they never make another entry wrong.
SettledSectionAgrees ==
    list.status = "ready" /\ ~Early /\ adding = NoEntry /\ dropping = NoEntry =>
        /\ list.entries \ unsure = kept \ unsure
        /\ section = "attachments" => list.entries \ unsure \subseteq objects
=============================================================================
