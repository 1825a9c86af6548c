----------------------------- MODULE OrganizationSheet -----------------------------
(* The sheet of an organization: its details with a draft, and the section of its        *)
(* contacts, of which one may be the primary one.  The details are saved by one request, *)
(* the contacts changed by others; each writes back what it saw when it was sent.        *)
EXTENDS Naturals, FiniteSets

CONSTANTS
    Persons,               \* contacts the organization may have
    MaxOrganizationActions, \* bound: what the user does in one behaviour
    NoPerson               \* no contact is edited, no request is under way

ASSUME PersonsAreFinite == IsFiniteSet(Persons)
ASSUME OrganizationBoundIsNat == MaxOrganizationActions \in Nat

Names == {"old", "new"}                        \* the details, as one value
Lists == [Persons -> {"absent", "plain", "primary"}]

VARIABLES
    details,       \* loadState: status, name, contacts and the draft of the name
    org,           \* the organization as the API has it, or "gone"
    people,        \* its contacts as the API has them
    detailLoad,    \* the load: "sent", then "loaded" with what it read, then "over"
    saving,        \* the request that saves the details, NoPerson when there is none
    changing,      \* the request of the contacts section, NoPerson when there is none
    removing,      \* the request that deletes the organization: "no", "sent", "done", "failed"
    editingId,     \* the contact whose form is open
    deeds,         \* how often the user has acted
    mixed          \* history: a save and a contact change were under way together, it was
                   \* typed during a save, or an answer was lost
orgVars == <<details, org, people, detailLoad, saving, changing, removing, editingId, deeds, mixed>>

Nobody   == [p \in Persons |-> "absent"]
Details  == [status : {"loading", "error", "ready", "closed"}, name : Names, contacts : Lists, draft : Names]
Blank    == [status |-> "loading", name |-> "old", contacts |-> Nobody, draft |-> "old"]
Savings  == [step : {"sent", "done", "failed"}, name : Names, contacts : Lists]
Changes  == [of : {"add", "edit", "primary", "delete"}, person : Persons, isPrimary : BOOLEAN,
             step : {"sent", "done", "failed"}, contacts : Lists]
DetailLoads == [step : {"sent", "loaded", "over"}, name : Names, contacts : Lists]

ASSUME NoPersonIsNone == NoPerson \notin Persons \cup Savings \cup Changes

OrganizationTypeOK ==
    /\ details \in Details /\ org \in Names \cup {"gone"} /\ people \in Lists
    /\ detailLoad \in DetailLoads /\ saving \in Savings \cup {NoPerson} /\ changing \in Changes \cup {NoPerson}
    /\ removing \in {"no", "sent", "done", "failed"} /\ editingId \in Persons \cup {NoPerson}
    /\ mixed \in BOOLEAN /\ deeds \in 0..MaxOrganizationActions

Primaries(l) == {p \in Persons : l[p] = "primary"}

OrganizationInit ==
    /\ details = Blank /\ org = "old" /\ people \in {l \in Lists : Cardinality(Primaries(l)) <= 1}
    /\ detailLoad = [step |-> "sent", name |-> "old", contacts |-> Nobody]
    /\ saving = NoPerson /\ changing = NoPerson /\ removing = "no" /\ editingId = NoPerson
    /\ deeds = 0 /\ mixed = FALSE

-----------------------------------------------------------------------------
Mark(b) == IF b THEN "primary" ELSE "plain"

\* One contact is the primary one, the others are not.
ApplyPrimary_AddOnly(l, p) == [l EXCEPT ![p] = "primary"]
ApplyPrimary(l, p) ==
    [q \in Persons |-> IF q = p THEN "primary" ELSE IF l[q] = "primary" THEN "plain" ELSE l[q]]

Deed == deeds < MaxOrganizationActions /\ details.status = "ready" /\ removing = "no" /\ deeds' = deeds + 1

AnswerDetail ==
    /\ detailLoad.step = "sent"
    /\ detailLoad' = [step |-> "loaded", name |-> IF org = "gone" THEN "old" ELSE org, contacts |-> people]
    /\ UNCHANGED <<details, org, people, saving, changing, removing, editingId, deeds, mixed>>

ReceiveDetail ==
    /\ detailLoad.step = "loaded" /\ detailLoad' = [detailLoad EXCEPT !.step = "over"]
    /\ details' \in {[status |-> "ready", name |-> detailLoad.name, contacts |-> detailLoad.contacts,
                      draft |-> detailLoad.name],
                     [Blank EXCEPT !.status = "error"]}
    /\ UNCHANGED <<org, people, saving, changing, removing, editingId, deeds, mixed>>

SetDraft ==
    /\ Deed
    /\ \E n \in Names \ {details.draft} : details' = [details EXCEPT !.draft = n]
    /\ mixed' = (mixed \/ saving # NoPerson)
    /\ UNCHANGED <<org, people, detailLoad, saving, changing, removing, editingId>>

\* The footer is there while the draft differs.
CancelDraft ==
    /\ details.status = "ready" /\ removing = "no" /\ details.draft # details.name /\ saving = NoPerson
    /\ details' = [details EXCEPT !.draft = details.name]
    /\ UNCHANGED <<org, people, detailLoad, saving, changing, removing, editingId, deeds, mixed>>

SaveDetails ==
    /\ Deed /\ details.draft # details.name /\ saving = NoPerson
    /\ saving' = [step |-> "sent", name |-> details.draft, contacts |-> details.contacts]
    /\ mixed' = (mixed \/ changing # NoPerson)
    /\ UNCHANGED <<details, org, people, detailLoad, changing, removing, editingId>>

AnswerSave ==
    /\ saving # NoPerson /\ saving.step = "sent"
    /\ \/ org # "gone" /\ org' = saving.name /\ saving' = [saving EXCEPT !.step = "done"] /\ UNCHANGED mixed
       \/ org # "gone" /\ org' = saving.name /\ saving' = [saving EXCEPT !.step = "failed"] /\ mixed' = TRUE
       \/ saving' = [saving EXCEPT !.step = "failed"] /\ UNCHANGED <<org, mixed>>
    /\ UNCHANGED <<details, people, detailLoad, changing, removing, editingId, deeds>>

\* The contacts are those of the moment the request was sent.
ReceiveSave ==
    /\ saving # NoPerson /\ saving.step # "sent" /\ saving' = NoPerson
    /\ details' = IF saving.step = "failed" \/ details.status # "ready" THEN details
                  ELSE [details EXCEPT !.name = saving.name, !.draft = saving.name, !.contacts = saving.contacts]
    /\ UNCHANGED <<org, people, detailLoad, changing, removing, editingId, deeds, mixed>>

-----------------------------------------------------------------------------
\* The contacts section: one request at a time.

Change(of, p, b) ==
    /\ Deed /\ changing = NoPerson
    /\ changing' = [of |-> of, person |-> p, isPrimary |-> b, step |-> "sent", contacts |-> details.contacts]
    /\ mixed' = (mixed \/ saving # NoPerson)
    /\ UNCHANGED <<details, org, people, detailLoad, saving, removing, editingId>>

HandleAdd(p) == details.contacts[p] = "absent" /\ people[p] = "absent" /\ \E b \in BOOLEAN : Change("add", p, b)

\* The form of a contact stays open, with the mark it was opened with or was given, while
\* another contact becomes the primary one.
StartEdit(p) ==
    /\ Deed /\ details.contacts[p] # "absent" /\ editingId # p
    /\ editingId' = p
    /\ UNCHANGED <<details, org, people, detailLoad, saving, changing, removing, mixed>>

HandleSaveEdit(p) ==
    editingId = p /\ details.contacts[p] # "absent" /\ \E b \in BOOLEAN : Change("edit", p, b)
HandleSetPrimary(p) == details.contacts[p] = "plain" /\ editingId # p /\ Change("primary", p, TRUE)
HandleDeleteContact(p) == details.contacts[p] # "absent" /\ Change("delete", p, FALSE)

\* What a change makes of a list of contacts: the API does it to its rows, the section to
\* the list it was given.
Apply(l, c) ==
    IF c.of = "delete" THEN [l EXCEPT ![c.person] = "absent"]
    ELSE IF c.isPrimary THEN ApplyPrimary(l, c.person) ELSE [l EXCEPT ![c.person] = "plain"]

Carried == IF changing.of = "delete" THEN [people EXCEPT ![changing.person] = "absent"]
           ELSE [p \in Persons |-> IF p = changing.person THEN Mark(changing.isPrimary)
                                   ELSE IF changing.isPrimary /\ people[p] = "primary" THEN "plain" ELSE people[p]]

AnswerChangeOfContact ==
    /\ changing # NoPerson /\ changing.step = "sent"
    /\ LET possible == org # "gone" /\ (changing.of = "add" \/ people[changing.person] # "absent")
       IN  \/ /\ possible /\ people' = Carried
              /\ changing' = [changing EXCEPT !.step = "done"] /\ UNCHANGED mixed
           \/ /\ possible /\ people' = Carried
              /\ changing' = [changing EXCEPT !.step = "failed"] /\ mixed' = TRUE
           \/ changing' = [changing EXCEPT !.step = "failed"] /\ UNCHANGED <<people, mixed>>
    /\ UNCHANGED <<details, org, detailLoad, saving, removing, editingId, deeds>>

\* onChange with the list of the moment the request was sent; the form is closed.
ReceiveChangeOfContact ==
    /\ changing # NoPerson /\ changing.step # "sent" /\ changing' = NoPerson
    /\ details' = IF changing.step = "failed" \/ details.status # "ready" THEN details
                  ELSE [details EXCEPT !.contacts = Apply(changing.contacts, changing)]
    /\ editingId' = IF changing.step = "done" /\ changing.of = "edit" THEN NoPerson ELSE editingId
    /\ UNCHANGED <<org, people, detailLoad, saving, removing, deeds, mixed>>

-----------------------------------------------------------------------------
\* The organization is deleted, unless participations refer to it; the sheet closes.
DeleteOrganization ==
    /\ Deed /\ saving = NoPerson /\ removing' = "sent"
    /\ UNCHANGED <<details, org, people, detailLoad, saving, changing, editingId, mixed>>

AnswerDelete ==
    /\ removing = "sent"
    /\ \/ org' = "gone" /\ people' = Nobody /\ removing' = "done"
       \/ removing' = "failed" /\ UNCHANGED <<org, people>>
    /\ UNCHANGED <<details, detailLoad, saving, changing, editingId, deeds, mixed>>

ReceiveDelete ==
    /\ removing \in {"done", "failed"}
    /\ IF removing = "done" THEN details' = [details EXCEPT !.status = "closed"] ELSE UNCHANGED details
    /\ removing' = "no"
    /\ UNCHANGED <<org, people, detailLoad, saving, changing, editingId, deeds, mixed>>

OrganizationNext ==
    \/ AnswerDetail \/ ReceiveDetail \/ SetDraft \/ CancelDraft \/ SaveDetails \/ AnswerSave \/ ReceiveSave
    \/ \E p \in Persons : HandleAdd(p) \/ StartEdit(p) \/ HandleSaveEdit(p) \/ HandleSetPrimary(p)
                          \/ HandleDeleteContact(p)
    \/ AnswerChangeOfContact \/ ReceiveChangeOfContact \/ DeleteOrganization \/ AnswerDelete \/ ReceiveDelete

OrganizationSpec == OrganizationInit /\ [][OrganizationNext]_orgVars

-----------------------------------------------------------------------------
\* Properties.

\* When all is answered the sheet shows the organization and its contacts as the API has
\* them, with at most one of them the primary one, unless a save and a change of a contact
\* were under way together or an answer was lost.
SettledOrganizationAgrees ==
    details.status = "ready" /\ saving = NoPerson /\ changing = NoPerson /\ removing = "no" /\ ~mixed =>
        /\ org = details.name /\ people = details.contacts
        /\ Cardinality(Primaries(details.contacts)) <= 1
=============================================================================
