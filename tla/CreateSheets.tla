------------------------------- MODULE CreateSheets -------------------------------
(* The sheet that creates a builder deal or a partner participation: an organization is *)
(* searched for and picked, or created in a second sheet; its contacts are loaded; the   *)
(* form is submitted.  The search, the contacts, the new organization and the           *)
(* submission are requests of their own.                                                *)
EXTENDS Naturals, Sequences, FiniteSets
SequenceOperators == INSTANCE SequencesExt

CONSTANTS
    Companies,         \* organizations that exist at the start
    NewCompany,        \* the one that may be created meanwhile
    MaxCreateActions,  \* bound: what the user does in one behaviour
    NoCompany          \* none chosen, none highlighted, no request

ASSUME CompaniesAreFinite == IsFiniteSet(Companies)
ASSUME CreateBoundIsNat == MaxCreateActions \in Nat

Texts == {"", "some", "other"}           \* what is typed: nothing, or one of two names
SomeCompany == CHOOSE c \in Companies : TRUE
Name(c) == IF c \in {SomeCompany, NewCompany} THEN "some" ELSE "other"
Matches(c, t) == t \in {"", Name(c)}

Offered == Companies \cup {NewCompany}

VARIABLES
    formOpen,      \* the sheet is open
    search,        \* what is typed in the search box
    query,         \* what is searched for, SEARCH_DEBOUNCE_MS later
    searching,     \* the searches whose answers are awaited
    options,       \* the list under the search box
    listOpen,
    highlighted,   \* highlightedIndex
    organization,  \* the one chosen
    contacts,      \* the organization whose contacts are offered
    contact,       \* the organization whose primary contact is chosen
    asking,        \* organizations whose contacts are being loaded
    orgSheet,      \* the second sheet is open
    creating,      \* an organization is being created
    submitted,     \* the submission under way
    known,         \* organizations the API has
    created,       \* what has been created: organization and contact
    steps,         \* how often the user has acted
    chosen,        \* history: the organization the user chose last
    late           \* history: the second sheet was closed before the answer to it
createVars == <<formOpen, search, query, searching, options, listOpen, highlighted, organization, contacts,
                contact, asking, orgSheet, creating, submitted, known, created, steps, chosen, late>>

MaybeCompany == Offered \cup {NoCompany}
Submissions  == [organization : Offered, contact : MaybeCompany]

CreateTypeOK ==
    /\ {formOpen, listOpen, orgSheet, creating, late} \subseteq BOOLEAN
    /\ {search, query} \subseteq Texts /\ searching \subseteq Texts
    /\ options \in Seq(Offered) /\ highlighted \in 0..Cardinality(Offered)
    /\ {organization, contacts, contact, chosen} \subseteq MaybeCompany /\ asking \subseteq Offered
    /\ submitted \in Submissions \cup {NoCompany} /\ created \subseteq Submissions
    /\ known \subseteq Offered /\ steps \in 0..MaxCreateActions

CreateInit ==
    /\ formOpen = TRUE /\ search = "" /\ query = "" /\ searching = {""} /\ options = <<>>
    /\ listOpen = FALSE /\ highlighted = 0 /\ organization = NoCompany /\ contacts = NoCompany
    /\ contact = NoCompany /\ asking = {} /\ orgSheet = FALSE /\ creating = FALSE
    /\ submitted = NoCompany /\ known = Companies /\ created = {} /\ steps = 0
    /\ chosen = NoCompany /\ late = FALSE

-----------------------------------------------------------------------------
pickerVars == <<search, query, searching, options, listOpen, highlighted>>
choiceVars == <<organization, contacts, contact, asking>>
UserActs == steps < MaxCreateActions /\ formOpen /\ steps' = steps + 1

\* The clean-up of an effect makes the answers of its earlier requests void.
Superseded_Never(S) == S
Superseded(S) == {}

\* handleOrganizationChange, and the effect that loads the contacts of the organization.
HandleOrganizationChange(c) ==
    /\ organization' = c /\ contacts' = NoCompany /\ contact' = NoCompany
    /\ asking' = IF c = organization THEN asking
                 ELSE Superseded(asking) \cup IF c = NoCompany THEN {} ELSE {c}

\* The search box, which is there as long as nothing is chosen.
HandleSearchChange ==
    /\ UserActs /\ ~orgSheet /\ organization = NoCompany
    /\ search' \in Texts \ {search} /\ listOpen' = TRUE
    /\ UNCHANGED <<formOpen, query, searching, options, highlighted, choiceVars, orgSheet, creating,
                   submitted, known, created, chosen, late>>

Debounce ==
    /\ query # search /\ query' = search
    /\ searching' = Superseded(searching) \cup {search}
    /\ UNCHANGED <<formOpen, search, options, listOpen, highlighted, choiceVars, orgSheet, creating,
                   submitted, known, created, steps, chosen, late>>

\* The answer to a search.  After a failure the list is empty and the highlight stays.
Results(t) == SequenceOperators!SetToSeq({c \in known : Matches(c, t)})

ReceiveOptions(t) ==
    /\ searching' = searching \ {t}
    /\ \/ options' = Results(t) /\ highlighted' = 0
       \/ options' = <<>> /\ UNCHANGED highlighted
    /\ UNCHANGED <<formOpen, search, query, listOpen, choiceVars, orgSheet, creating, submitted, known,
                   created, steps, chosen, late>>

SelectOrganization(c) ==
    /\ HandleOrganizationChange(c) /\ chosen' = c
    /\ search' = Name(c) /\ listOpen' = FALSE

HandleCreate == listOpen' = FALSE /\ orgSheet' = TRUE /\ UNCHANGED <<search, choiceVars, chosen>>

\* The keys; a click elsewhere does what Escape does.  The entry after the last option opens the second sheet.
TotalOptions == Len(options) + 1
HighlightedNext_Off(step) == highlighted + step
HighlightedNext(step) == (highlighted + step) % TotalOptions

HandleKeyDown(key) ==
    /\ UserActs /\ organization = NoCompany /\ ~orgSheet
    /\ CASE ~listOpen /\ key \in {"ArrowDown", "Enter"} ->
              listOpen' = TRUE /\ UNCHANGED <<search, highlighted, choiceVars, orgSheet, chosen>>
         [] listOpen /\ key = "ArrowDown" ->
              /\ highlighted' = HighlightedNext(1)
              /\ UNCHANGED <<search, listOpen, choiceVars, orgSheet, chosen>>
         [] listOpen /\ key = "ArrowUp" ->
              /\ highlighted' = HighlightedNext(TotalOptions - 1)
              /\ UNCHANGED <<search, listOpen, choiceVars, orgSheet, chosen>>
         [] listOpen /\ key = "Enter" /\ highlighted < Len(options) ->
              SelectOrganization(options[highlighted + 1]) /\ UNCHANGED <<highlighted, orgSheet>>
         [] listOpen /\ key = "Enter" /\ highlighted = Len(options) ->
              HandleCreate /\ UNCHANGED highlighted
         [] listOpen /\ key = "Escape" ->
              listOpen' = FALSE /\ UNCHANGED <<search, highlighted, choiceVars, orgSheet, chosen>>
         [] OTHER -> FALSE                                               \* nothing happens
    /\ UNCHANGED <<formOpen, query, searching, options, creating, submitted, known, created, late>>

\* The mouse: pointing at an entry highlights it.
ClickOption(i) ==
    /\ UserActs /\ organization = NoCompany /\ ~orgSheet /\ listOpen /\ i < TotalOptions
    /\ highlighted' = i
    /\ IF i < Len(options) THEN SelectOrganization(options[i + 1]) /\ UNCHANGED orgSheet
       ELSE HandleCreate
    /\ UNCHANGED <<formOpen, query, searching, options, creating, submitted, known, created, late>>

ClearSelection ==
    /\ UserActs /\ ~orgSheet /\ organization # NoCompany
    /\ HandleOrganizationChange(NoCompany) /\ chosen' = NoCompany
    /\ search' = "" /\ listOpen' = TRUE
    /\ UNCHANGED <<formOpen, query, searching, options, highlighted, orgSheet, creating, submitted, known,
                   created, late>>

-----------------------------------------------------------------------------
\* The second sheet.  Its form is busy until the answer; closing it does not call the
\* request back.
SubmitOrganization ==
    /\ UserActs /\ orgSheet /\ ~creating /\ NewCompany \notin known
    /\ creating' = TRUE
    /\ UNCHANGED <<formOpen, pickerVars, choiceVars, orgSheet, submitted, known, created, chosen, late>>

CloseOrganization ==
    /\ orgSheet /\ orgSheet' = FALSE /\ late' = (late \/ creating)
    /\ UNCHANGED <<formOpen, pickerVars, choiceVars, creating, submitted, known, created, steps, chosen>>

\* The organization that was created becomes the one of the form, and the sheet is closed.
ReceiveOrganization ==
    /\ creating /\ creating' = FALSE
    /\ \/ /\ known' = known \cup {NewCompany} /\ orgSheet' = FALSE
          /\ HandleOrganizationChange(NewCompany)
          /\ chosen' = IF late THEN chosen ELSE NewCompany
       \/ UNCHANGED <<known, orgSheet, choiceVars, chosen>>
    /\ UNCHANGED <<formOpen, pickerVars, submitted, created, steps, late>>

-----------------------------------------------------------------------------
\* The contacts of an organization; its primary one is chosen.
ReceiveContacts(c) ==
    /\ asking' = asking \ {c}
    /\ contacts' \in {c, NoCompany} /\ contact' \in {contacts', NoCompany}
    /\ UNCHANGED <<formOpen, pickerVars, organization, orgSheet, creating, submitted, known, created,
                   steps, chosen, late>>

PickContact ==
    /\ UserActs /\ ~orgSheet /\ organization # NoCompany
    /\ contact' \in {contacts, NoCompany} \ {contact}
    /\ UNCHANGED <<formOpen, pickerVars, organization, contacts, asking, orgSheet, creating, submitted,
                   known, created, chosen, late>>

Submit ==
    /\ UserActs /\ ~orgSheet /\ submitted = NoCompany /\ organization # NoCompany
    /\ submitted' = [organization |-> organization, contact |-> contact]
    /\ UNCHANGED <<formOpen, pickerVars, choiceVars, orgSheet, creating, known, created, chosen, late>>

ReceiveSubmitted ==
    /\ submitted # NoCompany /\ submitted' = NoCompany
    /\ \/ /\ submitted.contact \in {submitted.organization, NoCompany}      \* the API checks it
          /\ created' = created \cup {submitted} /\ formOpen' = FALSE
       \/ UNCHANGED <<created, formOpen>>
    /\ UNCHANGED <<pickerVars, choiceVars, orgSheet, creating, known, steps, chosen, late>>

\* Closing and opening the sheet keeps what was filled in.
ToggleForm ==
    /\ ~orgSheet /\ steps < MaxCreateActions /\ steps' = steps + 1 /\ formOpen' = ~formOpen
    /\ UNCHANGED <<pickerVars, choiceVars, orgSheet, creating, submitted, known, created, chosen, late>>

CreateNext ==
    \/ HandleSearchChange \/ Debounce \/ ClearSelection \/ SubmitOrganization \/ CloseOrganization
    \/ ReceiveOrganization \/ PickContact \/ Submit \/ ReceiveSubmitted \/ ToggleForm
    \/ \E t \in searching : ReceiveOptions(t)
    \/ \E k \in {"ArrowDown", "ArrowUp", "Enter", "Escape"} : HandleKeyDown(k)
    \/ \E i \in 0..Len(options) : ClickOption(i)
    \/ \E c \in asking : ReceiveContacts(c)

CreateSpec == CreateInit /\ [][CreateNext]_createVars

-----------------------------------------------------------------------------
\* Properties.

\* What is submitted is what the user chose: the organization is the one last picked or
\* created, and the contact is one of its own, whatever the order of the answers.  Only an
\* organization created in a sheet that was closed meanwhile takes the place of the choice.
SubmittedIsChosen ==
    /\ contact # NoCompany => contact = organization
    /\ ~late => organization = chosen
=============================================================================
