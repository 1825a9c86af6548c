------------------------------ MODULE SheetsProofs -------------------------------
(* Theorems about the sheets of the web application: the sections of notes,          *)
(* attachments and areas, the sheet of an organization, the sheets that create a     *)
(* deal or a participation, and the sheet of a deal or a partner.  They hold for any *)
(* number of records and of actions of the user.                                     *)
EXTENDS EntitySections, OrganizationSheet, CreateSheets, Sheets, FiniteSetTheorems, TLAPS

-----------------------------------------------------------------------------
\* A section (EntitySections).

\* What the API has done and the list does not show yet.
Arrived  == IF adding # NoEntry /\ adding.step = "done" THEN {adding.entry} ELSE {}
Departed == IF dropping # NoEntry /\ dropping.step = "done" THEN {dropping.entry} ELSE {}

FilesAreStored == section = "attachments" => kept \subseteq objects

\* What is created or deleted while the list loads is among the entries that may be wrong,
\* and of the others the answer to the load has what the API has.
ListIsAwaited ==
    Early => /\ adding # NoEntry => adding.entry \in unsure
             /\ dropping # NoEntry => dropping.entry \in unsure
             /\ list.entries \subseteq unsure
             /\ listLoad.step = "read" => listLoad.entries \ unsure = kept \ unsure
             /\ section = "areas" => adding = NoEntry /\ list.status = "loading"

\* A loaded list differs from what the API has by the answers that are under way.
ListFollows ==
    ~Early => /\ kept \ unsure = (IF section = "areas" THEN list.entries \ Arrived
                                  ELSE (list.entries \cup Arrived) \ Departed) \ unsure
              /\ section = "areas" => list.status = "ready"
              /\ section # "areas" /\ adding # NoEntry => adding.entry \notin list.entries \ unsure
              /\ dropping # NoEntry => \/ dropping.entry \in unsure
                                       \/ dropping.entry \in list.entries /\ list.status = "ready"
AreasStay    == section = "areas" => dropping = NoEntry
HiddenIsNone == list.status # "ready" => list.entries = {}
SectionInv   == /\ SectionTypeOK /\ FilesAreStored /\ ListIsAwaited /\ ListFollows
                /\ AreasStay /\ HiddenIsNone

LEMMA SectionStarts == SectionInit => SectionInv
<1> SUFFICES ASSUME SectionInit PROVE SectionInv
  OBVIOUS
<1>1. SectionTypeOK
  <2>1. works \in 0..MaxSectionActions
    BY SectionBoundIsNat DEF SectionInit
  <2>2. list \in [status : {"loading", "error", "ready"}, entries : SUBSET Entries]
    BY DEF SectionInit
  <2>3. kept \subseteq Entries /\ objects \subseteq Entries
    BY DEF SectionInit
  <2> QED
    BY <2>1, <2>2, <2>3 DEF SectionInit, SectionTypeOK
<1>2. FilesAreStored
  BY DEF SectionInit, FilesAreStored
<1>3. ListIsAwaited /\ ListFollows
  BY DEF SectionInit, ListIsAwaited, ListFollows, Early
<1>4. AreasStay /\ HiddenIsNone
  BY DEF SectionInit, AreasStay, HiddenIsNone
<1> QED
  BY <1>1, <1>2, <1>3, <1>4 DEF SectionInv

LEMMA NextStepIsStep ==
    ASSUME NEW s \in Steps \ {"done", "failed"}
    PROVE  NextStep(s) \in Steps
BY DEF NextStep, Steps

LEMMA AddingStays ==
    ASSUME SectionTypeOK, AnswerAdding
    PROVE  /\ adding' \in [entry : Entries, step : Steps]
           /\ adding'.entry = adding.entry
           /\ adding' = [adding EXCEPT !.step = NextStep(@)] =>
                  adding'.step = NextStep(adding.step)
           /\ adding' = [adding EXCEPT !.step = "failed"] => adding'.step = "failed"
<1>1. adding \in [entry : Entries, step : Steps] /\ adding.step \in Steps \ {"done", "failed"}
  BY DEF SectionTypeOK, AnswerAdding
<1>2. CASE adding' = [adding EXCEPT !.step = NextStep(@)]
  BY <1>1, <1>2, NextStepIsStep
<1>3. CASE adding' = [adding EXCEPT !.step = "failed"]
  BY <1>1, <1>3 DEF Steps
<1> QED
  BY <1>2, <1>3 DEF AnswerAdding

LEMMA SectionNextTyped ==
    ASSUME SectionTypeOK, SectionNext
    PROVE  SectionTypeOK'
<1>1. CASE AnswerList
  BY <1>1 DEF SectionTypeOK, AnswerList
<1>2. CASE ReceiveList
  BY <1>2 DEF SectionTypeOK, ReceiveList
<1>3. CASE AnswerAdding
  <2>1. adding' \in [entry : Entries, step : Steps] /\ adding.entry \in Entries
    BY <1>3, AddingStays DEF SectionTypeOK, AnswerAdding
  <2> QED
    BY <1>3, <2>1 DEF SectionTypeOK, AnswerAdding
<1>4. CASE ReceiveAdding
  BY <1>4 DEF SectionTypeOK, ReceiveAdding, Added
<1>5. CASE AnswerDropping
  BY <1>5 DEF SectionTypeOK, AnswerDropping
<1>6. CASE ReceiveDropping
  BY <1>6 DEF SectionTypeOK, ReceiveDropping, Dropped
<1>7. ASSUME NEW e \in Entries, HandleSubmit(e) \/ HandleAssign(e) \/ HandleDeleteEntry(e)
      PROVE  SectionTypeOK'
  <2>1. works' \in 0..MaxSectionActions
    BY <1>7, SectionBoundIsNat DEF SectionTypeOK, HandleSubmit, HandleAssign, HandleDeleteEntry, Work
  <2>2. adding' \in [entry : Entries, step : Steps] \cup {NoEntry}
    BY <1>7 DEF SectionTypeOK, HandleSubmit, HandleAssign, HandleDeleteEntry, Steps
  <2>3. dropping' \in [entry : Entries, step : {"sent", "done", "failed"}] \cup {NoEntry}
    BY <1>7 DEF SectionTypeOK, HandleSubmit, HandleAssign, HandleDeleteEntry
  <2>4. unsure' \subseteq Entries
    BY <1>7 DEF SectionTypeOK, HandleSubmit, HandleAssign, HandleDeleteEntry
  <2>5. UNCHANGED <<section, list, kept, objects, listLoad>>
    BY <1>7 DEF HandleSubmit, HandleAssign, HandleDeleteEntry
  <2> QED
    BY <2>1, <2>2, <2>3, <2>4, <2>5 DEF SectionTypeOK
<1> QED
  BY <1>1, <1>2, <1>3, <1>4, <1>5, <1>6, <1>7 DEF SectionNext

LEMMA FilesStayStored ==
    ASSUME SectionInv, SectionNext
    PROVE  FilesAreStored'
<1> USE DEF SectionInv, SectionTypeOK, FilesAreStored
<1>1. CASE AnswerAdding
  BY <1>1 DEF AnswerAdding
<1>2. CASE AnswerDropping
  BY <1>2 DEF AnswerDropping
<1>3. CASE AnswerList \/ ReceiveList \/ ReceiveAdding \/ ReceiveDropping
  BY <1>3 DEF AnswerList, ReceiveList, ReceiveAdding, ReceiveDropping
<1>4. ASSUME NEW e \in Entries, HandleSubmit(e) \/ HandleAssign(e) \/ HandleDeleteEntry(e)
      PROVE  FilesAreStored'
  BY <1>4 DEF HandleSubmit, HandleAssign, HandleDeleteEntry
<1> QED
  BY <1>1, <1>2, <1>3, <1>4 DEF SectionNext

\* What the API makes of a step of a creation.
LEMMA AddingAnswered ==
    ASSUME SectionInv, AnswerAdding
    PROVE  /\ adding # NoEntry /\ adding' # NoEntry /\ adding'.entry = adding.entry /\ adding.step # "done"
           /\ unsure \subseteq unsure'
           /\ kept' \ unsure' = (IF adding'.step # "done" THEN kept
                                 ELSE IF section = "areas" THEN kept \ {adding.entry}
                                 ELSE kept \cup {adding.entry}) \ unsure'
<1> DEFINE e == adding.entry
           On   == adding' = [adding EXCEPT !.step = NextStep(@)]
           Fails == adding' = [adding EXCEPT !.step = "failed"]
<1>1. adding # NoEntry /\ adding' # NoEntry /\ adding'.entry = adding.entry
      /\ adding.step \in Steps \ {"done", "failed"}
  BY AddingStays, NoEntryIsNone DEF SectionInv, SectionTypeOK, AnswerAdding
<1>2. \/ /\ On /\ unsure' = unsure
         /\ kept' = IF adding.step # "confirm" THEN kept
                    ELSE IF section = "areas" THEN kept \ {e} ELSE kept \cup {e}
      \/ Fails /\ kept' = kept /\ unsure' = unsure
      \/ /\ Fails /\ unsure' = unsure \cup {e}
         /\ kept' = IF section = "areas" THEN kept \ {e} ELSE kept \cup {e}
  BY DEF AnswerAdding
<1>3. (On => adding'.step = NextStep(adding.step)) /\ (Fails => adding'.step = "failed")
  BY AddingStays DEF SectionInv
<1>4. NextStep(adding.step) = "done" <=> adding.step = "confirm"
  BY <1>1 DEF NextStep, Steps
<1> HIDE DEF On, Fails
<1> QED
  BY <1>1, <1>2, <1>3, <1>4

LEMMA ListNextFollows ==
    ASSUME SectionInv, SectionNext
    PROVE  ListIsAwaited' /\ ListFollows' /\ AreasStay' /\ HiddenIsNone'
<1> USE NoEntryIsNone DEF SectionInv, SectionTypeOK, ListIsAwaited, ListFollows, AreasStay, HiddenIsNone,
        Early, Arrived, Departed
<1>1. CASE AnswerList
  BY <1>1 DEF AnswerList
<1>2. CASE ReceiveList
  <2>1. /\ listLoad'.step = "over" /\ listLoad.step = "read" /\ listLoad.entries \ unsure = kept \ unsure
        /\ unsure' = unsure \cup (listLoad.entries \ list'.entries)
        /\ UNCHANGED <<kept, adding, dropping, section>>
    BY <1>2 DEF ReceiveList
  <2>2. \/ list' = [status |-> "ready", entries |-> listLoad.entries]
        \/ list' = [status |-> IF section = "areas" THEN "ready" ELSE "error", entries |-> {}]
    BY <1>2 DEF ReceiveList
  <2>3. /\ list'.entries \subseteq listLoad.entries
        /\ list'.status # "ready" => section # "areas" /\ list'.entries = {}
    BY <2>2
  <2>4. kept' \ unsure' = list'.entries \ unsure' /\ Arrived' \subseteq unsure' /\ Departed' \subseteq unsure'
    BY <2>1, <2>3
  <2>5. /\ adding' # NoEntry => adding'.entry \in unsure'
        /\ dropping' # NoEntry => dropping'.entry \in unsure'
    BY <2>1
  <2>6. ListFollows'
    <3>1. kept' \ unsure' = (IF section' = "areas" THEN list'.entries \ Arrived'
                             ELSE (list'.entries \cup Arrived') \ Departed') \ unsure'
      BY <2>4
    <3>2. section' = "areas" => list'.status = "ready"
      BY <2>1, <2>3
    <3> HIDE DEF Arrived, Departed
    <3> QED
      BY <2>5, <3>1, <3>2 DEF ListFollows
  <2>7. ListIsAwaited' /\ AreasStay' /\ HiddenIsNone'
    BY <2>1, <2>3
  <2> QED
    BY <2>6, <2>7
<1>3. CASE AnswerAdding
  <2>1. UNCHANGED <<section, list, listLoad, dropping>>
    BY <1>3 DEF AnswerAdding
  <2>2. /\ adding # NoEntry /\ adding' # NoEntry /\ adding'.entry = adding.entry /\ adding.step # "done"
        /\ unsure \subseteq unsure'
        /\ kept' \ unsure' = (IF adding'.step # "done" THEN kept
                              ELSE IF section = "areas" THEN kept \ {adding.entry}
                              ELSE kept \cup {adding.entry}) \ unsure'
    BY <1>3, AddingAnswered
  <2>3. Arrived = {} /\ Arrived' = (IF adding'.step = "done" THEN {adding.entry} ELSE {})
        /\ Departed' = Departed
    BY <2>1, <2>2
  <2>4. ListIsAwaited'
    BY <2>1, <2>2
  <2>5. ListFollows'
    <3> SUFFICES ASSUME ~Early' PROVE ListFollows'
      BY DEF ListFollows
    <3>1. ~Early /\ section' = section /\ list' = list
      BY <2>1
    <3>2. kept' \ unsure' = (IF section = "areas" THEN list.entries \ Arrived'
                             ELSE (list.entries \cup Arrived') \ Departed') \ unsure'
      <4>1. CASE section = "areas"
        BY <2>2, <2>3, <3>1, <4>1
      <4>2. CASE section # "areas"
        <5>1. dropping # NoEntry /\ dropping.entry = adding.entry => adding.entry \in unsure
          BY <2>2, <3>1, <4>2
        <5>2. Departed \cap {adding.entry} \subseteq unsure
          BY <5>1
        <5>3. kept \ unsure = (list.entries \ Departed) \ unsure
          BY <2>3, <3>1, <4>2
        <5> QED
          BY <2>2, <2>3, <4>2, <5>2, <5>3
      <4> QED
        BY <4>1, <4>2
    <3> QED
      BY <2>1, <2>2, <3>1, <3>2
  <2> QED
    BY <2>1, <2>4, <2>5
<1>4. CASE ReceiveAdding
  <2>1. /\ adding # NoEntry /\ adding.step \in {"done", "failed"} /\ adding' = NoEntry
        /\ UNCHANGED <<section, kept, dropping>>
    BY <1>4 DEF ReceiveAdding
  <2>2. CASE adding.step = "failed"
    BY <1>4, <2>1, <2>2 DEF ReceiveAdding
  <2>3. CASE adding.step = "done" /\ section = "areas"
    BY <1>4, <2>1, <2>3 DEF ReceiveAdding
  <2>4. CASE adding.step = "done" /\ section # "areas"
    <3>1. list' = [status |-> "ready", entries |-> Added(adding.entry)] /\ UNCHANGED <<listLoad, unsure>>
      BY <1>4, <2>4 DEF ReceiveAdding
    <3>2. Added(adding.entry) = list.entries \cup {adding.entry}
      BY DEF Added
    <3>3. Arrived = {adding.entry} /\ Arrived' = {} /\ Departed' = Departed
      BY <2>1, <2>4
    <3>4. ListIsAwaited'
      BY <2>1, <2>4, <3>1, <3>2
    <3>5. ListFollows'
      BY <2>1, <2>4, <3>1, <3>2, <3>3
    <3> QED
      BY <2>1, <3>1, <3>4, <3>5
  <2> QED
    BY <2>1, <2>2, <2>3, <2>4
<1>5. CASE AnswerDropping
  <2>1. /\ dropping # NoEntry /\ dropping.step = "sent" /\ UNCHANGED <<section, list, listLoad, adding>>
        /\ dropping \in [entry : Entries, step : {"sent", "done", "failed"}]
    BY <1>5 DEF AnswerDropping
  <2>2. dropping' \in [entry : Entries, step : {"done", "failed"}] /\ dropping'.entry = dropping.entry
    BY <1>5, <2>1 DEF AnswerDropping
  <2>3. dropping' # NoEntry
    BY <2>2 DEF Steps
  <2>4. \/ dropping'.step = "done" /\ kept' = kept \ {dropping.entry} /\ unsure' = unsure
        \/ dropping'.step = "failed" /\ kept' \ unsure' = kept \ unsure' /\ unsure \subseteq unsure'
    BY <1>5, <2>1 DEF AnswerDropping
  <2>5. Departed = {} /\ Arrived' = Arrived
        /\ Departed' = (IF dropping'.step = "done" THEN {dropping.entry} ELSE {})
    BY <2>1, <2>2, <2>3
  <2>6. section # "areas"
    BY <2>1
  <2>7. ListIsAwaited'
    BY <2>1, <2>2, <2>3, <2>4, <2>6
  <2>8. ListFollows'
    BY <2>1, <2>2, <2>3, <2>4, <2>5, <2>6
  <2> QED
    BY <2>1, <2>6, <2>7, <2>8
<1>6. CASE ReceiveDropping
  <2>1. /\ dropping # NoEntry /\ dropping.step # "sent" /\ dropping' = NoEntry
        /\ list' = (IF dropping.step = "done" THEN Dropped(dropping.entry) ELSE list)
        /\ UNCHANGED <<section, kept, listLoad, adding, unsure>>
    BY <1>6 DEF ReceiveDropping
  <2>2. /\ list'.status = list.status
        /\ list'.entries = IF dropping.step = "done" THEN list.entries \ {dropping.entry} ELSE list.entries
    BY <2>1 DEF Dropped
  <2>3. Arrived' = Arrived /\ Departed' = {}
        /\ Departed = (IF dropping.step = "done" THEN {dropping.entry} ELSE {})
    BY <2>1
  <2>4. ListIsAwaited'
    BY <2>1, <2>2
  <2>5. ASSUME ~Early PROVE ListFollows'
    <3>1. section # "areas"
      BY <2>1
    <3>2. Arrived \cap {dropping.entry} \subseteq unsure
      BY <2>1, <2>5, <3>1
    <3>3. kept \ unsure = ((list.entries \cup Arrived) \ Departed) \ unsure
      BY <2>5, <3>1
    <3>4. kept' \ unsure' = ((list'.entries \cup Arrived') \ Departed') \ unsure'
      BY <2>1, <2>2, <2>3, <3>2, <3>3
    <3> QED
      BY <2>1, <2>2, <2>5, <3>1, <3>4
  <2> QED
    BY <2>1, <2>2, <2>4, <2>5
<1>7. ASSUME NEW e \in Entries, HandleSubmit(e)
      PROVE  ListIsAwaited' /\ ListFollows' /\ AreasStay' /\ HiddenIsNone'
  <2>1. /\ adding' # NoEntry /\ adding'.entry = e /\ adding'.step # "done" /\ adding = NoEntry
        /\ section # "areas" /\ e \notin list.entries
        /\ unsure' = (IF Early THEN unsure \cup {e} ELSE unsure)
        /\ UNCHANGED <<section, list, kept, listLoad, dropping>>
    BY <1>7 DEF HandleSubmit, Steps
  <2>2. Arrived' = {} /\ Arrived = {} /\ Departed' = Departed
    BY <2>1
  <2> QED
    BY <2>1, <2>2
<1>8. ASSUME NEW e \in Entries, HandleAssign(e)
      PROVE  ListIsAwaited' /\ ListFollows' /\ AreasStay' /\ HiddenIsNone'
  <2>1. adding' # NoEntry /\ adding'.step = "confirm" /\ adding = NoEntry
    BY <1>8 DEF HandleAssign, Steps
  <2>2. UNCHANGED <<section, list, kept, listLoad, dropping, unsure>> /\ section = "areas"
        /\ list.status = "ready"
    BY <1>8 DEF HandleAssign, Assignable
  <2>3. Arrived' = {} /\ Arrived = {} /\ dropping = NoEntry
    BY <2>1, <2>2
  <2>4. e \in list.entries
    BY <1>8, <2>2 DEF HandleAssign, Assignable
  <2> QED
    BY <2>1, <2>2, <2>3, <2>4
<1>9. ASSUME NEW e \in Entries, HandleDeleteEntry(e)
      PROVE  ListIsAwaited' /\ ListFollows' /\ AreasStay' /\ HiddenIsNone'
  <2>1. /\ dropping' # NoEntry /\ dropping'.entry = e /\ dropping'.step = "sent" /\ dropping = NoEntry
        /\ section # "areas" /\ e \in list.entries /\ list.status = "ready"
        /\ unsure' = (IF Early THEN unsure \cup {e} ELSE unsure)
        /\ UNCHANGED <<section, list, kept, listLoad, adding>>
    BY <1>9 DEF HandleDeleteEntry
  <2>2. Departed' = {} /\ Departed = {} /\ Arrived' = Arrived
    BY <2>1
  <2> QED
    BY <2>1, <2>2
<1> QED
  BY <1>1, <1>2, <1>3, <1>4, <1>5, <1>6, <1>7, <1>8, <1>9 DEF SectionNext

LEMMA SectionInvariant == SectionSpec => []SectionInv
<1>1. ASSUME SectionInv, [SectionNext]_sectionVars
      PROVE  SectionInv'
  <2>1. CASE SectionNext
    <3>1. SectionTypeOK' /\ FilesAreStored'
      BY <1>1, <2>1, SectionNextTyped, FilesStayStored DEF SectionInv
    <3>2. ListIsAwaited' /\ ListFollows' /\ AreasStay' /\ HiddenIsNone'
      BY <1>1, <2>1, ListNextFollows
    <3> QED
      BY <3>1, <3>2 DEF SectionInv
  <2>2. CASE UNCHANGED sectionVars
    BY <1>1, <2>2 DEF SectionInv, sectionVars, SectionTypeOK, FilesAreStored, ListIsAwaited, ListFollows,
        AreasStay, HiddenIsNone, Early, Arrived, Departed
  <2> QED
    BY <1>1, <2>1, <2>2
<1> QED
  BY <1>1, SectionStarts, PTL DEF SectionSpec

\* What a section has is of its type: the list, the files and the requests under way.
THEOREM SectionTyped == SectionSpec => []SectionTypeOK
BY SectionInvariant, PTL DEF SectionInv

\* When all is answered a section lists what the API has, and every attachment it lists has
\* its file, in any order of the load, creations and deletions, refused or lost, except for
\* the very entries that were changed while the list was loading, whose answer was lost or
\* that a failed load left out.
THEOREM SectionAgrees == SectionSpec => []SettledSectionAgrees
<1>1. SectionInv => SettledSectionAgrees
  BY DEF SectionInv, SettledSectionAgrees, ListFollows, FilesAreStored, Arrived, Departed, Early
<1> QED
  BY <1>1, SectionInvariant, PTL

-----------------------------------------------------------------------------
\* The sheet of an organization (OrganizationSheet).

OnePrimaryIn(l) == \A p, q \in Persons : l[p] = "primary" /\ l[q] = "primary" => p = q

\* Nothing is sent before the organization is loaded.
LoadedFirst ==
    /\ details.status = "loading" <=> detailLoad.step # "over"
    /\ details.status = "loading" =>
           /\ saving = NoPerson /\ changing = NoPerson /\ removing = "no" /\ org # "gone"
           /\ detailLoad.step = "loaded" => detailLoad.name = org /\ detailLoad.contacts = people

\* What the sheet shows differs from what the API has by the one answer that is under way.
NameFollows ==
    org = IF saving # NoPerson /\ saving.step = "done" THEN saving.name ELSE details.name
PeopleFollow ==
    people = IF changing # NoPerson /\ changing.step = "done" THEN Apply(details.contacts, changing)
             ELSE details.contacts
RequestsKnowPeople ==
    /\ saving # NoPerson => changing = NoPerson /\ saving.contacts = details.contacts
    /\ changing # NoPerson => changing.contacts = details.contacts
OrgFollows ==
    ~mixed /\ details.status = "ready" /\ removing # "done" =>
        NameFollows /\ PeopleFollow /\ RequestsKnowPeople

OrgInv == OrganizationTypeOK /\ OnePrimaryIn(people) /\ LoadedFirst /\ OrgFollows

LEMMA AtMostOnePrimary ==
    ASSUME NEW l \in Lists
    PROVE  Cardinality(Primaries(l)) <= 1 <=> OnePrimaryIn(l)
<1>1. IsFiniteSet(Primaries(l))
  <2>1. Primaries(l) \in SUBSET Persons
    BY DEF Primaries
  <2>2. IsFiniteSet(Persons)
    BY PersonsAreFinite
  <2> QED
    BY <2>1, <2>2, FS_Subset
<1>2. ASSUME OnePrimaryIn(l)
      PROVE  Cardinality(Primaries(l)) <= 1
  <2>1. CASE Primaries(l) = {}
    BY <2>1, FS_EmptySet
  <2>2. CASE Primaries(l) # {}
    <3>1. PICK p \in Primaries(l) : TRUE
      BY <2>2
    <3>2. Primaries(l) = {p}
      BY <1>2, <3>1 DEF Primaries, OnePrimaryIn
    <3> QED
      BY <3>2, FS_Singleton
  <2> QED
    BY <2>1, <2>2
<1>3. ASSUME Cardinality(Primaries(l)) <= 1, NEW p \in Persons, NEW q \in Persons,
             l[p] = "primary", l[q] = "primary", p # q
      PROVE  FALSE
  <2>1. {p} \subseteq Primaries(l) /\ {p} # Primaries(l)
    BY <1>3 DEF Primaries
  <2>2. Cardinality({p}) <= Cardinality(Primaries(l)) /\ Cardinality({p}) # Cardinality(Primaries(l))
    BY <1>1, <2>1, FS_Subset
  <2>3. Cardinality({p}) = 1 /\ Cardinality(Primaries(l)) \in Nat
    BY <1>1, FS_Singleton, FS_CardinalityType
  <2> QED
    BY <1>3, <2>2, <2>3
<1> QED
  BY <1>2, <1>3 DEF OnePrimaryIn

LEMMA OrgStarts == OrganizationInit => OrgInv
<1> SUFFICES ASSUME OrganizationInit PROVE OrgInv
  OBVIOUS
<1>1. OrganizationTypeOK
  <2>1. Nobody \in Lists /\ people \in Lists
    BY DEF OrganizationInit, Nobody, Lists
  <2>2. details \in Details /\ detailLoad \in DetailLoads
    BY <2>1 DEF OrganizationInit, Details, Blank, DetailLoads, Names
  <2>3. deeds \in 0..MaxOrganizationActions
    BY OrganizationBoundIsNat DEF OrganizationInit
  <2> QED
    BY <2>1, <2>2, <2>3 DEF OrganizationInit, OrganizationTypeOK, Names
<1>2. OnePrimaryIn(people)
  <2>1. people \in {l \in Lists : Cardinality(Primaries(l)) <= 1}
    BY DEF OrganizationInit
  <2>2. people \in Lists /\ Cardinality(Primaries(people)) <= 1
    BY <2>1
  <2> QED
    BY <2>2, AtMostOnePrimary
<1>3. LoadedFirst
  BY DEF OrganizationInit, LoadedFirst, Blank
<1>4. OrgFollows
  BY DEF OrganizationInit, OrgFollows, Blank
<1> QED
  BY <1>1, <1>2, <1>3, <1>4 DEF OrgInv

LEMMA ApplyIsList ==
    ASSUME NEW l \in Lists, NEW c \in Changes
    PROVE  Apply(l, c) \in Lists
BY DEF Apply, ApplyPrimary, Lists, Changes

LEMMA CarriedIsApply ==
    ASSUME people \in Lists, changing \in Changes
    PROVE  Carried = Apply(people, changing)
<1> DEFINE l == people
           p == changing.person
<1>1. p \in Persons /\ l = [q \in Persons |-> l[q]]
  BY DEF Lists, Changes
<1>2. CASE changing.of = "delete"
  BY <1>2 DEF Carried, Apply
<1>3. CASE changing.of # "delete" /\ changing.isPrimary
  BY <1>1, <1>3 DEF Carried, Apply, ApplyPrimary, Mark
<1>4. CASE changing.of # "delete" /\ ~changing.isPrimary
  <2>1. [l EXCEPT ![p] = "plain"] = [q \in Persons |-> IF q = p THEN "plain" ELSE l[q]]
    BY <1>1
  <2> QED
    BY <1>4, <2>1 DEF Carried, Apply, Mark
<1> QED
  BY <1>2, <1>3, <1>4

LEMMA OrgNextTyped ==
    ASSUME OrganizationTypeOK, OrganizationNext
    PROVE  OrganizationTypeOK'
<1> USE DEF OrganizationTypeOK
<1>1. CASE AnswerDetail
  BY <1>1 DEF AnswerDetail, DetailLoads, Names
<1>2. CASE ReceiveDetail
  BY <1>2 DEF ReceiveDetail, DetailLoads, Details, Blank, Names, Nobody, Lists
<1>3. CASE SetDraft
  <2>1. deeds' \in 0..MaxOrganizationActions
    BY <1>3, OrganizationBoundIsNat DEF SetDraft, Deed
  <2> QED
    BY <1>3, <2>1 DEF SetDraft, Details
<1>4. CASE CancelDraft
  BY <1>4 DEF CancelDraft, Details
<1>5. CASE SaveDetails
  <2>1. deeds' \in 0..MaxOrganizationActions
    BY <1>5, OrganizationBoundIsNat DEF SaveDetails, Deed
  <2> QED
    BY <1>5, <2>1 DEF SaveDetails, Details, Savings
<1>6. CASE AnswerSave
  BY <1>6 DEF AnswerSave, Savings
<1>7. CASE ReceiveSave
  BY <1>7 DEF ReceiveSave, Savings, Details
<1>8. ASSUME NEW of \in {"add", "edit", "primary", "delete"}, NEW p \in Persons, NEW b \in BOOLEAN,
             Change(of, p, b)
      PROVE  OrganizationTypeOK'
  <2>1. deeds' \in 0..MaxOrganizationActions
    BY <1>8, OrganizationBoundIsNat DEF Change, Deed
  <2>2. details.contacts \in Lists
    BY DEF Details
  <2> QED
    BY <1>8, <2>1, <2>2 DEF Change, Changes
<1>9. ASSUME NEW p \in Persons, StartEdit(p)
      PROVE  OrganizationTypeOK'
  <2>1. deeds' \in 0..MaxOrganizationActions
    BY <1>9, OrganizationBoundIsNat DEF StartEdit, Deed
  <2> QED
    BY <1>9, <2>1 DEF StartEdit
<1>10. CASE AnswerChangeOfContact
  <2>1. changing \in Changes
    BY <1>10 DEF AnswerChangeOfContact
  <2>2. Carried \in Lists
    BY <2>1, ApplyIsList, CarriedIsApply
  <2>3. changing' \in Changes
    BY <1>10, <2>1 DEF AnswerChangeOfContact, Changes
  <2>4. people' \in Lists /\ mixed' \in BOOLEAN
    BY <1>10, <2>2 DEF AnswerChangeOfContact
  <2> QED
    BY <1>10, <2>3, <2>4 DEF AnswerChangeOfContact
<1>11. CASE ReceiveChangeOfContact
  <2>1. changing \in Changes /\ changing.contacts \in Lists
    BY <1>11 DEF ReceiveChangeOfContact, Changes
  <2>2. Apply(changing.contacts, changing) \in Lists
    BY <2>1, ApplyIsList
  <2>3. details' \in Details
    BY <1>11, <2>2 DEF ReceiveChangeOfContact, Details
  <2> QED
    BY <1>11, <2>3 DEF ReceiveChangeOfContact
<1>12. CASE DeleteOrganization
  <2>1. deeds' \in 0..MaxOrganizationActions
    BY <1>12, OrganizationBoundIsNat DEF DeleteOrganization, Deed
  <2> QED
    BY <1>12, <2>1 DEF DeleteOrganization
<1>13. CASE AnswerDelete
  BY <1>13 DEF AnswerDelete, Nobody, Lists
<1>14. CASE ReceiveDelete
  BY <1>14 DEF ReceiveDelete, Details
<1> QED
  BY <1>1, <1>2, <1>3, <1>4, <1>5, <1>6, <1>7, <1>8, <1>9, <1>10, <1>11, <1>12, <1>13, <1>14
  DEF OrganizationNext, HandleAdd, HandleSaveEdit, HandleSetPrimary, HandleDeleteContact

LEMMA ApplyKeepsOnePrimary ==
    ASSUME NEW l \in Lists, NEW c \in Changes, OnePrimaryIn(l)
    PROVE  OnePrimaryIn(Apply(l, c))
<1>1. c.person \in Persons
  BY DEF Changes
<1>2. CASE c.of = "delete" \/ ~c.isPrimary
  <2>1. \A q \in Persons : Apply(l, c)[q] = "primary" => l[q] = "primary"
    BY <1>1, <1>2 DEF Apply, Lists
  <2> QED
    BY <2>1 DEF OnePrimaryIn
<1>3. CASE c.of # "delete" /\ c.isPrimary
  <2>1. \A q \in Persons : Apply(l, c)[q] = "primary" => q = c.person
    BY <1>3 DEF Apply, ApplyPrimary
  <2> QED
    BY <2>1 DEF OnePrimaryIn
<1> QED
  BY <1>2, <1>3

LEMMA OnePrimaryStays ==
    ASSUME OrgInv, OrganizationNext
    PROVE  OnePrimaryIn(people')
<1>1. CASE UNCHANGED people
  BY <1>1 DEF OrgInv
<1>2. CASE AnswerChangeOfContact
  <2>1. changing \in Changes /\ people \in Lists
    BY <1>2 DEF AnswerChangeOfContact, OrgInv, OrganizationTypeOK
  <2>2. CASE people' = Carried
    BY <2>1, <2>2, CarriedIsApply, ApplyKeepsOnePrimary DEF OrgInv
  <2> QED
    BY <1>1, <1>2, <2>2 DEF AnswerChangeOfContact
<1>3. CASE AnswerDelete
  <2>1. OnePrimaryIn(Nobody)
    BY DEF OnePrimaryIn, Nobody
  <2> QED
    BY <1>1, <1>3, <2>1 DEF AnswerDelete
<1> QED
  BY <1>1, <1>2, <1>3 DEF OrganizationNext, AnswerDetail, ReceiveDetail, SetDraft, CancelDraft, SaveDetails,
     AnswerSave, ReceiveSave, HandleAdd, StartEdit, HandleSaveEdit, HandleSetPrimary, HandleDeleteContact, Change,
     ReceiveChangeOfContact, DeleteOrganization, ReceiveDelete

LEMMA LoadedFirstStays ==
    ASSUME OrgInv, OrganizationNext
    PROVE  LoadedFirst'
<1> USE DEF OrgInv, OrganizationTypeOK, LoadedFirst
<1>1. CASE AnswerDetail
  BY <1>1 DEF AnswerDetail
<1>2. CASE ReceiveDetail
  <2>1. detailLoad'.step = "over"
    BY <1>2 DEF ReceiveDetail, DetailLoads
  <2>2. details'.status # "loading"
    BY <1>2 DEF ReceiveDetail, Blank
  <2> QED
    BY <2>1, <2>2
<1>3. ASSUME details.status # "loading", details'.status # "loading", UNCHANGED detailLoad
      PROVE  LoadedFirst'
  BY <1>3
<1>4. CASE \/ SetDraft \/ CancelDraft \/ SaveDetails \/ DeleteOrganization
           \/ \E p \in Persons : HandleAdd(p) \/ StartEdit(p) \/ HandleSaveEdit(p) \/ HandleSetPrimary(p)
                                 \/ HandleDeleteContact(p)
  <2>1. details.status = "ready" /\ UNCHANGED detailLoad
    BY <1>4 DEF SetDraft, CancelDraft, SaveDetails, DeleteOrganization, HandleAdd, StartEdit, HandleSaveEdit,
        HandleSetPrimary, HandleDeleteContact, Change, Deed
  <2>2. details'.status = details.status
    BY <1>4 DEF SetDraft, CancelDraft, SaveDetails, DeleteOrganization, HandleAdd, StartEdit, HandleSaveEdit,
        HandleSetPrimary, HandleDeleteContact, Change, Details
  <2> QED
    BY <1>3, <2>1, <2>2
<1>5. CASE AnswerSave \/ ReceiveSave \/ AnswerChangeOfContact \/ ReceiveChangeOfContact
  <2>1. details.status # "loading" /\ UNCHANGED detailLoad
    BY <1>5 DEF AnswerSave, ReceiveSave, AnswerChangeOfContact, ReceiveChangeOfContact
  <2>2. details'.status = details.status
    BY <1>5 DEF AnswerSave, ReceiveSave, AnswerChangeOfContact, ReceiveChangeOfContact, Details
  <2> QED
    BY <1>3, <2>1, <2>2
<1>6. CASE AnswerDelete \/ ReceiveDelete
  <2>1. details.status # "loading" /\ UNCHANGED detailLoad
    BY <1>6 DEF AnswerDelete, ReceiveDelete
  <2>2. details'.status \in {details.status, "closed"}
    BY <1>6 DEF AnswerDelete, ReceiveDelete, Details
  <2> QED
    BY <1>3, <2>1, <2>2
<1> QED
  BY <1>1, <1>2, <1>4, <1>5, <1>6 DEF OrganizationNext

\* A step that the sheet takes while it is loaded and remains so.
LEMMA OrgNextFollows ==
    ASSUME OrgInv, OrganizationNext, ~mixed', details'.status = "ready", removing' # "done"
    PROVE  NameFollows' /\ PeopleFollow' /\ RequestsKnowPeople'
<1> USE NoPersonIsNone
<1> DEFINE Follow == NameFollows /\ PeopleFollow /\ RequestsKnowPeople
<1>1. ~mixed
  BY DEF OrgInv, OrganizationTypeOK, OrganizationNext, AnswerDetail, ReceiveDetail, SetDraft, CancelDraft,
     SaveDetails, AnswerSave, ReceiveSave, HandleAdd, StartEdit, HandleSaveEdit, HandleSetPrimary,
     HandleDeleteContact, Change, AnswerChangeOfContact, ReceiveChangeOfContact, DeleteOrganization,
     AnswerDelete, ReceiveDelete
<1>2. details.status = "ready" /\ removing # "done" => Follow
  BY <1>1 DEF OrgInv, OrgFollows
<1>3. details \in Details
  BY DEF OrgInv, OrganizationTypeOK
<1>4. ASSUME Follow, UNCHANGED <<org, people, saving, changing>>,
             details'.name = details.name, details'.contacts = details.contacts
      PROVE  Follow'
  BY <1>4 DEF NameFollows, PeopleFollow, RequestsKnowPeople
<1>5. CASE AnswerDetail
  BY <1>2, <1>4, <1>5 DEF AnswerDetail
<1>6. CASE ReceiveDetail
  <2>1. /\ org = detailLoad.name /\ people = detailLoad.contacts /\ saving = NoPerson /\ changing = NoPerson
    BY <1>6 DEF ReceiveDetail, OrgInv, LoadedFirst
  <2>2. UNCHANGED <<org, people, saving, changing>>
    BY <1>6 DEF ReceiveDetail
  <2>3. details'.name = detailLoad.name /\ details'.contacts = detailLoad.contacts
    BY <1>6 DEF ReceiveDetail, Blank
  <2> QED
    BY <2>1, <2>2, <2>3 DEF NameFollows, PeopleFollow, RequestsKnowPeople
<1>7. CASE SetDraft \/ CancelDraft
  <2>1. details.status = "ready" /\ removing # "done"
    BY <1>7 DEF SetDraft, CancelDraft, Deed
  <2>2. details'.name = details.name /\ details'.contacts = details.contacts
    BY <1>3, <1>7 DEF SetDraft, CancelDraft, Details
  <2> QED
    BY <1>2, <1>4, <1>7, <2>1, <2>2 DEF SetDraft, CancelDraft
<1>8. CASE SaveDetails
  <2>1. Follow /\ saving = NoPerson
    BY <1>2, <1>8 DEF SaveDetails, Deed
  <2>2. changing = NoPerson
    BY <1>8 DEF SaveDetails, OrgInv, OrganizationTypeOK
  <2>3. saving'.step = "sent" /\ saving'.contacts = details.contacts
        /\ UNCHANGED <<details, org, people, changing>>
    BY <1>8 DEF SaveDetails
  <2> QED
    BY <2>1, <2>2, <2>3 DEF NameFollows, PeopleFollow, RequestsKnowPeople
<1>9. CASE AnswerSave
  <2>1. saving \in Savings /\ saving # NoPerson
    BY <1>9 DEF AnswerSave, OrgInv, OrganizationTypeOK
  <2>2. Follow /\ changing = NoPerson /\ saving.step = "sent"
    BY <1>2, <1>9, <2>1 DEF AnswerSave, RequestsKnowPeople
  <2>3. saving' \in Savings /\ saving'.name = saving.name /\ saving'.contacts = saving.contacts
    BY <1>9, <2>1 DEF AnswerSave, Savings
  <2>4. saving' # NoPerson
    BY <2>3
  <2>5. \/ saving'.step = "done" /\ org' = saving.name
        \/ saving'.step = "failed" /\ UNCHANGED org
    BY <1>9, <2>1 DEF AnswerSave, Savings
  <2>6. UNCHANGED <<details, people, changing>>
    BY <1>9 DEF AnswerSave
  <2>7. NameFollows'
    BY <2>2, <2>3, <2>4, <2>5, <2>6 DEF NameFollows
  <2>8. PeopleFollow'
    BY <2>2, <2>6 DEF PeopleFollow
  <2>9. RequestsKnowPeople'
    BY <2>1, <2>2, <2>3, <2>6 DEF RequestsKnowPeople
  <2> QED
    BY <2>7, <2>8, <2>9
<1>10. CASE ReceiveSave
  <2>1. saving # NoPerson /\ details.status = "ready" /\ removing # "done" /\ saving.step # "sent"
    BY <1>3, <1>10 DEF ReceiveSave, Details
  <2>2. Follow /\ changing = NoPerson /\ saving.contacts = details.contacts
    BY <1>2, <2>1 DEF RequestsKnowPeople
  <2>3. saving' = NoPerson /\ UNCHANGED <<org, people, changing>>
    BY <1>10 DEF ReceiveSave
  <2>4. saving.step \in {"done", "failed"}
    BY <2>1 DEF OrgInv, OrganizationTypeOK, Savings
  <2>5. /\ details'.name = IF saving.step = "done" THEN saving.name ELSE details.name
        /\ details'.contacts = details.contacts
    BY <1>3, <1>10, <2>1, <2>2, <2>4 DEF ReceiveSave, Details
  <2> QED
    BY <2>1, <2>2, <2>3, <2>5 DEF NameFollows, PeopleFollow, RequestsKnowPeople
<1>11. ASSUME NEW of \in {"add", "edit", "primary", "delete"}, NEW p \in Persons, NEW b \in BOOLEAN,
              Change(of, p, b)
       PROVE  Follow'
  <2>1. Follow /\ changing = NoPerson
    BY <1>2, <1>11 DEF Change, Deed
  <2>2. saving = NoPerson
    BY <1>11 DEF Change, OrgInv, OrganizationTypeOK
  <2>3. changing'.step = "sent" /\ changing'.contacts = details.contacts
        /\ UNCHANGED <<details, org, people, saving>>
    BY <1>11 DEF Change
  <2> QED
    BY <2>1, <2>2, <2>3 DEF NameFollows, PeopleFollow, RequestsKnowPeople
<1>12. ASSUME NEW p \in Persons, StartEdit(p)
       PROVE  Follow'
  BY <1>2, <1>4, <1>12 DEF StartEdit, Deed
<1>13. CASE AnswerChangeOfContact
  <2>1. changing \in Changes /\ changing # NoPerson /\ changing.step = "sent"
    BY <1>13 DEF AnswerChangeOfContact, OrgInv, OrganizationTypeOK
  <2>2. Follow /\ saving = NoPerson /\ changing.contacts = details.contacts /\ people = details.contacts
    BY <1>2, <1>13, <2>1 DEF AnswerChangeOfContact, RequestsKnowPeople, PeopleFollow
  <2>3. /\ changing' \in Changes /\ changing'.contacts = changing.contacts /\ changing'.of = changing.of
        /\ changing'.person = changing.person /\ changing'.isPrimary = changing.isPrimary
    BY <1>13, <2>1 DEF AnswerChangeOfContact, Changes
  <2>4. changing' # NoPerson
    BY <2>3
  <2>5. Carried = Apply(details.contacts, changing)
    <3>1. people \in Lists
      BY DEF OrgInv, OrganizationTypeOK
    <3> QED
      BY <2>1, <2>2, <3>1, CarriedIsApply
  <2>6. Apply(details.contacts, changing)' = Apply(details.contacts, changing)
    BY <1>13, <2>3 DEF AnswerChangeOfContact, Apply
  <2>7. \/ changing'.step = "done" /\ people' = Carried
        \/ changing'.step = "failed" /\ UNCHANGED people
    BY <1>13, <2>1 DEF AnswerChangeOfContact, Changes
  <2>8. UNCHANGED <<details, org, saving>>
    BY <1>13 DEF AnswerChangeOfContact
  <2> QED
    BY <2>2, <2>3, <2>4, <2>5, <2>6, <2>7, <2>8 DEF NameFollows, PeopleFollow, RequestsKnowPeople
<1>14. CASE ReceiveChangeOfContact
  <2>1. changing # NoPerson /\ details.status = "ready" /\ removing # "done" /\ changing.step # "sent"
    BY <1>3, <1>14 DEF ReceiveChangeOfContact, Details
  <2>2. Follow /\ saving = NoPerson /\ changing.contacts = details.contacts
    BY <1>2, <2>1 DEF RequestsKnowPeople
  <2>3. changing' = NoPerson /\ UNCHANGED <<org, people, saving>>
    BY <1>14 DEF ReceiveChangeOfContact
  <2>4. changing.step \in {"done", "failed"}
    BY <2>1 DEF OrgInv, OrganizationTypeOK, Changes
  <2>5. /\ details'.name = details.name
        /\ details'.contacts = IF changing.step = "done" THEN Apply(details.contacts, changing)
                               ELSE details.contacts
    BY <1>3, <1>14, <2>1, <2>2, <2>4 DEF ReceiveChangeOfContact, Details
  <2> QED
    BY <2>1, <2>2, <2>3, <2>5 DEF NameFollows, PeopleFollow, RequestsKnowPeople
<1>15. CASE DeleteOrganization
  BY <1>2, <1>4, <1>15 DEF DeleteOrganization, Deed
<1>16. CASE AnswerDelete
  BY <1>2, <1>4, <1>16 DEF AnswerDelete
<1>17. CASE ReceiveDelete
  <2>1. removing # "done" /\ UNCHANGED details
    BY <1>3, <1>17 DEF ReceiveDelete, Details
  <2> QED
    BY <1>2, <1>4, <1>17, <2>1 DEF ReceiveDelete
<1> QED
  BY <1>5, <1>6, <1>7, <1>8, <1>9, <1>10, <1>11, <1>12, <1>13, <1>14, <1>15, <1>16, <1>17
  DEF OrganizationNext, HandleAdd, HandleSaveEdit, HandleSetPrimary, HandleDeleteContact

LEMMA OrganizationInvariant == OrganizationSpec => []OrgInv
<1>1. ASSUME OrgInv, [OrganizationNext]_orgVars
      PROVE  OrgInv'
  <2>1. CASE OrganizationNext
    <3>1. OrganizationTypeOK'
      BY <1>1, <2>1, OrgNextTyped DEF OrgInv
    <3>2. OrgFollows'
      BY <1>1, <2>1, OrgNextFollows DEF OrgFollows
    <3>3. OnePrimaryIn(people)'
      BY <1>1, <2>1, OnePrimaryStays DEF OnePrimaryIn
    <3>4. LoadedFirst'
      BY <1>1, <2>1, LoadedFirstStays
    <3> QED
      BY <3>1, <3>2, <3>3, <3>4 DEF OrgInv
  <2>2. CASE UNCHANGED orgVars
    BY <1>1, <2>2 DEF OrgInv, orgVars, OrganizationTypeOK, OnePrimaryIn, LoadedFirst, OrgFollows, NameFollows,
        PeopleFollow, RequestsKnowPeople, Apply
  <2> QED
    BY <1>1, <2>1, <2>2
<1> QED
  BY <1>1, OrgStarts, PTL DEF OrganizationSpec

\* What the sheet of an organization has is of its type.
THEOREM OrganizationTyped == OrganizationSpec => []OrganizationTypeOK
BY OrganizationInvariant, PTL DEF OrgInv

\* When all is answered the sheet shows the organization and its contacts as the API has
\* them, with at most one of them the primary one, unless a save and a change of a contact
\* were under way together, it was typed during a save, or an answer was lost.
THEOREM OrganizationAgrees == OrganizationSpec => []SettledOrganizationAgrees
<1>1. ASSUME OrgInv
      PROVE  SettledOrganizationAgrees
  <2> SUFFICES ASSUME details.status = "ready", saving = NoPerson, changing = NoPerson, removing = "no", ~mixed
               PROVE  /\ org = details.name /\ people = details.contacts
                      /\ Cardinality(Primaries(details.contacts)) <= 1
    BY DEF SettledOrganizationAgrees
  <2>1. org = details.name /\ people = details.contacts
    BY <1>1 DEF OrgInv, OrgFollows, NameFollows, PeopleFollow
  <2>2. people \in Lists /\ OnePrimaryIn(people)
    BY <1>1 DEF OrgInv, OrganizationTypeOK
  <2> QED
    BY <2>1, <2>2, AtMostOnePrimary
<1> QED
  BY <1>1, OrganizationInvariant, PTL

-----------------------------------------------------------------------------
\* The sheets that create a deal or a participation (CreateSheets).

\* The contacts that are offered, and those that are awaited, are of the organization of the form.
ContactsAreOfOrganization ==
    /\ asking \subseteq {organization} \ {NoCompany}
    /\ contacts \in {organization, NoCompany}
    /\ contact \in {organization, NoCompany}
CreateInv == ContactsAreOfOrganization /\ (~late => organization = chosen)

LEMMA ChoiceIsEmptied ==
    ASSUME ContactsAreOfOrganization, NEW c, HandleOrganizationChange(c)
    PROVE  organization' = c /\ ContactsAreOfOrganization'
BY DEF ContactsAreOfOrganization, HandleOrganizationChange, Superseded

LEMMA SelectedIsChosen ==
    ASSUME ContactsAreOfOrganization, NEW c, SelectOrganization(c)
    PROVE  organization' = chosen' /\ ContactsAreOfOrganization'
BY ChoiceIsEmptied DEF SelectOrganization

LEMMA CreateNextChosen ==
    ASSUME CreateInv, CreateNext
    PROVE  CreateInv'
<1> USE DEF CreateInv
<1>1. ASSUME UNCHANGED <<choiceVars, chosen, late>>
      PROVE  CreateInv'
  BY <1>1 DEF choiceVars, ContactsAreOfOrganization
<1>2. ASSUME NEW c, SelectOrganization(c)
      PROVE  CreateInv'
  BY <1>2, SelectedIsChosen
<1>3. CASE HandleSearchChange \/ Debounce \/ SubmitOrganization \/ Submit \/ ReceiveSubmitted \/ ToggleForm
  BY <1>1, <1>3 DEF HandleSearchChange, Debounce, SubmitOrganization, Submit, ReceiveSubmitted, ToggleForm
<1>4. CASE ClearSelection
  <2>1. HandleOrganizationChange(NoCompany) /\ chosen' = NoCompany
    BY <1>4 DEF ClearSelection
  <2> QED
    BY <2>1, ChoiceIsEmptied
<1>5. CASE CloseOrganization
  <2>1. UNCHANGED <<choiceVars, chosen>> /\ (late => late')
    BY <1>5 DEF CloseOrganization
  <2> QED
    BY <2>1 DEF choiceVars, ContactsAreOfOrganization
<1>6. CASE ReceiveOrganization
  <2>1. CASE UNCHANGED <<choiceVars, chosen>>
    BY <1>1, <1>6, <2>1 DEF ReceiveOrganization
  <2>2. CASE HandleOrganizationChange(NewCompany) /\ chosen' = IF late THEN chosen ELSE NewCompany
    BY <1>6, <2>2, ChoiceIsEmptied DEF ReceiveOrganization
  <2> QED
    BY <1>6, <2>1, <2>2 DEF ReceiveOrganization
<1>7. CASE PickContact
  <2>1. UNCHANGED <<organization, contacts, asking, chosen, late>> /\ contact' \in {contacts, NoCompany}
    BY <1>7 DEF PickContact
  <2> QED
    BY <2>1 DEF ContactsAreOfOrganization
<1>8. ASSUME NEW t \in searching, ReceiveOptions(t)
      PROVE  CreateInv'
  BY <1>1, <1>8 DEF ReceiveOptions
<1>9. ASSUME NEW k \in {"ArrowDown", "ArrowUp", "Enter", "Escape"}, HandleKeyDown(k)
      PROVE  CreateInv'
  <2>1. UNCHANGED late
    BY <1>9 DEF HandleKeyDown
  <2>2. UNCHANGED <<choiceVars, chosen>> \/ SelectOrganization(options[highlighted + 1])
    BY <1>9 DEF HandleKeyDown, HandleCreate
  <2> QED
    BY <1>1, <1>2, <2>1, <2>2
<1>10. ASSUME NEW i \in 0..Len(options), ClickOption(i)
       PROVE  CreateInv'
  <2>1. UNCHANGED late
    BY <1>10 DEF ClickOption
  <2>2. UNCHANGED <<choiceVars, chosen>> \/ SelectOrganization(options[i + 1])
    BY <1>10 DEF ClickOption, HandleCreate
  <2> QED
    BY <1>1, <1>2, <2>1, <2>2
<1>11. ASSUME NEW c \in asking, ReceiveContacts(c)
       PROVE  CreateInv'
  <2>1. UNCHANGED <<organization, chosen, late>> /\ asking' \subseteq asking
    BY <1>11 DEF ReceiveContacts
  <2>2. contacts' \in {c, NoCompany} /\ contact' \in {contacts', NoCompany}
    BY <1>11 DEF ReceiveContacts
  <2> QED
    BY <2>1, <2>2 DEF ContactsAreOfOrganization
<1> QED
  BY <1>3, <1>4, <1>5, <1>6, <1>7, <1>8, <1>9, <1>10, <1>11 DEF CreateNext

\* What is submitted is what the user chose: the organization is the one last picked or
\* created, and the contact is one of its own, whatever the order of the answers.  Only an
\* organization created in a sheet that was closed meanwhile takes the place of the choice.
THEOREM SubmitsChoice == CreateSpec => []SubmittedIsChosen
<1>1. CreateInit => CreateInv
  BY DEF CreateInit, CreateInv, ContactsAreOfOrganization
<1>2. ASSUME CreateInv, [CreateNext]_createVars
      PROVE  CreateInv'
  <2>1. CASE UNCHANGED createVars
    BY <1>2, <2>1 DEF CreateInv, createVars, ContactsAreOfOrganization
  <2> QED
    BY <1>2, <2>1, CreateNextChosen
<1>3. CreateInv => SubmittedIsChosen
  BY DEF CreateInv, SubmittedIsChosen, ContactsAreOfOrganization
<1> QED
  BY <1>1, <1>2, <1>3, PTL DEF CreateSpec

\* The list under the search box shows an organization once.
ListIsShort == Len(options) <= Cardinality(Offered)
CreateTyped == CreateTypeOK /\ ListIsShort

LEMMA OfferedIsFinite ==
    IsFiniteSet(Offered) /\ Cardinality(Offered) \in Nat
BY CompaniesAreFinite, FS_AddElement, FS_Union, FS_Singleton, FS_CardinalityType DEF Offered

LEMMA ResultsAreOffered ==
    ASSUME CreateTypeOK, NEW t \in Texts
    PROVE  Results(t) \in Seq(Offered) /\ Len(Results(t)) <= Cardinality(Offered)
<1> DEFINE found == {c \in known : Matches(c, t)}
<1>1. found \subseteq Offered
  BY DEF CreateTypeOK
<1>2. IsFiniteSet(found) /\ Cardinality(found) \in Nat /\ Cardinality(found) <= Cardinality(Offered)
  BY <1>1, OfferedIsFinite, FS_Subset, FS_CardinalityType
<1> HIDE DEF found
<1>3. PICK f \in [1..Cardinality(found) -> found] : IsInjective(f)
  BY <1>2, FS_CardinalityType DEF ExistsBijection, Bijection, Injection
<1>4. Results(t) \in [1..Cardinality(found) -> found]
  <2>1. Results(t) = SequenceOperators!SetToSeq(found)
    BY DEF Results, found
  <2>2. SequenceOperators!IsInjective(f)
    BY <1>3 DEF IsInjective, SequenceOperators!IsInjective
  <2>3. SequenceOperators!SetToSeq(found) =
            CHOOSE g \in [1..Cardinality(found) -> found] : SequenceOperators!IsInjective(g)
    BY Zenon DEF SequenceOperators!SetToSeq, SequenceOperators!Cardinality, Cardinality
  <2> QED
    BY <1>3, <2>1, <2>2, <2>3, Zenon
<1> QED
  BY <1>1, <1>2, <1>4

LEMMA ActsCount ==
    ASSUME CreateTypeOK, UserActs
    PROVE  steps' \in 0..MaxCreateActions
BY CreateBoundIsNat DEF CreateTypeOK, UserActs

LEMMA OrganizationTypes ==
    ASSUME CreateTypeOK, NEW c \in MaybeCompany, HandleOrganizationChange(c)
    PROVE  {organization', contacts', contact'} \subseteq MaybeCompany /\ asking' \subseteq Offered
BY DEF CreateTypeOK, MaybeCompany, HandleOrganizationChange, Superseded

LEMMA SelectTypes ==
    ASSUME CreateTypeOK, NEW c \in Offered, SelectOrganization(c)
    PROVE  /\ {organization', contacts', contact', chosen'} \subseteq MaybeCompany /\ asking' \subseteq Offered
           /\ search' \in Texts /\ listOpen' = FALSE
BY OrganizationTypes DEF SelectOrganization, MaybeCompany, Texts, Name

\* A highlight stays on the list or on the entry after it.
LEMMA HighlightStays ==
    ASSUME CreateTypeOK, ListIsShort, NEW step \in Nat
    PROVE  HighlightedNext(step) \in 0..Cardinality(Offered)
<1>1. Len(options) \in Nat /\ highlighted \in Nat /\ Len(options) <= Cardinality(Offered) /\ Cardinality(Offered) \in Nat
  BY OfferedIsFinite DEF CreateTypeOK, ListIsShort
<1>2. (highlighted + step) % (Len(options) + 1) \in 0..Len(options)
  BY <1>1
<1> QED
  BY <1>1, <1>2 DEF HighlightedNext, TotalOptions

LEMMA KeysKeepTypes ==
    ASSUME CreateTyped, NEW k \in {"ArrowDown", "ArrowUp", "Enter", "Escape"}, HandleKeyDown(k)
    PROVE  CreateTyped'
<1> USE DEF CreateTyped
<1>1. /\ steps' \in 0..MaxCreateActions
      /\ UNCHANGED <<formOpen, query, searching, options, creating, submitted, known, created, late>>
  BY ActsCount DEF HandleKeyDown
<1>2. Len(options) \in Nat /\ options \in Seq(Offered)
  BY DEF CreateTypeOK
<1>3. CASE UNCHANGED <<search, choiceVars, chosen>> /\ {listOpen', orgSheet'} \subseteq BOOLEAN
           /\ highlighted' \in 0..Cardinality(Offered)
  BY <1>1, <1>3 DEF CreateTypeOK, ListIsShort, choiceVars
<1>4. CASE highlighted < Len(options) /\ SelectOrganization(options[highlighted + 1])
           /\ UNCHANGED <<highlighted, orgSheet>>
  <2>1. options[highlighted + 1] \in Offered
    BY <1>2, <1>4 DEF CreateTypeOK
  <2>2. /\ {organization', contacts', contact', chosen'} \subseteq MaybeCompany /\ asking' \subseteq Offered
        /\ search' \in Texts /\ listOpen' = FALSE
    BY <1>4, <2>1, SelectTypes
  <2> QED
    BY <1>1, <1>4, <2>2 DEF CreateTypeOK, ListIsShort
<1>5. CASE highlighted' = HighlightedNext(1) /\ UNCHANGED <<search, listOpen, choiceVars, orgSheet, chosen>>
  BY <1>3, <1>5, HighlightStays DEF CreateTypeOK
<1>6. CASE highlighted' = HighlightedNext(TotalOptions - 1) /\ UNCHANGED <<search, listOpen, choiceVars, orgSheet, chosen>>
  <2>1. TotalOptions - 1 \in Nat
    BY <1>2 DEF TotalOptions
  <2>2. HighlightedNext(TotalOptions - 1) \in 0..Cardinality(Offered)
    BY <2>1, HighlightStays
  <2> QED
    BY <1>3, <1>6, <2>2 DEF CreateTypeOK
<1>7. CASE listOpen' \in BOOLEAN /\ UNCHANGED <<search, highlighted, choiceVars, orgSheet, chosen>>
  BY <1>3, <1>7 DEF CreateTypeOK
<1>8. CASE HandleCreate /\ UNCHANGED highlighted
  BY <1>3, <1>8 DEF HandleCreate, CreateTypeOK
<1> QED
  BY <1>4, <1>5, <1>6, <1>7, <1>8 DEF HandleKeyDown

LEMMA PointingKeepsTypes ==
    ASSUME CreateTyped, NEW i \in 0..Len(options), ClickOption(i)
    PROVE  CreateTyped'
<1> USE DEF CreateTyped
<1>1. /\ steps' \in 0..MaxCreateActions /\ highlighted' = i
      /\ UNCHANGED <<formOpen, query, searching, options, creating, submitted, known, created, late>>
  BY ActsCount DEF ClickOption
<1>2. Len(options) \in Nat /\ options \in Seq(Offered) /\ i \in 0..Cardinality(Offered)
  BY OfferedIsFinite DEF CreateTypeOK, ListIsShort
<1>3. CASE i < Len(options)
  <2>1. options[i + 1] \in Offered /\ SelectOrganization(options[i + 1]) /\ UNCHANGED orgSheet
    BY <1>2, <1>3 DEF ClickOption
  <2>2. /\ {organization', contacts', contact', chosen'} \subseteq MaybeCompany /\ asking' \subseteq Offered
        /\ search' \in Texts /\ listOpen' = FALSE
    BY <2>1, SelectTypes
  <2> QED
    BY <1>1, <1>2, <2>1, <2>2 DEF CreateTypeOK, ListIsShort
<1>4. CASE ~(i < Len(options))
  <2>1. HandleCreate
    BY <1>4 DEF ClickOption
  <2> QED
    BY <1>1, <1>2, <2>1 DEF HandleCreate, CreateTypeOK, ListIsShort, choiceVars
<1> QED
  BY <1>3, <1>4

LEMMA CreateNextTyped ==
    ASSUME CreateTyped, CreateNext
    PROVE  CreateTyped'
<1> USE DEF CreateTyped
<1>1. CASE HandleSearchChange
  BY <1>1, ActsCount DEF HandleSearchChange, CreateTypeOK, ListIsShort, choiceVars
<1>2. CASE Debounce
  BY <1>2 DEF Debounce, Superseded, CreateTypeOK, ListIsShort, choiceVars
<1>3. CASE ClearSelection
  <2>1. HandleOrganizationChange(NoCompany) /\ NoCompany \in MaybeCompany
    BY <1>3 DEF ClearSelection, MaybeCompany
  <2>2. {organization', contacts', contact'} \subseteq MaybeCompany /\ asking' \subseteq Offered
    BY <2>1, OrganizationTypes
  <2>3. /\ steps' \in 0..MaxCreateActions /\ chosen' = NoCompany /\ search' = "" /\ listOpen' = TRUE
        /\ UNCHANGED <<formOpen, query, searching, options, highlighted, orgSheet, creating, submitted, known,
                       created, late>>
    BY <1>3, ActsCount DEF ClearSelection
  <2> QED
    BY <2>1, <2>2, <2>3 DEF CreateTypeOK, ListIsShort, Texts
<1>4. CASE SubmitOrganization
  BY <1>4, ActsCount DEF SubmitOrganization, CreateTypeOK, ListIsShort, pickerVars, choiceVars
<1>14. CASE CloseOrganization
  <2>1. late' \in BOOLEAN
    BY <1>14 DEF CloseOrganization, CreateTypeOK
  <2> QED
    BY <1>14, <2>1 DEF CloseOrganization, CreateTypeOK, ListIsShort, pickerVars, choiceVars
<1>5. CASE ReceiveOrganization
  <2>1. creating' = FALSE /\ UNCHANGED <<formOpen, pickerVars, submitted, created, steps, late>>
    BY <1>5 DEF ReceiveOrganization
  <2>2. NewCompany \in Offered /\ NewCompany \in MaybeCompany
    BY DEF Offered, MaybeCompany
  <2>3. CASE UNCHANGED <<known, orgSheet, choiceVars, chosen>>
    BY <2>1, <2>3 DEF CreateTypeOK, ListIsShort, pickerVars, choiceVars
  <2>4. CASE /\ known' = known \cup {NewCompany} /\ orgSheet' = FALSE
             /\ HandleOrganizationChange(NewCompany)
             /\ chosen' = IF late THEN chosen ELSE NewCompany
    <3>1. {organization', contacts', contact'} \subseteq MaybeCompany /\ asking' \subseteq Offered
      BY <2>2, <2>4, OrganizationTypes
    <3> QED
      BY <2>1, <2>2, <2>4, <3>1 DEF CreateTypeOK, ListIsShort, pickerVars
  <2> QED
    BY <1>5, <2>3, <2>4 DEF ReceiveOrganization
<1>6. CASE PickContact
  BY <1>6, ActsCount DEF PickContact, CreateTypeOK, ListIsShort, MaybeCompany, pickerVars
<1>7. CASE Submit
  <2>1. submitted' \in Submissions
    BY <1>7 DEF Submit, Submissions, MaybeCompany, CreateTypeOK
  <2> QED
    BY <1>7, <2>1, ActsCount DEF Submit, CreateTypeOK, ListIsShort, pickerVars, choiceVars
<1>8. CASE ReceiveSubmitted
  BY <1>8 DEF ReceiveSubmitted, CreateTypeOK, ListIsShort, pickerVars, choiceVars
<1>9. CASE ToggleForm
  BY <1>9, CreateBoundIsNat DEF ToggleForm, CreateTypeOK, ListIsShort, pickerVars, choiceVars
<1>10. ASSUME NEW t \in searching, ReceiveOptions(t)
       PROVE  CreateTyped'
  <2>1. t \in Texts /\ <<>> \in Seq(Offered) /\ Len(<<>>) = 0 /\ 0 <= Cardinality(Offered)
    BY OfferedIsFinite DEF CreateTypeOK
  <2>2. options' \in Seq(Offered) /\ Len(options') <= Cardinality(Offered)
    BY <1>10, <2>1, ResultsAreOffered DEF ReceiveOptions
  <2>3. highlighted' \in 0..Cardinality(Offered)
    BY <1>10, OfferedIsFinite DEF ReceiveOptions, CreateTypeOK
  <2> QED
    BY <1>10, <2>2, <2>3 DEF ReceiveOptions, CreateTypeOK, ListIsShort, choiceVars
<1>11. ASSUME NEW k \in {"ArrowDown", "ArrowUp", "Enter", "Escape"}, HandleKeyDown(k)
       PROVE  CreateTyped'
  BY <1>11, KeysKeepTypes
<1>12. ASSUME NEW i \in 0..Len(options), ClickOption(i)
       PROVE  CreateTyped'
  BY <1>12, PointingKeepsTypes
<1>13. ASSUME NEW c \in asking, ReceiveContacts(c)
       PROVE  CreateTyped'
  BY <1>13 DEF ReceiveContacts, CreateTypeOK, ListIsShort, MaybeCompany, pickerVars
<1> QED
  BY <1>1, <1>2, <1>3, <1>4, <1>5, <1>6, <1>7, <1>8, <1>9, <1>10, <1>11, <1>12, <1>13, <1>14 DEF CreateNext

\* What the sheet that creates a record has is of its type; the keys and late lists of
\* results leave the highlight within as many entries as there are organizations.
THEOREM CreationTyped == CreateSpec => []CreateTypeOK
<1>1. CreateInit => CreateTyped
  <2> SUFFICES ASSUME CreateInit PROVE CreateTyped
    OBVIOUS
  <2>1. 0 \in 0..Cardinality(Offered) /\ 0 \in 0..MaxCreateActions
    BY OfferedIsFinite, CreateBoundIsNat
  <2>2. options \in Seq(Offered) /\ Len(options) = 0
    <3>1. options = <<>>
      BY DEF CreateInit
    <3> QED
      BY <3>1
  <2>3. known \subseteq Offered /\ created \subseteq Submissions /\ asking \subseteq Offered
    BY DEF CreateInit, Offered
  <2>4. {formOpen, listOpen, orgSheet, creating, late} \subseteq BOOLEAN
    BY DEF CreateInit
  <2>5. {search, query} \subseteq Texts /\ searching \subseteq Texts
    BY DEF CreateInit, Texts
  <2>6. {organization, contacts, contact, chosen} \subseteq MaybeCompany /\ submitted = NoCompany
    BY DEF CreateInit, MaybeCompany
  <2>7. highlighted = 0 /\ steps = 0
    BY DEF CreateInit
  <2>8. Len(options) <= Cardinality(Offered)
    BY <2>1, <2>2
  <2> QED
    BY <2>1, <2>2, <2>3, <2>4, <2>5, <2>6, <2>7, <2>8 DEF CreateTyped, CreateTypeOK, ListIsShort
<1>2. CreateTyped /\ [CreateNext]_createVars => CreateTyped'
  <2> SUFFICES ASSUME CreateTyped, [CreateNext]_createVars PROVE CreateTyped'
    OBVIOUS
  <2>1. CASE UNCHANGED createVars
    BY <2>1 DEF CreateTyped, CreateTypeOK, ListIsShort, createVars
  <2> QED
    BY <2>1, CreateNextTyped
<1>3. CreateTyped => CreateTypeOK
  BY DEF CreateTyped
<1> QED
  BY <1>1, <1>2, <1>3, PTL DEF CreateSpec

-----------------------------------------------------------------------------
\* The sheet of a deal or a partner (Sheets).

\* The sheet that is open is that of a record of the board, and an answer brings a record.
OpenIsActive  == selected # NoRecord => selected = activeId /\ board[selected] # NoRecord
AnswersCarry  == \A a \in asks : a.step \in {"second", "done"} => a.item \in Items
DraftFollows  == ~overtyped => draft = intended
DraftInv == SheetTypeOK /\ OpenIsActive /\ AnswersCarry /\ DraftFollows

\* What the steps of the histories give the lemmas below.
HistoriesStep ==
    /\ astray' \subseteq Records /\ overtyped' \in BOOLEAN
    /\ ~overtyped' /\ activeId' = activeId => ~overtyped

LEMMA ShownIsActive ==
    ASSUME SheetTypeOK, OpenIsActive, Shown
    PROVE  activeId \in Records /\ selected = activeId /\ pane.status = "ready"
BY NoRecordIsNone DEF SheetTypeOK, OpenIsActive, Shown

\* A request is made with what the sheet shows.
LEMMA QuestionIsAsk ==
    ASSUME SheetTypeOK, activeId \in Records, NEW of \in Kinds
    PROVE  /\ Question(of) \in Asks
           /\ Question(of).of = of /\ Question(of).id = activeId /\ Question(of).step = "first"
           /\ Question(of).previous = pane.item /\ Question(of).keepDraft = IsDirty
<1>1. pane.item \in Items /\ pane.item.stage \in DealStages \cup PartnerStages
  BY DEF SheetTypeOK, Items
<1>2. [f \in Fields |-> "same"] \in [Fields -> Values \cup {"same"}]
  OBVIOUS
<1>3. IsDirty \in BOOLEAN
  BY DEF IsDirty
<1> QED
  BY <1>1, <1>2, <1>3 DEF Question, Asks

LEMMA SetDealIsTyped ==
    ASSUME SheetTypeOK, NEW id \in Records, NEW i \in Items, NEW sync \in BOOLEAN, SetDeal(id, i, sync)
    PROVE  /\ pane' \in [status : {"loading", "error", "ready"}, item : Items, account : BOOLEAN]
           /\ draft' \in Drafts /\ board' \in [Records -> Items \cup {NoRecord}]
           /\ \A r \in Records : board'[r] = NoRecord <=> board[r] = NoRecord
<1>1. board \in [Records -> Items \cup {NoRecord}] /\ pane.item \in Items
  BY DEF SheetTypeOK
<1>2. i.fields \in Drafts
  BY DEF Items, Drafts, Typed
<1>3. board' = [board EXCEPT ![id] = IF board[id] = NoRecord THEN board[id] ELSE i]
  BY DEF SetDeal
<1>4. board' \in [Records -> Items \cup {NoRecord}]
  BY <1>1, <1>3
<1>5. \A r \in Records : board'[r] = NoRecord <=> board[r] = NoRecord
  BY <1>1, <1>3, NoRecordIsNone
<1>6. CASE id = activeId /\ pane.status = "ready"
  <2>1. pane' = [pane EXCEPT !.item = i] /\ draft' = IF sync THEN i.fields ELSE draft
    BY <1>6 DEF SetDeal
  <2> QED
    BY <1>2, <1>4, <1>5, <2>1 DEF SheetTypeOK
<1>7. CASE ~(id = activeId /\ pane.status = "ready")
  BY <1>4, <1>5, <1>7 DEF SetDeal, SheetTypeOK
<1> QED
  BY <1>6, <1>7

LEMMA ActsAreCounted ==
    ASSUME SheetTypeOK, SheetAct
    PROVE  acts' \in 0..MaxSheetActions
BY SheetBoundIsNat DEF SheetTypeOK, SheetAct

\* What a change makes of a record is a record.
LEMMA ChangedIsItem ==
    ASSUME SheetTypeOK, NEW a \in Asks, Found(a)
    PROVE  /\ Changed(a) \in Items
           /\ a.of # "stage" => Changed(a).stage = items[a.id].stage
           /\ a.of # "save" => Changed(a).fields = items[a.id].fields
           /\ a.of = "save" => \A f \in Fields : Changed(a).fields[f] =
                  IF a.patch[f] = "same" THEN items[a.id].fields[f] ELSE a.patch[f]
<1>1. /\ a.of \in Kinds /\ a.id \in Records /\ a.patch \in [Fields -> Values \cup {"same"}]
      /\ a.to \in DealStages \cup PartnerStages /\ a.release \in BOOLEAN
  BY DEF Asks
<1>2. PICK i \in Items : i = items[a.id]
  BY <1>1 DEF SheetTypeOK, Found
<1>3. i.stage \in DealStages \cup PartnerStages /\ i.fields \in [Fields -> Values] /\ i.area \in BOOLEAN
  BY DEF Items
<1>4. CASE a.of = "save"
  <2>1. PICK g : g = [f \in Fields |-> IF a.patch[f] = "same" THEN i.fields[f] ELSE a.patch[f]]
    OBVIOUS
  <2>2. g \in [Fields -> Values]
    BY <1>1, <1>3, <2>1
  <2>3. Changed(a) = [i EXCEPT !.fields = g]
    BY <1>2, <1>4, <2>1 DEF Changed
  <2>4. Changed(a) \in Items /\ Changed(a).stage = i.stage /\ Changed(a).fields = g
    BY <2>2, <2>3 DEF Items
  <2> QED
    BY <1>2, <1>4, <2>1, <2>4
<1>5. CASE a.of = "stage"
  <2>1. Changed(a) = [i EXCEPT !.stage = a.to, !.area = i.area /\ ~a.release]
    BY <1>2, <1>5 DEF Changed
  <2> QED
    BY <1>1, <1>2, <1>3, <1>5, <2>1 DEF Items
<1>6. CASE a.of = "release"
  <2>1. Changed(a) = [i EXCEPT !.area = FALSE]
    BY <1>2, <1>6 DEF Changed
  <2> QED
    BY <1>2, <1>6, <2>1 DEF Items
<1>7. CASE a.of = "assign"
  <2>1. Changed(a) = [i EXCEPT !.area = TRUE]
    BY <1>2, <1>7 DEF Changed
  <2> QED
    BY <1>2, <1>7, <2>1 DEF Items
<1>8. CASE a.of \notin {"save", "stage", "release", "assign"}
  <2>1. Changed(a) = i
    BY <1>2, <1>8 DEF Changed
  <2> QED
    BY <1>2, <1>8, <2>1
<1> QED
  BY <1>4, <1>5, <1>6, <1>7, <1>8

LEMMA AskIsTyped ==
    ASSUME DraftInv, NEW q \in Asks, q.step = "first", Ask(q)
    PROVE  /\ asks' \subseteq Asks /\ AnswersCarry'
           /\ crossing' \in BOOLEAN /\ (~crossing' => ~crossing)
<1>1. asks' = asks \cup {q} /\ crossing' = (crossing \/ asks # {})
  BY DEF Ask
<1>2. asks' \subseteq Asks
  BY <1>1 DEF DraftInv, SheetTypeOK
<1>3. AnswersCarry'
  BY <1>1 DEF DraftInv, AnswersCarry
<1>4. crossing' \in BOOLEAN /\ (~crossing' => ~crossing)
  BY <1>1, Zenon
<1> QED
  BY <1>2, <1>3, <1>4

\* What the user does keeps DraftInv: opening and closing, then typing, then asking.
LEMMA OpenKeeps ==
    ASSUME DraftInv, HistoriesStep, NEW r \in Records, Open(r)
    PROVE  DraftInv'
<1> USE DEF DraftInv, HistoriesStep
<1>1. CASE r = activeId
  <2>1. acts' \in 0..MaxSheetActions /\ selected' = r /\ board[r] # NoRecord
    BY <1>1, ActsAreCounted DEF Open
  <2>2. UNCHANGED <<kind, activeId, pane, draft, editing, board, items, accounts, asks, intended, crossing, outdated>>
    BY <1>1 DEF Open
  <2>3. SheetTypeOK'
    BY <2>1, <2>2 DEF SheetTypeOK
  <2>4. OpenIsActive' /\ AnswersCarry' /\ DraftFollows'
    BY <1>1, <2>1, <2>2 DEF OpenIsActive, AnswersCarry, DraftFollows
  <2> QED
    BY <2>3, <2>4
<1>2. CASE r # activeId
  <2> DEFINE q == [Question("load") EXCEPT !.id = r, !.previous = Nothing, !.to = "NEW", !.keepDraft = FALSE]
  <2>1. q \in Asks /\ q.step = "first"
    <3>1. Nothing \in Items /\ [f \in Fields |-> "same"] \in [Fields -> Values \cup {"same"}]
      BY DEF Nothing, Items, Empty, DealStages, Values
    <3>2. Question("load").of = "load" /\ Question("load").step = "first"
      BY DEF Question
    <3>3. q \in Asks
      BY <3>1 DEF Question, Asks, Kinds, DealStages
    <3> QED
      BY <3>2, <3>3 DEF Question
  <2> HIDE DEF q
  <2>2. /\ acts' \in 0..MaxSheetActions /\ selected' = r /\ activeId' = r /\ board[r] # NoRecord
        /\ pane' = SheetLoad /\ draft' = Empty /\ intended' = Empty /\ editing' = FALSE
        /\ asks' = {a \in asks : a.of # "load"} \cup {q} /\ outdated' = outdated \ {r}
        /\ UNCHANGED <<kind, board, items, accounts>>
    BY <1>2, ActsAreCounted DEF Open, q
  <2>3. crossing' \in BOOLEAN
    BY <1>2 DEF Open
  <2>4. SheetLoad \in [status : {"loading", "error", "ready"}, item : Items, account : BOOLEAN] /\ Empty \in Drafts
    BY DEF SheetLoad, Nothing, Items, Empty, Drafts, Typed, Values, DealStages
  <2>5. SheetTypeOK'
    BY <2>1, <2>2, <2>3, <2>4 DEF SheetTypeOK
  <2>6. OpenIsActive' /\ AnswersCarry' /\ DraftFollows'
    BY <2>1, <2>2 DEF OpenIsActive, AnswersCarry, DraftFollows
  <2> QED
    BY <2>5, <2>6
<1> QED
  BY <1>1, <1>2

LEMMA TypingKeeps ==
    ASSUME DraftInv, HistoriesStep, HandleCancelDraft \/ \E f \in Fields : UpdateDraft(f)
    PROVE  DraftInv'
<1> USE DEF DraftInv, HistoriesStep
<1>1. crossing' \in BOOLEAN
  BY DEF HandleCancelDraft, UpdateDraft
<1>2. draft' \in Drafts /\ intended' = draft' /\ editing' \in BOOLEAN /\ acts' \in 0..MaxSheetActions
  <2>1. ASSUME NEW f \in Fields, UpdateDraft(f)
        PROVE  /\ draft' \in Drafts /\ intended' = draft' /\ editing' \in BOOLEAN
               /\ acts' \in 0..MaxSheetActions
    <3>1. PICK v \in Typed : draft' = [draft EXCEPT ![f] = v]
      BY <2>1 DEF UpdateDraft, Typed
    <3>2. draft' \in Drafts
      BY <3>1 DEF SheetTypeOK, Drafts
    <3>3. intended' = draft' /\ editing' = editing /\ acts' \in 0..MaxSheetActions
      BY <2>1, ActsAreCounted DEF UpdateDraft
    <3> QED
      BY <3>2, <3>3 DEF SheetTypeOK
  <2>2. CASE HandleCancelDraft
    <3>1. Baseline \in Drafts
      BY DEF SheetTypeOK, Baseline, Items, Drafts, Typed
    <3> QED
      BY <2>2, <3>1 DEF HandleCancelDraft, SheetTypeOK
  <2> QED
    BY <2>1, <2>2
<1>3. UNCHANGED <<kind, selected, activeId, pane, board, items, accounts, asks, outdated>>
  BY DEF HandleCancelDraft, UpdateDraft
<1>4. SheetTypeOK'
  BY <1>1, <1>2, <1>3 DEF SheetTypeOK
<1>5. OpenIsActive' /\ AnswersCarry' /\ DraftFollows'
  BY <1>2, <1>3 DEF OpenIsActive, AnswersCarry, DraftFollows
<1> QED
  BY <1>4, <1>5

LEMMA AskingKeeps ==
    ASSUME DraftInv, HistoriesStep,
           HandleSave \/ AddAccount \/ HandleDelete \/ \E of \in {"release", "assign"} : ChangeArea(of)
    PROVE  DraftInv'
<1> USE DEF DraftInv, HistoriesStep
<1>1. Shown /\ SheetAct
  BY DEF HandleSave, AddAccount, HandleDelete, ChangeArea
<1>2. activeId \in Records
  BY <1>1, ShownIsActive
<1>3. PICK q \in Asks : q.step = "first" /\ Ask(q)
  <2>1. CASE HandleSave
    <3>1. BuildDetailsPatch(draft) \in [Fields -> Values \cup {"same"}]
      BY DEF BuildDetailsPatch, SheetTypeOK, Drafts, Typed, Saved, Values
    <3>2. Question("save") \in Asks /\ Question("save").step = "first"
      BY <1>2, QuestionIsAsk DEF Kinds
    <3>3. [Question("save") EXCEPT !.patch = BuildDetailsPatch(draft)] \in Asks
      BY <3>1, <3>2 DEF Asks
    <3>4. [Question("save") EXCEPT !.patch = BuildDetailsPatch(draft)].step = "first"
      BY <3>2 DEF Asks
    <3> QED
      BY <2>1, <3>3, <3>4 DEF HandleSave
  <2>2. CASE AddAccount
    BY <1>2, <2>2, QuestionIsAsk DEF AddAccount, Kinds
  <2>3. CASE HandleDelete
    BY <1>2, <2>3, QuestionIsAsk DEF HandleDelete, Kinds
  <2>4. CASE \E of \in {"release", "assign"} : ChangeArea(of)
    <3>1. PICK of \in {"release", "assign"} : Ask(Question(of))
      BY <2>4 DEF ChangeArea
    <3>2. Question(of) \in Asks /\ Question(of).step = "first"
      BY <1>2, QuestionIsAsk DEF Kinds
    <3> QED
      BY <3>1, <3>2
  <2> QED
    BY <2>1, <2>2, <2>3, <2>4
<1>4. /\ asks' \subseteq Asks /\ AnswersCarry'
      /\ crossing' \in BOOLEAN /\ (~crossing' => ~crossing)
  BY <1>3, AskIsTyped
<1>5. UNCHANGED <<kind, selected, activeId, pane, draft, editing, board, items, accounts, intended, outdated>>
  BY DEF HandleSave, AddAccount, HandleDelete, ChangeArea
<1>6. acts' \in 0..MaxSheetActions
  BY <1>1, ActsAreCounted
<1>7. SheetTypeOK'
  BY <1>4, <1>5, <1>6 DEF SheetTypeOK
<1>8. OpenIsActive' /\ DraftFollows'
  BY <1>4, <1>5 DEF OpenIsActive, DraftFollows
<1> QED
  BY <1>4, <1>7, <1>8

\* The stage shown in advance leaves the draft: it has not been typed in, or is not
\* replaced.
LEMMA StageKeeps ==
    ASSUME DraftInv, HistoriesStep, NEW s \in DealStages \cup PartnerStages, NEW release \in BOOLEAN,
           HandleStageChange(s, release)
    PROVE  DraftInv'
<1> USE DEF DraftInv, HistoriesStep
<1>1. Shown /\ SheetAct
  BY DEF HandleStageChange
<1>2. activeId \in Records /\ selected = activeId /\ pane.status = "ready"
  BY <1>1, ShownIsActive
<1>3. PICK q : q = [Question("stage") EXCEPT !.to = s, !.release = release]
  OBVIOUS
<1>4. q \in Asks /\ q.step = "first"
  <2>1. Question("stage") \in Asks /\ Question("stage").step = "first"
    BY <1>2, QuestionIsAsk DEF Kinds
  <2> QED
    BY <1>3, <2>1 DEF Asks
<1>5. Ask(q)
  BY <1>3 DEF HandleStageChange
<1>6. /\ asks' \subseteq Asks /\ AnswersCarry'
      /\ crossing' \in BOOLEAN /\ (~crossing' => ~crossing)
  BY <1>4, <1>5, AskIsTyped
<1>7. PICK i : i = [pane.item EXCEPT !.stage = s]
  OBVIOUS
<1>8. i \in Items /\ i.fields = pane.item.fields
  BY <1>7 DEF SheetTypeOK, Items
<1>9. SetDeal(activeId, i, ~IsDirty) /\ (~IsDirty) \in BOOLEAN
  BY <1>7 DEF HandleStageChange, IsDirty
<1>10. /\ pane' \in [status : {"loading", "error", "ready"}, item : Items, account : BOOLEAN]
       /\ draft' \in Drafts /\ board' \in [Records -> Items \cup {NoRecord}]
       /\ \A r \in Records : board'[r] = NoRecord <=> board[r] = NoRecord
  BY <1>2, <1>8, <1>9, SetDealIsTyped
<1>11. draft' = draft
  <2>1. draft' = IF ~IsDirty THEN i.fields ELSE draft
    BY <1>2, <1>9 DEF SetDeal
  <2> QED
    BY <1>8, <2>1 DEF IsDirty, Baseline
<1>12. UNCHANGED <<kind, selected, activeId, editing, items, accounts, intended, outdated>>
  BY DEF HandleStageChange
<1>13. acts' \in 0..MaxSheetActions
  BY <1>1, ActsAreCounted
<1>14. SheetTypeOK'
  BY <1>6, <1>10, <1>12, <1>13 DEF SheetTypeOK
<1>15. OpenIsActive' /\ DraftFollows'
  BY <1>2, <1>6, <1>10, <1>11, <1>12 DEF OpenIsActive, DraftFollows
<1> QED
  BY <1>6, <1>14, <1>15

\* A card that is dragged, and a colleague's change, leave the sheet alone.
LEMMA OthersKeep ==
    ASSUME DraftInv, HistoriesStep, ChangedElsewhere \/ \E r \in Records : DraggedBehind(r)
    PROVE  DraftInv'
<1> USE DEF DraftInv, HistoriesStep
<1>1. CASE ChangedElsewhere
  <2>1. Shown /\ items[selected] # NoRecord
    BY <1>1 DEF ChangedElsewhere
  <2>2. selected \in Records
    BY <2>1, ShownIsActive
  <2>3. PICK i : i = items[selected]
    OBVIOUS
  <2>4. i \in Items
    BY <2>1, <2>2, <2>3 DEF SheetTypeOK
  <2>5. PICK j : j = [i EXCEPT !.fields["text"] = "given"]
    OBVIOUS
  <2>6. j \in Items
    BY <2>4, <2>5 DEF Items, Fields, Values
  <2>7. items' = [items EXCEPT ![selected] = j]
    BY <1>1, <2>3, <2>5 DEF ChangedElsewhere
  <2>8. items' \in [Records -> Items \cup {NoRecord}] /\ outdated' \in SUBSET Records
    BY <1>1, <2>2, <2>6, <2>7 DEF SheetTypeOK, ChangedElsewhere
  <2> QED
    BY <1>1, <2>8 DEF SheetTypeOK, ChangedElsewhere, OpenIsActive, AnswersCarry, DraftFollows
<1>2. ASSUME NEW r \in Records, DraggedBehind(r) PROVE DraftInv'
  <2>1. PICK s \in DealStages \cup PartnerStages :
            items' = [items EXCEPT ![r].stage = s] /\ board' = [board EXCEPT ![r] = items'[r]]
    BY <1>2 DEF DraggedBehind
  <2>2. PICK i : i = items[r]
    OBVIOUS
  <2>3. i \in Items
    BY <1>2, <2>2 DEF SheetTypeOK, DraggedBehind
  <2>4. PICK j : j = [i EXCEPT !.stage = s]
    OBVIOUS
  <2>5. j \in Items
    BY <2>3, <2>4 DEF Items
  <2>6. items' = [items EXCEPT ![r] = j]
    BY <2>1, <2>2, <2>4
  <2>7. items' \in [Records -> Items \cup {NoRecord}] /\ items'[r] = j
    BY <2>5, <2>6 DEF SheetTypeOK
  <2>8. board' \in [Records -> Items \cup {NoRecord}]
    BY <2>1, <2>5, <2>7 DEF SheetTypeOK
  <2>9. selected = NoRecord /\ acts' \in 0..MaxSheetActions /\ outdated' \in SUBSET Records
    BY <1>2, ActsAreCounted DEF DraggedBehind, SheetTypeOK
  <2>10. UNCHANGED <<kind, selected, activeId, pane, draft, editing, accounts, asks, intended, crossing>>
    BY <1>2 DEF DraggedBehind
  <2>11. SheetTypeOK'
    BY <2>7, <2>8, <2>9, <2>10 DEF SheetTypeOK
  <2>12. OpenIsActive' /\ AnswersCarry' /\ DraftFollows'
    BY <2>9, <2>10 DEF OpenIsActive, AnswersCarry, DraftFollows
  <2> QED
    BY <2>11, <2>12
<1> QED
  BY <1>1, <1>2

LEMMA FailIsTyped ==
    ASSUME NEW a \in Asks
    PROVE  Fail(a) \in Asks /\ Fail(a).step = "failed"
BY DEF Fail, Asks

\* What the API may do with a change.
Refused(a) == UNCHANGED <<items, accounts, crossing>> /\ asks' = (asks \ {a}) \cup {Fail(a)}
WentThrough(a) == /\ CarryOut(a) /\ UNCHANGED crossing
              /\ asks' = (asks \ {a}) \cup
                    {[a EXCEPT !.step = "done", !.item = Changed(a), !.account = a.id \in accounts']}
Lost(a)    == CarryOut(a) /\ crossing' = TRUE /\ asks' = (asks \ {a}) \cup {Fail(a)}

LEMMA ChangeIsAnswered ==
    ASSUME NEW a, AnswerChange(a)
    PROVE  /\ a.of \notin {"load", "reload"} /\ a.step = "first"
           /\ Refused(a) \/ WentThrough(a) \/ Lost(a)
           /\ UNCHANGED <<kind, selected, activeId, pane, draft, editing, board, acts, intended, outdated>>
BY DEF AnswerChange, Refused, WentThrough, Lost

\* The answer to a change that has been carried out.
LEMMA DoneCarries ==
    ASSUME SheetTypeOK, NEW a \in Asks, WentThrough(a)
    PROVE  \E b \in Asks : /\ asks' = (asks \ {a}) \cup {b}
                           /\ b.of = a.of /\ b.id = a.id /\ b.previous = a.previous /\ b.to = a.to
                           /\ b.keepDraft = a.keepDraft /\ b.step = "done"
                           /\ b.item = Changed(a) /\ (b.account = (a.id \in accounts'))
<1>1. Changed(a) \in Items
  BY ChangedIsItem DEF WentThrough, CarryOut, Accepts
<1>2. PICK b : b = [a EXCEPT !.step = "done", !.item = Changed(a), !.account = (a.id \in accounts')]
  OBVIOUS
<1>3. asks' = (asks \ {a}) \cup {b}
  BY <1>2 DEF WentThrough
<1>4. (a.id \in accounts') \in BOOLEAN
  OBVIOUS
<1>5. b \in Asks /\ b.of = a.of /\ b.id = a.id /\ b.previous = a.previous /\ b.to = a.to
      /\ b.keepDraft = a.keepDraft /\ b.step = "done"
  BY <1>1, <1>2, <1>4 DEF Asks
<1>6. b.item = Changed(a) /\ (b.account = (a.id \in accounts'))
  BY <1>2 DEF Asks
<1> QED
  BY <1>3, <1>5, <1>6

LEMMA CarriedIsTyped ==
    ASSUME SheetTypeOK, NEW a \in Asks, CarryOut(a)
    PROVE  /\ items' \in [Records -> Items \cup {NoRecord}] /\ accounts' \subseteq Records
           /\ items' = [items EXCEPT ![a.id] = IF a.of = "delete" THEN NoRecord ELSE Changed(a)]
<1>1. Changed(a) \in Items /\ a.id \in Records
  BY ChangedIsItem DEF CarryOut, Accepts, Asks
<1>2. items' = [items EXCEPT ![a.id] = IF a.of = "delete" THEN NoRecord ELSE Changed(a)]
  BY DEF CarryOut
<1>3. accounts' \subseteq Records
  BY <1>1 DEF CarryOut, SheetTypeOK
<1> QED
  BY <1>1, <1>2, <1>3 DEF SheetTypeOK

LEMMA AnsweringKeeps ==
    ASSUME DraftInv, HistoriesStep, NEW a \in asks, AnswerLoadStep(a) \/ AnswerChange(a)
    PROVE  DraftInv'
<1> USE DEF DraftInv, HistoriesStep
<1>1. a \in Asks
  BY DEF SheetTypeOK
<1>2. Fail(a) \in Asks /\ Fail(a).step = "failed"
  BY <1>1, FailIsTyped
<1>3. CASE AnswerLoadStep(a)
  <2>1. PICK b \in {Fail(a)} \cup
                (IF a.step = "second" THEN {[a EXCEPT !.step = "done", !.account = a.id \in accounts]}
                 ELSE IF Found(a) THEN {[a EXCEPT !.step = "second", !.item = items[a.id]]} ELSE {}) :
            asks' = (asks \ {a}) \cup {b}
    BY <1>3 DEF AnswerLoadStep
  <2>2. b \in Asks /\ (b.step \in {"second", "done"} => b.item \in Items)
    <3>1. CASE b = Fail(a)
      BY <1>2, <3>1
    <3>2. CASE a.step = "second" /\ b = [a EXCEPT !.step = "done", !.account = a.id \in accounts]
      <4>1. (a.id \in accounts) \in BOOLEAN /\ a.item \in Items
        BY <3>2 DEF AnswersCarry
      <4> QED
        BY <1>1, <3>2, <4>1 DEF Asks
    <3>3. CASE Found(a) /\ b = [a EXCEPT !.step = "second", !.item = items[a.id]]
      <4>1. items[a.id] \in Items
        BY <1>1, <3>3 DEF Found, Asks, SheetTypeOK
      <4> QED
        BY <1>1, <3>3, <4>1 DEF Asks
    <3> QED
      BY <2>1, <3>1, <3>2, <3>3
  <2>3. UNCHANGED <<kind, selected, activeId, pane, draft, editing, board, items, accounts, acts, intended,
                    crossing, outdated>>
    BY <1>3 DEF AnswerLoadStep
  <2>4. asks' \subseteq Asks /\ AnswersCarry'
    BY <2>1, <2>2 DEF SheetTypeOK, AnswersCarry
  <2> QED
    BY <2>3, <2>4 DEF SheetTypeOK, OpenIsActive, DraftFollows
<1>4. CASE AnswerChange(a)
  <2>1. /\ Refused(a) \/ WentThrough(a) \/ Lost(a)
        /\ UNCHANGED <<kind, selected, activeId, pane, draft, editing, board, acts, intended, outdated>>
    BY <1>4, ChangeIsAnswered
  <2>2. asks' \subseteq Asks /\ AnswersCarry'
    <3>1. CASE Refused(a) \/ Lost(a)
      BY <1>2, <3>1 DEF Refused, Lost, SheetTypeOK, AnswersCarry
    <3>2. CASE WentThrough(a)
      <4>1. PICK b \in Asks : asks' = (asks \ {a}) \cup {b} /\ b.item = Changed(a)
        BY <1>1, <3>2, DoneCarries
      <4>2. Changed(a) \in Items
        BY <1>1, <3>2, ChangedIsItem DEF WentThrough, CarryOut, Accepts
      <4> QED
        BY <4>1, <4>2 DEF SheetTypeOK, AnswersCarry
    <3> QED
      BY <2>1, <3>1, <3>2
  <2>3. items' \in [Records -> Items \cup {NoRecord}] /\ accounts' \subseteq Records
    BY <1>1, <2>1, CarriedIsTyped DEF Refused, WentThrough, Lost, SheetTypeOK
  <2>4. crossing' \in BOOLEAN /\ (~crossing' => ~crossing)
    <3>1. crossing' = crossing \/ crossing' = TRUE
      BY <2>1 DEF Refused, WentThrough, Lost
    <3>2. ~crossing' => ~crossing
      BY <3>1, Zenon
    <3>3. crossing' \in BOOLEAN
      BY <3>1 DEF SheetTypeOK
    <3> QED
      BY <3>2, <3>3
  <2>5. SheetTypeOK'
    BY <2>1, <2>2, <2>3, <2>4 DEF SheetTypeOK
  <2> QED
    BY <2>1, <2>2, <2>4, <2>5 DEF OpenIsActive, DraftFollows
<1> QED
  BY <1>3, <1>4

LEMMA ReceivingLoadKeeps ==
    ASSUME DraftInv, HistoriesStep, NEW a \in asks, ReceiveLoaded(a) \/ ReceiveReloaded(a)
    PROVE  DraftInv'
<1> USE DEF DraftInv, HistoriesStep
<1>1. a \in Asks /\ asks' = asks \ {a} /\ a.step \in {"done", "failed"} /\ a.account \in BOOLEAN /\ a.id \in Records
  BY DEF SheetTypeOK, ReceiveLoaded, ReceiveReloaded, Take, Asks
<1>2. asks' \subseteq Asks /\ AnswersCarry'
  BY <1>1 DEF SheetTypeOK, AnswersCarry
<1>3. a.step = "done" => a.item \in Items /\ a.item.fields \in Drafts
                         /\ Content(a) \in [status : {"loading", "error", "ready"}, item : Items, account : BOOLEAN]
  BY <1>1 DEF AnswersCarry, Items, Drafts, Typed, Content
<1>4. CASE ReceiveLoaded(a)
  <2>1. UNCHANGED <<kind, selected, activeId, board, items, accounts, acts, crossing, outdated>>
    BY <1>4 DEF ReceiveLoaded
  <2>2. CASE a.step = "failed"
    <3>1. pane' = [SheetLoad EXCEPT !.status = "error"] /\ UNCHANGED <<draft, intended>>
      BY <1>4, <2>2 DEF ReceiveLoaded
    <3>2. pane' \in [status : {"loading", "error", "ready"}, item : Items, account : BOOLEAN]
      BY <3>1 DEF SheetLoad, Nothing, Items, Empty, Values, DealStages
    <3>3. editing' \in BOOLEAN
      BY <1>4 DEF ReceiveLoaded
    <3>4. SheetTypeOK'
      BY <1>2, <2>1, <3>1, <3>2, <3>3 DEF SheetTypeOK
    <3> QED
      BY <1>2, <2>1, <3>1, <3>4 DEF OpenIsActive, DraftFollows
  <2>3. CASE a.step = "done"
    <3>1. pane' = Content(a) /\ draft' = a.item.fields /\ intended' = draft'
      BY <1>4, <2>3 DEF ReceiveLoaded
    <3>2. editing' \in BOOLEAN
      BY <1>4 DEF ReceiveLoaded
    <3>3. SheetTypeOK'
      BY <1>2, <1>3, <2>1, <2>3, <3>1, <3>2 DEF SheetTypeOK
    <3> QED
      BY <1>2, <2>1, <3>1, <3>3 DEF OpenIsActive, DraftFollows
  <2> QED
    BY <1>1, <2>2, <2>3
<1>5. CASE ReceiveReloaded(a)
  <2>1. UNCHANGED <<kind, selected, activeId, editing, items, accounts, acts, outdated>>
    BY <1>5 DEF ReceiveReloaded
  <2>2. intended' = IF Mine(a) /\ ~a.keepDraft /\ a.step = "done" /\ ~overtyped THEN draft' ELSE intended
    BY <1>5 DEF ReceiveReloaded
  <2>3. CASE a.step = "failed"
    <3>1. UNCHANGED <<pane, draft, board>> /\ crossing' = TRUE /\ intended' = intended
      BY <1>5, <2>2, <2>3 DEF ReceiveReloaded
    <3>2. SheetTypeOK'
      BY <1>2, <2>1, <3>1 DEF SheetTypeOK
    <3> QED
      BY <1>2, <2>1, <3>1, <3>2 DEF OpenIsActive, DraftFollows
  <2>4. CASE a.step = "done"
    <3>1. /\ board' = [board EXCEPT ![a.id] = IF board[a.id] = NoRecord THEN board[a.id] ELSE a.item]
          /\ crossing' = crossing
          /\ IF Mine(a) THEN pane' = Content(a) /\ draft' = IF a.keepDraft THEN draft ELSE a.item.fields
             ELSE UNCHANGED <<pane, draft>>
      BY <1>5, <2>4 DEF ReceiveReloaded
    <3>2. board' \in [Records -> Items \cup {NoRecord}]
      BY <1>1, <1>3, <2>4, <3>1 DEF SheetTypeOK
    <3>3. \A r \in Records : board'[r] = NoRecord => board[r] = NoRecord
      BY <1>1, <1>3, <2>4, <3>1, NoRecordIsNone DEF SheetTypeOK
    <3>4. /\ pane' \in [status : {"loading", "error", "ready"}, item : Items, account : BOOLEAN]
          /\ draft' \in Drafts
      BY <1>3, <2>4, <3>1 DEF SheetTypeOK
    <3>5. intended' \in Drafts
      BY <2>2, <3>4 DEF SheetTypeOK
    <3>6. SheetTypeOK'
      BY <1>2, <2>1, <3>1, <3>2, <3>4, <3>5 DEF SheetTypeOK
    <3>7. DraftFollows'
      BY <2>1, <2>2, <2>4, <3>1 DEF DraftFollows
    <3>8. OpenIsActive'
      BY <2>1, <3>3 DEF OpenIsActive, SheetTypeOK
    <3> QED
      BY <1>2, <3>6, <3>7, <3>8
  <2> QED
    BY <1>1, <2>3, <2>4
<1> QED
  BY <1>4, <1>5

LEMMA ReceivingChangeKeeps ==
    ASSUME DraftInv, HistoriesStep, NEW a \in asks, ReceiveSaved(a) \/ ReceiveStage(a)
    PROVE  DraftInv'
<1> USE DEF DraftInv, HistoriesStep
<1>1. /\ a \in Asks /\ asks' = asks \ {a} /\ a.step \in {"done", "failed"} /\ a.id \in Records
      /\ a.previous \in Items /\ a.keepDraft \in BOOLEAN
  BY DEF SheetTypeOK, ReceiveSaved, ReceiveStage, Take, Asks
<1>2. asks' \subseteq Asks /\ AnswersCarry'
  BY <1>1 DEF SheetTypeOK, AnswersCarry
<1>3. a.step = "done" => a.item \in Items
  BY DEF AnswersCarry
<1>4. CASE ReceiveSaved(a)
  <2>1. UNCHANGED <<kind, selected, activeId, items, accounts, acts, crossing, outdated>>
    BY <1>4 DEF ReceiveSaved
  <2>2. CASE a.step = "failed"
    <3>1. UNCHANGED <<pane, draft, board, editing, intended>>
      BY <1>4, <2>2 DEF ReceiveSaved
    <3>2. SheetTypeOK'
      BY <1>2, <2>1, <3>1 DEF SheetTypeOK
    <3> QED
      BY <1>2, <2>1, <3>1, <3>2 DEF OpenIsActive, DraftFollows
  <2>3. CASE a.step = "done"
    <3>1. /\ SetDeal(a.id, a.item, TRUE) /\ editing' = (editing /\ ~Mine(a))
          /\ intended' = IF overtyped THEN intended ELSE draft'
      BY <1>4, <2>3 DEF ReceiveSaved
    <3>2. editing' \in BOOLEAN
      BY <3>1
    <3>3. /\ pane' \in [status : {"loading", "error", "ready"}, item : Items, account : BOOLEAN]
          /\ draft' \in Drafts /\ board' \in [Records -> Items \cup {NoRecord}]
          /\ \A r \in Records : board'[r] = NoRecord <=> board[r] = NoRecord
      BY <1>1, <1>3, <2>3, <3>1, SetDealIsTyped
    <3>4. SheetTypeOK'
      BY <1>2, <2>1, <3>1, <3>2, <3>3 DEF SheetTypeOK
    <3>5. OpenIsActive' /\ DraftFollows'
      BY <2>1, <3>1, <3>3 DEF OpenIsActive, DraftFollows, SheetTypeOK
    <3> QED
      BY <1>2, <3>4, <3>5
  <2> QED
    BY <1>1, <2>2, <2>3
<1>5. CASE ReceiveStage(a)
  <2>1. UNCHANGED <<kind, selected, activeId, editing, items, accounts, acts, crossing, outdated>>
    BY <1>5 DEF ReceiveStage
  <2>2. PICK i : i = AfterStage(a)
    OBVIOUS
  <2>3. i \in Items
    BY <1>1, <1>3, <2>2 DEF AfterStage
  <2>4. PICK sync \in BOOLEAN : sync = ~a.keepDraft
    OBVIOUS
  <2>5. SetDeal(a.id, i, sync)
    BY <1>1, <1>5, <2>2, <2>4 DEF ReceiveStage, KeepsDraft
  <2>6. /\ pane' \in [status : {"loading", "error", "ready"}, item : Items, account : BOOLEAN]
        /\ draft' \in Drafts /\ board' \in [Records -> Items \cup {NoRecord}]
        /\ \A r \in Records : board'[r] = NoRecord <=> board[r] = NoRecord
    BY <1>1, <2>3, <2>5, SetDealIsTyped
  <2>7. intended' = IF a.keepDraft \/ overtyped THEN intended ELSE draft'
    BY <1>5 DEF ReceiveStage
  <2>8. a.keepDraft => draft' = draft
    BY <2>4, <2>5 DEF SetDeal
  <2>9. SheetTypeOK'
    BY <1>2, <2>1, <2>6, <2>7 DEF SheetTypeOK
  <2>10. OpenIsActive' /\ DraftFollows'
    BY <2>1, <2>6, <2>7, <2>8 DEF OpenIsActive, DraftFollows, SheetTypeOK
  <2> QED
    BY <1>2, <2>9, <2>10
<1> QED
  BY <1>4, <1>5

LEMMA ReceivingRestKeeps ==
    ASSUME DraftInv, HistoriesStep, NEW a \in asks,
           ReceiveArea(a) \/ ReceiveAccount(a) \/ ReceiveDeleted(a)
    PROVE  DraftInv'
<1> USE DEF DraftInv, HistoriesStep
<1>1. a \in Asks /\ a.id \in Records /\ a.account \in BOOLEAN
  BY DEF SheetTypeOK, Asks
<1>2. CASE ReceiveArea(a)
  <2>1. [a EXCEPT !.of = "reload", !.step = "first", !.item = NoRecord] \in Asks
    BY <1>1 DEF Asks, Kinds
  <2>2. [a EXCEPT !.of = "reload", !.step = "first", !.item = NoRecord].step = "first"
    BY <1>1 DEF Asks
  <2>3. asks' \subseteq Asks /\ AnswersCarry'
    BY <1>2, <2>1, <2>2 DEF ReceiveArea, SheetTypeOK, AnswersCarry
  <2> QED
    BY <1>2, <2>3 DEF ReceiveArea, SheetTypeOK, OpenIsActive, DraftFollows
<1>3. CASE ReceiveAccount(a)
  <2>1. asks' \subseteq Asks /\ AnswersCarry'
    BY <1>3 DEF ReceiveAccount, Take, SheetTypeOK, AnswersCarry
  <2>2. pane' \in [status : {"loading", "error", "ready"}, item : Items, account : BOOLEAN]
    <3>1. pane' = pane \/ pane' = [pane EXCEPT !.account = pane.account \/ a.account]
      BY <1>3 DEF ReceiveAccount
    <3>2. (pane.account \/ a.account) \in BOOLEAN
      OBVIOUS
    <3> QED
      BY <3>1, <3>2 DEF SheetTypeOK
  <2> QED
    BY <1>3, <2>1, <2>2 DEF ReceiveAccount, SheetTypeOK, OpenIsActive, DraftFollows
<1>4. CASE ReceiveDeleted(a)
  <2>1. asks' \subseteq Asks /\ AnswersCarry'
    BY <1>4 DEF ReceiveDeleted, Take, SheetTypeOK, AnswersCarry
  <2>2. \/ selected' = NoRecord /\ board' = [board EXCEPT ![a.id] = NoRecord]
        \/ selected' = selected /\ board' = board
    BY <1>4 DEF ReceiveDeleted
  <2>3. UNCHANGED <<kind, activeId, pane, draft, editing, items, accounts, acts, intended, crossing, outdated>>
    BY <1>4 DEF ReceiveDeleted
  <2>4. board' \in [Records -> Items \cup {NoRecord}] /\ selected' \in Records \cup {NoRecord}
    BY <2>2 DEF SheetTypeOK
  <2>5. SheetTypeOK'
    BY <2>1, <2>3, <2>4 DEF SheetTypeOK
  <2>6. OpenIsActive' /\ DraftFollows'
    BY <2>2, <2>3 DEF OpenIsActive, DraftFollows
  <2> QED
    BY <2>1, <2>5, <2>6
<1> QED
  BY <1>2, <1>3, <1>4

LEMMA SheetNextKeeps ==
    ASSUME DraftInv, SheetNext
    PROVE  DraftInv'
<1>1. HistoriesStep
  BY DEF SheetNext, Strays, Overtypes, DraftInv, SheetTypeOK, HistoriesStep
<1>2. SheetStep
  BY DEF SheetNext
<1>3. ASSUME NEW r \in Records, Open(r) \/ DraggedBehind(r) PROVE DraftInv'
  BY <1>1, <1>3, OpenKeeps, OthersKeep
<1>4. CASE ChangedElsewhere
  BY <1>1, <1>4, OthersKeep
<1>5. CASE Close \/ Edit
  BY <1>1, <1>5 DEF HistoriesStep, DraftInv, SheetTypeOK, OpenIsActive, AnswersCarry, DraftFollows, Close, Edit
<1>6. CASE HandleCancelDraft \/ \E f \in Fields : UpdateDraft(f)
  BY <1>1, <1>6, TypingKeeps
<1>7. CASE HandleSave \/ AddAccount \/ HandleDelete \/ \E of \in {"release", "assign"} : ChangeArea(of)
  BY <1>1, <1>7, AskingKeeps
<1>8. ASSUME NEW s \in DealStages \cup PartnerStages, NEW b \in BOOLEAN, HandleStageChange(s, b) PROVE DraftInv'
  BY <1>1, <1>8, StageKeeps
<1>9. ASSUME NEW a \in asks, AnswerLoadStep(a) \/ AnswerChange(a) PROVE DraftInv'
  BY <1>1, <1>9, AnsweringKeeps
<1>10. ASSUME NEW a \in asks, ReceiveLoaded(a) \/ ReceiveReloaded(a) PROVE DraftInv'
  BY <1>1, <1>10, ReceivingLoadKeeps
<1>11. ASSUME NEW a \in asks, ReceiveSaved(a) \/ ReceiveStage(a) PROVE DraftInv'
  BY <1>1, <1>11, ReceivingChangeKeeps
<1>12. ASSUME NEW a \in asks, ReceiveArea(a) \/ ReceiveAccount(a) \/ ReceiveDeleted(a) PROVE DraftInv'
  BY <1>1, <1>12, ReceivingRestKeeps
<1> QED
  BY <1>2, <1>3, <1>4, <1>5, <1>6, <1>7, <1>8, <1>9, <1>10, <1>11, <1>12 DEF SheetStep

LEMMA SheetStarts ==
    ASSUME SheetInit
    PROVE  DraftInv
<1>1. PICK s \in DealStages \cup PartnerStages, b \in BOOLEAN :
          /\ items = [r \in Records |-> [stage |-> s, fields |-> Empty, area |-> b]]
          /\ accounts = IF b THEN Records ELSE {}
  BY DEF SheetInit
<1>2. Empty \in [Fields -> Values] /\ Empty \in Drafts
  BY DEF Empty, Values, Drafts, Typed
<1>3. items \in [Records -> Items \cup {NoRecord}] /\ accounts \subseteq Records
  BY <1>1, <1>2 DEF Items
<1>4. SheetLoad \in [status : {"loading", "error", "ready"}, item : Items, account : BOOLEAN]
  BY <1>2 DEF SheetLoad, Nothing, Items, DealStages
<1>5. acts \in 0..MaxSheetActions
  BY SheetBoundIsNat DEF SheetInit
<1>6. SheetTypeOK
  BY <1>2, <1>3, <1>4, <1>5 DEF SheetInit, SheetTypeOK
<1> QED
  BY <1>6 DEF SheetInit, DraftInv, OpenIsActive, AnswersCarry, DraftFollows

LEMMA DraftInvariant == SheetSpec => []DraftInv
<1>1. SheetInit => DraftInv
  BY SheetStarts
<1>2. DraftInv /\ [SheetNext]_sheetVars => DraftInv'
  <2>1. ASSUME DraftInv, UNCHANGED sheetVars PROVE DraftInv'
    BY <2>1 DEF DraftInv, SheetTypeOK, OpenIsActive, AnswersCarry, DraftFollows, sheetVars
  <2> QED
    BY <2>1, SheetNextKeeps
<1> QED
  BY <1>1, <1>2, PTL DEF SheetSpec

\* What a sheet, its board and its requests have is of its type.
THEOREM SheetTyped == SheetSpec => []SheetTypeOK
BY DraftInvariant, PTL DEF DraftInv

\* What the user has typed in a sheet stays in its draft, whichever of its requests are under
\* way, answered, refused or lost meanwhile: only typing, a cancel and the answer to a save
\* change it.  A sheet in which he has typed while a load or a save was under way, or a
\* change or reload asked for before he had edited anything, is excepted until it is made anew.
THEOREM DraftKept == SheetSpec => []DraftIsKept
<1>1. DraftInv => DraftIsKept
  BY DEF DraftInv, DraftFollows, DraftIsKept
<1> QED
  BY <1>1, DraftInvariant, PTL

\* What the sheet shows when its one request is answered.
ItemAfter(a) ==
    IF a.step = "done" /\ a.of \in {"load", "reload", "save", "stage"} THEN a.item
    ELSE IF a.of = "stage" THEN a.previous ELSE pane.item
AccountAfter(a) ==
    IF a.step = "done" /\ a.of \in {"load", "reload"} THEN a.account
    ELSE pane.account \/ (a.of = "account" /\ a.step = "done" /\ a.account)

\* The record is read again, or is gone, before the sheet shows it.
ReadsAgain(a) ==
    \/ a.of \in {"load", "reload"} /\ a.step # "done"
    \/ a.of \in {"release", "assign"} /\ a.step = "done"
Removed(a) == a.of = "delete" /\ a.step = "done"

AskTells(a) ==
    /\ a.of \in {"load", "reload"} /\ a.step = "second" => a.item = items[activeId]
    /\ Removed(a) => items[activeId] = NoRecord
    /\ ~ReadsAgain(a) /\ ~Removed(a) =>
           ItemAfter(a) = items[activeId] /\ (AccountAfter(a) <=> activeId \in accounts)
ShowsRecord == pane.item = items[activeId] /\ (pane.account <=> activeId \in accounts)
Gone        == items[activeId] = NoRecord /\ selected = NoRecord /\ board[activeId] = NoRecord

\* As long as nothing has crossed there is one request, about the record of the sheet.
OneAsk ==
    ~crossing => \A a \in asks : /\ a.id = activeId /\ (a.of = "load" \/ pane.status = "ready")
                                 /\ \A b \in asks : a = b
Undisputed == ~crossing /\ activeId \in Records /\ activeId \notin outdated
PaneFollows ==
    Undisputed => /\ \A a \in asks : AskTells(a)
                  /\ asks = {} /\ pane.status = "ready" => ShowsRecord \/ Gone
PaneInv == DraftInv /\ OneAsk /\ PaneFollows

\* A sheet that is shown shows its record; nothing is under way.
LEMMA ShownShows ==
    ASSUME PaneInv, Undisputed, Shown, asks = {}
    PROVE  ShowsRecord
<1>1. selected # NoRecord /\ pane.status = "ready"
  BY DEF Shown
<1> QED
  BY <1>1 DEF PaneInv, PaneFollows, Gone

LEMMA OpenFollows ==
    ASSUME PaneInv, NEW r \in Records, Open(r)
    PROVE  OneAsk' /\ PaneFollows'
<1>1. CASE r = activeId
  <2>1. /\ selected' = r /\ board[r] # NoRecord
        /\ UNCHANGED <<activeId, pane, board, items, accounts, asks, crossing, outdated>>
    BY <1>1 DEF Open
  <2>2. OneAsk'
    BY <2>1 DEF PaneInv, OneAsk
  <2>3. ASSUME Undisputed' PROVE PaneFollows'
    <3>1. Undisputed
      BY <2>1, <2>3 DEF Undisputed
    <3>2. \A a \in asks' : AskTells(a)'
      BY <2>1, <3>1 DEF PaneInv, PaneFollows, AskTells, ItemAfter, AccountAfter, ReadsAgain, Removed
    <3>3. asks' = {} /\ pane'.status = "ready" => ShowsRecord'
      BY <1>1, <2>1, <3>1 DEF PaneInv, PaneFollows, ShowsRecord, Gone
    <3> QED
      BY <3>2, <3>3 DEF PaneFollows
  <2> QED
    BY <2>2, <2>3 DEF PaneFollows
<1>2. CASE r # activeId
  <2>1. PICK q : /\ q.of = "load" /\ q.id = r /\ q.step = "first"
                 /\ asks' = {a \in asks : a.of # "load"} \cup {q}
    <3>1. PICK q : q = [Question("load") EXCEPT !.id = r, !.previous = Nothing, !.to = "NEW", !.keepDraft = FALSE]
      OBVIOUS
    <3>2. q.of = "load" /\ q.id = r /\ q.step = "first"
      BY <3>1 DEF Question
    <3>3. asks' = {a \in asks : a.of # "load"} \cup {q}
      BY <1>2, <3>1 DEF Open
    <3> QED
      BY <3>2, <3>3
  <2>2. activeId' = r /\ (~crossing' => asks = {})
    BY <1>2 DEF Open
  <2>3. OneAsk'
    BY <2>1, <2>2 DEF OneAsk
  <2>4. PaneFollows'
    BY <2>1, <2>2 DEF PaneFollows, Undisputed, AskTells, ReadsAgain, Removed
  <2> QED
    BY <2>3, <2>4
<1> QED
  BY <1>1, <1>2

\* The sheet, its record and its request stay as they are.
LEMMA PaneStays ==
    ASSUME PaneInv, UNCHANGED <<activeId, pane, asks>>, ~crossing' => ~crossing,
           activeId \notin outdated' => activeId \notin outdated,
           Undisputed' => items'[activeId] = items[activeId] /\ accounts' = accounts
                          /\ (board[activeId] = NoRecord => board'[activeId] = NoRecord),
           selected = NoRecord => selected' = NoRecord
    PROVE  OneAsk' /\ PaneFollows'
<1>1. OneAsk'
  BY DEF PaneInv, OneAsk
<1>2. ASSUME Undisputed' PROVE PaneFollows'
  <2>1. Undisputed /\ items'[activeId'] = items[activeId] /\ accounts' = accounts
        /\ (board[activeId] = NoRecord => board'[activeId] = NoRecord)
    BY <1>2 DEF Undisputed
  <2>2. \A a \in asks' : AskTells(a)'
    BY <2>1 DEF PaneInv, PaneFollows, AskTells, ItemAfter, AccountAfter, ReadsAgain, Removed
  <2>3. asks' = {} /\ pane'.status = "ready" => ShowsRecord' \/ Gone'
    BY <2>1 DEF PaneInv, PaneFollows, ShowsRecord, Gone
  <2> QED
    BY <2>2, <2>3 DEF PaneFollows
<1> QED
  BY <1>1, <1>2 DEF PaneFollows

LEMMA UserFollows ==
    ASSUME PaneInv, Close \/ Edit \/ HandleCancelDraft \/ ChangedElsewhere
                    \/ (\E f \in Fields : UpdateDraft(f)) \/ (\E r \in Records : DraggedBehind(r))
    PROVE  OneAsk' /\ PaneFollows'
<1>1. CASE Close
  BY <1>1, PaneStays DEF Close
<1>2. CASE Edit
  BY <1>2, PaneStays DEF Edit
<1>3. ASSUME HandleCancelDraft \/ \E f \in Fields : UpdateDraft(f) PROVE OneAsk' /\ PaneFollows'
  <2>1. UNCHANGED <<activeId, pane, asks, items, accounts, board, selected, outdated>>
    BY <1>3 DEF HandleCancelDraft, UpdateDraft
  <2>2. ~crossing' => ~crossing
    BY <1>3, Zenon DEF HandleCancelDraft, UpdateDraft
  <2> QED
    BY <2>1, <2>2, PaneStays
<1>4. CASE ChangedElsewhere
  <2>1. selected = activeId
    BY <1>4, ShownIsActive DEF ChangedElsewhere, PaneInv, DraftInv
  <2>2. activeId \in outdated' /\ activeId' = activeId /\ UNCHANGED <<pane, asks, crossing>>
    BY <1>4, <2>1 DEF ChangedElsewhere
  <2> QED
    BY <2>2 DEF PaneInv, OneAsk, PaneFollows, Undisputed
<1>5. ASSUME NEW r \in Records, DraggedBehind(r) PROVE OneAsk' /\ PaneFollows'
  <2>1. UNCHANGED <<activeId, pane, asks, accounts, selected, crossing>> /\ outdated' = outdated \cup {r}
    BY <1>5 DEF DraggedBehind
  <2>2. activeId \notin outdated' /\ activeId \in Records =>
            items'[activeId] = items[activeId] /\ board'[activeId] = board[activeId]
    <3>1. activeId \notin outdated' => activeId # r
      BY <2>1
    <3> QED
      BY <1>5, <3>1 DEF DraggedBehind, PaneInv, DraftInv, SheetTypeOK
  <2> QED
    BY <2>1, <2>2, PaneStays DEF Undisputed
<1> QED
  BY <1>1, <1>2, <1>3, <1>4, <1>5

\* A request of the sheet begins when it shows its record, and it does.
LEMMA AskFollows ==
    ASSUME PaneInv, Shown, NEW q, q.id = activeId, q.of \in Kinds \ {"load", "reload"}, q.step = "first", Ask(q),
           UNCHANGED <<activeId, items, accounts, outdated>>, pane'.status = "ready",
           pane'.account = pane.account,
           IF q.of = "stage" THEN q.previous = pane.item ELSE pane'.item = pane.item
    PROVE  OneAsk' /\ PaneFollows'
<1>1. asks' = asks \cup {q} /\ (~crossing' => ~crossing /\ asks = {})
  <2>1. asks' = asks \cup {q} /\ crossing' = (crossing \/ asks # {})
    BY DEF Ask
  <2>2. ~crossing' => ~crossing /\ asks = {}
    BY <2>1, Zenon
  <2> QED
    BY <2>1, <2>2
<1>2. OneAsk'
  BY <1>1 DEF OneAsk
<1>3. ASSUME Undisputed' PROVE AskTells(q)' /\ asks' = {q}
  <2>1. Undisputed /\ asks = {} /\ asks' = {q}
    BY <1>1, <1>3 DEF Undisputed
  <2>2. pane.item = items[activeId] /\ (pane.account <=> activeId \in accounts)
    BY <2>1, ShownShows DEF ShowsRecord
  <2>3. ~Removed(q)' /\ ItemAfter(q)' = pane.item /\ AccountAfter(q)' = (pane.account \/ FALSE)
    BY DEF Removed, ItemAfter, AccountAfter
  <2> QED
    BY <2>1, <2>2, <2>3 DEF AskTells
<1>4. PaneFollows'
  BY <1>3 DEF PaneFollows
<1> QED
  BY <1>2, <1>4

LEMMA AskingFollows ==
    ASSUME PaneInv,
           \/ HandleSave \/ AddAccount \/ HandleDelete \/ \E of \in {"release", "assign"} : ChangeArea(of)
           \/ \E s \in DealStages \cup PartnerStages, b \in BOOLEAN : HandleStageChange(s, b)
    PROVE  OneAsk' /\ PaneFollows'
<1>1. SheetTypeOK /\ OpenIsActive
  BY DEF PaneInv, DraftInv
<1>2. Shown
  BY DEF HandleSave, AddAccount, HandleDelete, ChangeArea, HandleStageChange
<1>3. activeId \in Records /\ pane.status = "ready"
  BY <1>1, <1>2, ShownIsActive
<1>4. \A of \in Kinds : /\ Question(of) \in Asks
                        /\ Question(of).of = of /\ Question(of).id = activeId /\ Question(of).step = "first"
                        /\ Question(of).previous = pane.item
  BY <1>1, <1>3, QuestionIsAsk
<1>5. UNCHANGED <<activeId, items, accounts, outdated>>
  BY DEF HandleSave, AddAccount, HandleDelete, ChangeArea, HandleStageChange
<1>6. CASE HandleSave
  <2>1. PICK q : q = [Question("save") EXCEPT !.patch = BuildDetailsPatch(draft)]
    OBVIOUS
  <2>2. q.of = "save" /\ q.id = activeId /\ q.step = "first"
    BY <1>4, <2>1 DEF Kinds, Asks
  <2>3. Ask(q) /\ pane' = pane
    BY <1>6, <2>1 DEF HandleSave
  <2> QED
    BY <1>2, <1>3, <1>5, <2>2, <2>3, AskFollows DEF Kinds
<1>7. ASSUME NEW of \in {"account", "delete", "release", "assign"}, Ask(Question(of)), pane' = pane
      PROVE  OneAsk' /\ PaneFollows'
  <2>1. PICK q : q = Question(of)
    OBVIOUS
  <2>2. q.of = of /\ q.id = activeId /\ q.step = "first" /\ Ask(q)
    BY <1>4, <1>7, <2>1 DEF Kinds
  <2> QED
    BY <1>2, <1>3, <1>5, <1>7, <2>2, AskFollows DEF Kinds
<1>8. CASE AddAccount
  BY <1>7, <1>8 DEF AddAccount
<1>9. CASE HandleDelete
  BY <1>7, <1>9 DEF HandleDelete
<1>10. CASE \E of \in {"release", "assign"} : ChangeArea(of)
  BY <1>7, <1>10 DEF ChangeArea
<1>11. ASSUME NEW s \in DealStages \cup PartnerStages, NEW b \in BOOLEAN, HandleStageChange(s, b)
       PROVE  OneAsk' /\ PaneFollows'
  <2>1. PICK q : q = [Question("stage") EXCEPT !.to = s, !.release = b]
    OBVIOUS
  <2>2. q.of = "stage" /\ q.id = activeId /\ q.step = "first" /\ q.previous = pane.item
    BY <1>4, <2>1 DEF Kinds, Asks
  <2>3. Ask(q)
    BY <1>11, <2>1 DEF HandleStageChange
  <2>4. PICK i : pane' = [pane EXCEPT !.item = i]
    BY <1>3, <1>11 DEF HandleStageChange, SetDeal
  <2>5. pane'.status = "ready" /\ pane'.account = pane.account
    BY <1>1, <1>3, <2>4 DEF SheetTypeOK
  <2> QED
    BY <1>2, <1>5, <2>2, <2>3, <2>5, AskFollows DEF Kinds
<1> QED
  BY <1>6, <1>8, <1>9, <1>10, <1>11

\* As long as nothing has crossed, an answer replaces the one request.
LEMMA OneAskStays ==
    ASSUME PaneInv, NEW a \in asks, NEW b, asks' = (asks \ {a}) \cup {b}, b.id = a.id,
           b.of = a.of \/ (a.of # "load" /\ b.of # "load"), UNCHANGED <<activeId, pane>>, ~crossing' => ~crossing
    PROVE  OneAsk' /\ (~crossing' => asks' = {b} /\ a.id = activeId /\ (a.of = "load" \/ pane.status = "ready"))
<1>1. ~crossing' => asks' = {b} /\ a.id = activeId /\ (a.of = "load" \/ pane.status = "ready")
  BY DEF PaneInv, OneAsk
<1>2. ~crossing' => b.id = activeId' /\ (b.of = "load" \/ pane'.status = "ready")
  BY <1>1
<1>3. OneAsk'
  BY <1>1, <1>2 DEF OneAsk
<1> QED
  BY <1>1, <1>3

LEMMA AnswerLoadFollows ==
    ASSUME PaneInv, NEW a \in asks, AnswerLoadStep(a)
    PROVE  OneAsk' /\ PaneFollows'
<1>1. a \in Asks
  BY DEF PaneInv, DraftInv, SheetTypeOK
<1>2. UNCHANGED <<activeId, pane, items, accounts, crossing, outdated>> /\ a.of \in {"load", "reload"}
  BY DEF AnswerLoadStep
<1>3. PICK b : /\ asks' = (asks \ {a}) \cup {b} /\ b.of = a.of /\ b.id = a.id
               /\ \/ b.step = "failed"
                  \/ b.step = "second" /\ b.item = items[a.id]
                  \/ /\ b.step = "done" /\ a.step = "second" /\ b.item = a.item
                     /\ (b.account <=> a.id \in accounts)
  <2>1. PICK b \in {Fail(a)} \cup
                (IF a.step = "second" THEN {[a EXCEPT !.step = "done", !.account = a.id \in accounts]}
                 ELSE IF Found(a) THEN {[a EXCEPT !.step = "second", !.item = items[a.id]]} ELSE {}) :
            asks' = (asks \ {a}) \cup {b}
    BY DEF AnswerLoadStep
  <2>2. CASE b = Fail(a)
    <3>1. b.of = a.of /\ b.id = a.id /\ b.step = "failed"
      BY <1>1, <2>2 DEF Fail, Asks
    <3> QED
      BY <2>1, <3>1
  <2>3. CASE a.step = "second" /\ b = [a EXCEPT !.step = "done", !.account = a.id \in accounts]
    <3>1. b.of = a.of /\ b.id = a.id /\ b.step = "done" /\ b.item = a.item
      BY <1>1, <2>3 DEF Asks
    <3>2. b.account <=> a.id \in accounts
      BY <1>1, <2>3 DEF Asks
    <3> QED
      BY <2>1, <2>3, <3>1, <3>2
  <2>4. CASE b = [a EXCEPT !.step = "second", !.item = items[a.id]]
    <3>1. b.of = a.of /\ b.id = a.id /\ b.step = "second" /\ b.item = items[a.id]
      BY <1>1, <2>4 DEF Asks
    <3> QED
      BY <2>1, <3>1
  <2> QED
    BY <2>1, <2>2, <2>3, <2>4
<1>4. OneAsk' /\ (~crossing' => asks' = {b} /\ a.id = activeId)
  BY <1>2, <1>3, OneAskStays
<1>5. ASSUME Undisputed' PROVE AskTells(b)'
  <2>1. Undisputed /\ a.id = activeId /\ AskTells(a)
    BY <1>2, <1>4, <1>5 DEF Undisputed, PaneInv, PaneFollows
  <2>2. b.step = "second" => b.item = items[activeId]
    BY <1>3, <2>1
  <2>3. b.step = "done" => b.item = items[activeId] /\ (b.account <=> activeId \in accounts)
    BY <1>2, <1>3, <2>1 DEF AskTells
  <2>4. b.of \in {"load", "reload"}
    BY <1>2, <1>3
  <2> QED
    BY <1>2, <2>2, <2>3, <2>4 DEF AskTells, ReadsAgain, Removed, ItemAfter, AccountAfter
<1>6. PaneFollows'
  BY <1>4, <1>5 DEF PaneFollows, Undisputed
<1> QED
  BY <1>4, <1>6

LEMMA AnswerChangeFollows ==
    ASSUME PaneInv, NEW a \in asks, AnswerChange(a)
    PROVE  OneAsk' /\ PaneFollows'
<1>1. a \in Asks /\ SheetTypeOK /\ a.of \in Kinds \ {"load", "reload"} /\ a.step = "first" /\ a.id \in Records
  BY DEF PaneInv, DraftInv, SheetTypeOK, AnswerChange, Asks
<1>2. /\ Refused(a) \/ WentThrough(a) \/ Lost(a)
      /\ UNCHANGED <<activeId, pane, board, outdated, selected>>
  BY ChangeIsAnswered
<1>3. ~crossing' => ~crossing
  <2>1. crossing' = crossing \/ crossing' = TRUE
    BY <1>2 DEF Refused, WentThrough, Lost
  <2> QED
    BY <2>1, Zenon
<1>4. CASE Refused(a) \/ Lost(a)
  <2>1. PICK b : b = Fail(a)
    OBVIOUS
  <2>2. b.of = a.of /\ b.id = a.id /\ b.step = "failed" /\ b.previous = a.previous
    BY <1>1, <2>1 DEF Fail, Asks
  <2>3. asks' = (asks \ {a}) \cup {b}
    BY <1>4, <2>1 DEF Refused, Lost
  <2>4. OneAsk' /\ (~crossing' => asks' = {b} /\ a.id = activeId)
    BY <1>2, <1>3, <2>2, <2>3, OneAskStays
  <2>5. ASSUME Undisputed' PROVE AskTells(b)'
    <3>1. Undisputed /\ AskTells(a) /\ UNCHANGED <<items, accounts>>
      BY <1>2, <1>3, <1>4, <2>5 DEF Undisputed, PaneInv, PaneFollows, Refused, Lost
    <3>2. ItemAfter(a) = items[activeId] /\ (AccountAfter(a) <=> activeId \in accounts)
      BY <1>1, <3>1 DEF AskTells, ReadsAgain, Removed
    <3>3. ItemAfter(b) = ItemAfter(a) /\ (AccountAfter(b) <=> AccountAfter(a))
      BY <1>1, <2>2 DEF ItemAfter, AccountAfter
    <3>4. ItemAfter(b)' = ItemAfter(b) /\ AccountAfter(b)' = AccountAfter(b)
      BY <1>2 DEF ItemAfter, AccountAfter
    <3>5. b.of \notin {"load", "reload"} /\ b.step = "failed"
      BY <1>1, <2>2
    <3> QED
      BY <1>2, <3>1, <3>2, <3>3, <3>4, <3>5 DEF AskTells, Removed
  <2>6. PaneFollows'
    BY <2>4, <2>5 DEF PaneFollows, Undisputed
  <2> QED
    BY <2>4, <2>6
<1>5. CASE WentThrough(a)
  <2>1. PICK b \in Asks :
            /\ asks' = (asks \ {a}) \cup {b}
            /\ b.of = a.of /\ b.id = a.id /\ b.step = "done" /\ b.item = Changed(a)
            /\ (b.account = (a.id \in accounts'))
    BY <1>1, <1>5, DoneCarries
  <2>2. OneAsk' /\ (~crossing' => asks' = {b} /\ a.id = activeId)
    BY <1>2, <1>3, <2>1, OneAskStays
  <2>3. ASSUME Undisputed' PROVE AskTells(b)'
    <3>1. Undisputed /\ AskTells(a) /\ a.id = activeId
      BY <1>2, <1>3, <2>2, <2>3 DEF Undisputed, PaneInv, PaneFollows
    <3>2. items'[activeId] = IF a.of = "delete" THEN NoRecord ELSE Changed(a)
      BY <1>1, <1>5, <3>1, CarriedIsTyped DEF WentThrough, SheetTypeOK
    <3>3. ItemAfter(a) = items[activeId] /\ (AccountAfter(a) <=> activeId \in accounts)
      BY <1>1, <3>1 DEF AskTells, ReadsAgain, Removed
    <3>4. a.of # "stage" => pane.item = items[activeId]
      BY <1>1, <3>3 DEF ItemAfter
    <3>5. pane.account <=> activeId \in accounts
      BY <1>1, <3>3 DEF AccountAfter
    <3>6. /\ accounts \subseteq accounts' /\ (a.of # "account" => accounts' = accounts)
      BY <1>5 DEF WentThrough, CarryOut
    <3>7. b.account <=> activeId \in accounts'
      BY <2>1, <3>1
    <3>8. a.of = "account" => Changed(a) = items[activeId]
      BY <3>1 DEF Changed
    <3>9. /\ b.of \notin {"load", "reload"} /\ b.step = "done" /\ (Removed(b) <=> a.of = "delete")
          /\ (ReadsAgain(b) <=> a.of \in {"release", "assign"})
      BY <1>1, <2>1 DEF Removed, ReadsAgain
    <3>10. Removed(b)' = Removed(b) /\ ReadsAgain(b)' = ReadsAgain(b)
      BY DEF Removed, ReadsAgain
    <3>11. CASE a.of = "delete"
      BY <1>2, <3>2, <3>9, <3>10, <3>11 DEF AskTells
    <3>12. CASE a.of \in {"release", "assign"}
      BY <3>9, <3>10, <3>12 DEF AskTells
    <3>13. CASE a.of \in {"save", "stage"}
      <4>1. ItemAfter(b)' = Changed(a) /\ (AccountAfter(b)' <=> pane.account)
        BY <1>2, <2>1, <3>13 DEF ItemAfter, AccountAfter
      <4> QED
        BY <1>2, <3>2, <3>5, <3>6, <3>9, <3>10, <3>13, <4>1 DEF AskTells
    <3>14. CASE a.of = "account"
      <4>1. ItemAfter(b)' = pane.item /\ (AccountAfter(b)' <=> pane.account \/ b.account)
        BY <1>2, <2>1, <3>14 DEF ItemAfter, AccountAfter
      <4>2. AccountAfter(b)' <=> activeId \in accounts'
        BY <3>5, <3>6, <3>7, <4>1
      <4> QED
        BY <1>2, <3>2, <3>4, <3>8, <3>9, <3>10, <3>14, <4>1, <4>2 DEF AskTells
    <3> QED
      BY <1>1, <3>11, <3>12, <3>13, <3>14 DEF Kinds
  <2>4. PaneFollows'
    BY <2>2, <2>3 DEF PaneFollows, Undisputed
  <2> QED
    BY <2>2, <2>4
<1> QED
  BY <1>2, <1>4, <1>5

\* The one request is answered for good: the sheet shows its record.
LEMMA TakenFollows ==
    ASSUME PaneInv, NEW a \in asks, asks' = asks \ {a}, activeId' = activeId, items' = items,
           Undisputed' => Undisputed, ~crossing' => ~crossing,
           Undisputed' /\ pane'.status = "ready" => ShowsRecord' \/ Gone'
    PROVE  OneAsk' /\ PaneFollows'
<1>1. ~crossing' => asks' = {}
  BY DEF PaneInv, OneAsk
<1> QED
  BY <1>1 DEF OneAsk, PaneFollows, Undisputed

\* What is known of a request when it is answered.
LEMMA AnswerTells ==
    ASSUME PaneInv, Undisputed, NEW a \in asks
    PROVE  /\ a.id = activeId /\ AskTells(a) /\ asks \ {a} = {}
           /\ a.of = "load" \/ pane.status = "ready"
BY DEF PaneInv, PaneFollows, OneAsk, Undisputed

LEMMA ReceivingLoadFollows ==
    ASSUME PaneInv, NEW a \in asks, ReceiveLoaded(a) \/ ReceiveReloaded(a)
    PROVE  OneAsk' /\ PaneFollows'
<1>1. /\ asks' = asks \ {a} /\ a.of \in {"load", "reload"} /\ a.step \in {"done", "failed"}
      /\ UNCHANGED <<activeId, items, accounts, outdated>>
  BY DEF ReceiveLoaded, ReceiveReloaded, Take
<1>2. ~crossing' => ~crossing
  <2>1. crossing' = crossing \/ crossing' = TRUE
    BY DEF ReceiveLoaded, ReceiveReloaded
  <2> QED
    BY <2>1, Zenon
<1>3. Undisputed' => Undisputed
  BY <1>1, <1>2 DEF Undisputed
<1>4. ASSUME Undisputed', pane'.status = "ready" PROVE ShowsRecord'
  <2>1. a.id = activeId /\ AskTells(a)
    BY <1>3, <1>4, AnswerTells
  <2>2. pane' = Content(a) /\ a.step = "done"
    <3>1. CASE ReceiveLoaded(a)
      <4>1. a.step # "failed"
        BY <1>4, <3>1 DEF ReceiveLoaded, SheetLoad
      <4> QED
        BY <1>1, <3>1, <4>1 DEF ReceiveLoaded
    <3>2. CASE ReceiveReloaded(a)
      <4>1. a.step # "failed"
        BY <1>4, <3>2 DEF ReceiveReloaded, Undisputed
      <4> QED
        BY <1>1, <2>1, <3>2, <4>1 DEF ReceiveReloaded, Mine
    <3> QED
      BY <3>1, <3>2
  <2>3. pane'.item = a.item /\ pane'.account = a.account
    BY <2>2 DEF Content
  <2>4. a.item = items[activeId] /\ (a.account <=> activeId \in accounts)
    BY <1>1, <2>1, <2>2 DEF AskTells, ReadsAgain, Removed, ItemAfter, AccountAfter
  <2> QED
    BY <1>1, <2>3, <2>4 DEF ShowsRecord
<1> QED
  BY <1>1, <1>2, <1>3, <1>4, TakenFollows

LEMMA ReceivingChangeFollows ==
    ASSUME PaneInv, NEW a \in asks, ReceiveSaved(a) \/ ReceiveStage(a)
    PROVE  OneAsk' /\ PaneFollows'
<1>1. /\ asks' = asks \ {a} /\ a.of \in {"save", "stage"} /\ a.step \in {"done", "failed"}
      /\ UNCHANGED <<activeId, items, accounts, outdated, crossing>>
  BY DEF ReceiveSaved, ReceiveStage, Take
<1>2. Undisputed' => Undisputed
  BY <1>1 DEF Undisputed
<1>3. ASSUME Undisputed', pane'.status = "ready" PROVE ShowsRecord'
  <2>1. a.id = activeId /\ AskTells(a) /\ pane.status = "ready"
    BY <1>1, <1>2, <1>3, AnswerTells
  <2>2. ItemAfter(a) = items[activeId] /\ (AccountAfter(a) <=> activeId \in accounts)
    BY <1>1, <2>1 DEF AskTells, ReadsAgain, Removed
  <2>3. AccountAfter(a) <=> pane.account
    BY <1>1 DEF AccountAfter
  <2>4. CASE pane' = pane /\ ItemAfter(a) = pane.item
    BY <1>1, <2>2, <2>3, <2>4 DEF ShowsRecord
  <2>5. CASE pane' = [pane EXCEPT !.item = ItemAfter(a)]
    <3>1. pane'.item = ItemAfter(a) /\ pane'.account = pane.account
      BY <2>5 DEF PaneInv, DraftInv, SheetTypeOK
    <3> QED
      BY <1>1, <2>2, <2>3, <3>1 DEF ShowsRecord
  <2>6. CASE a.of = "save" /\ a.step = "failed"
    BY <1>1, <2>4, <2>6 DEF ReceiveSaved, ReceiveStage, ItemAfter
  <2>7. CASE a.of = "save" /\ a.step = "done"
    BY <2>1, <2>5, <2>7 DEF ReceiveSaved, ReceiveStage, ItemAfter, SetDeal
  <2>8. CASE a.of = "stage"
    <3>1. SetDeal(activeId, AfterStage(a), ~KeepsDraft(a))
      BY <2>1, <2>8 DEF ReceiveSaved, ReceiveStage
    <3>2. AfterStage(a) = ItemAfter(a)
      BY <1>1, <2>8 DEF AfterStage, ItemAfter
    <3> QED
      BY <2>1, <2>5, <3>1, <3>2 DEF SetDeal
  <2> QED
    BY <1>1, <2>6, <2>7, <2>8
<1> QED
  BY <1>1, <1>2, <1>3, TakenFollows

LEMMA ReceivingRestFollows ==
    ASSUME PaneInv, NEW a \in asks, ReceiveArea(a) \/ ReceiveAccount(a) \/ ReceiveDeleted(a)
    PROVE  OneAsk' /\ PaneFollows'
<1>1. a \in Asks /\ SheetTypeOK
  BY DEF PaneInv, DraftInv, SheetTypeOK
<1>2. /\ a.step \in {"done", "failed"} /\ a.of \in {"release", "assign", "account", "delete"}
      /\ UNCHANGED <<activeId, items, accounts, outdated, crossing>>
  BY DEF ReceiveArea, ReceiveAccount, ReceiveDeleted
<1>3. Undisputed' => Undisputed
  BY <1>2 DEF Undisputed
<1>4. ASSUME Undisputed, ~Removed(a), ~ReadsAgain(a) PROVE pane.item = items[activeId] /\ (AccountAfter(a) <=> activeId \in accounts)
  <2>1. ItemAfter(a) = items[activeId] /\ (AccountAfter(a) <=> activeId \in accounts)
    BY <1>4, AnswerTells DEF AskTells
  <2>2. ItemAfter(a) = pane.item
    BY <1>2 DEF ItemAfter
  <2> QED
    BY <2>1, <2>2
<1>5. CASE ReceiveArea(a) /\ a.step = "failed"
  <2>1. asks' = asks \ {a} /\ pane' = pane
    BY <1>5 DEF ReceiveArea
  <2>2. Undisputed' => ShowsRecord'
    BY <1>2, <1>3, <1>4, <1>5, <2>1 DEF ReceiveArea, Removed, ReadsAgain, AccountAfter, ShowsRecord
  <2> QED
    BY <1>2, <1>3, <2>1, <2>2, TakenFollows
<1>6. CASE ReceiveArea(a) /\ a.step = "done"
  <2>1. PICK b : b = [a EXCEPT !.of = "reload", !.step = "first", !.item = NoRecord]
    OBVIOUS
  <2>2. b.of = "reload" /\ b.step = "first" /\ b.id = a.id
    BY <1>1, <2>1 DEF Asks
  <2>3. asks' = (asks \ {a}) \cup {b} /\ pane' = pane /\ a.of \in {"release", "assign"}
    BY <1>6, <2>1 DEF ReceiveArea
  <2>4. OneAsk' /\ (~crossing' => asks' = {b})
    BY <1>2, <2>2, <2>3, OneAskStays
  <2>5. AskTells(b)'
    BY <2>2 DEF AskTells, ReadsAgain, Removed
  <2> QED
    BY <2>4, <2>5 DEF PaneFollows, Undisputed
<1>7. CASE ReceiveAccount(a)
  <2>1. asks' = asks \ {a} /\ a.of = "account"
    BY <1>7 DEF ReceiveAccount, Take
  <2>2. ASSUME Undisputed' PROVE ShowsRecord'
    <3>1. pane.item = items[activeId] /\ (AccountAfter(a) <=> activeId \in accounts)
      BY <1>3, <1>4, <2>1, <2>2 DEF Removed, ReadsAgain
    <3>2. a.id = activeId /\ pane.status = "ready"
      BY <1>3, <2>1, <2>2, AnswerTells
    <3>3. pane' = IF a.step = "done" THEN [pane EXCEPT !.account = pane.account \/ a.account] ELSE pane
      BY <1>7, <3>2 DEF ReceiveAccount, Mine
    <3>4. pane'.item = pane.item /\ (pane'.account <=> AccountAfter(a))
      <4>1. CASE a.step = "done"
        <5>1. pane' = [pane EXCEPT !.account = pane.account \/ a.account]
          BY <3>3, <4>1
        <5>2. pane'.item = pane.item /\ pane'.account = (pane.account \/ a.account)
          BY <1>1, <5>1 DEF SheetTypeOK
        <5> QED
          BY <2>1, <4>1, <5>2 DEF AccountAfter
      <4>2. CASE a.step # "done"
        BY <3>3, <2>1, <4>2 DEF AccountAfter
      <4> QED
        BY <4>1, <4>2
    <3> QED
      BY <1>2, <3>1, <3>4 DEF ShowsRecord
  <2> QED
    BY <1>2, <1>3, <2>1, <2>2, TakenFollows
<1>8. CASE ReceiveDeleted(a)
  <2>1. asks' = asks \ {a} /\ a.of = "delete" /\ pane' = pane
    BY <1>8 DEF ReceiveDeleted, Take
  <2>2. ASSUME Undisputed' PROVE ShowsRecord' \/ Gone'
    <3>1. CASE a.step = "failed"
      <4>1. pane.item = items[activeId] /\ (AccountAfter(a) <=> activeId \in accounts)
        BY <1>3, <1>4, <2>1, <2>2, <3>1 DEF Removed, ReadsAgain
      <4> QED
        BY <1>2, <2>1, <4>1 DEF AccountAfter, ShowsRecord
    <3>2. CASE a.step = "done"
      <4>1. items[activeId] = NoRecord /\ a.id = activeId
        BY <1>3, <2>1, <2>2, <3>2, AnswerTells DEF AskTells, Removed
      <4>2. selected' = NoRecord /\ board' = [board EXCEPT ![activeId] = NoRecord]
        BY <1>8, <3>2, <4>1 DEF ReceiveDeleted
      <4>3. board'[activeId] = NoRecord
        BY <1>1, <1>3, <2>2, <4>2 DEF SheetTypeOK, Undisputed
      <4> QED
        BY <1>2, <4>1, <4>2, <4>3 DEF Gone
    <3> QED
      BY <1>2, <3>1, <3>2
  <2> QED
    BY <1>2, <1>3, <2>1, <2>2, TakenFollows
<1> QED
  BY <1>2, <1>5, <1>6, <1>7, <1>8

LEMMA SheetNextFollows ==
    ASSUME PaneInv, SheetStep
    PROVE  OneAsk' /\ PaneFollows'
BY OpenFollows, UserFollows, AskingFollows, AnswerLoadFollows, AnswerChangeFollows, ReceivingLoadFollows,
   ReceivingChangeFollows, ReceivingRestFollows DEF SheetStep

\* The board is told what the sheet is told: it has the stage of a record that has never
\* gone astray, unless a stage is under way, shown in advance, or the record is deleted.
MarkedAstray ==
    /\ crossing => activeId \in astray \cup {NoRecord} /\ \A a \in asks : a.id \in astray
    /\ activeId \in outdated => activeId \in astray
SameStage(r) == board[r] # NoRecord => items[r] # NoRecord /\ board[r].stage = items[r].stage
Told(r)      == SameStage(r) \/ (r = activeId /\ \E a \in asks : a.of = "stage" \/ Removed(a))
BoardFollows == \A r \in Records \ astray : Told(r)
AgreeInv == PaneInv /\ MarkedAstray /\ BoardFollows

LEMMA AstrayIsMarked ==
    ASSUME SheetTypeOK', Strays
    PROVE  MarkedAstray' /\ astray \subseteq astray'
<1>1. astray \subseteq astray'
  BY DEF Strays
<1>2. \A a \in asks' : a.id \in Records
  BY DEF SheetTypeOK, Asks
<1>3. activeId' \in Records \cup {NoRecord} /\ outdated' \subseteq Records
  BY DEF SheetTypeOK
<1>4. \A r \in Records : (crossing' /\ (r \in {activeId, activeId'} \/ \E a \in asks' : a.id = r))
                         \/ (r = activeId' /\ r \in outdated') => r \in astray'
  BY DEF Strays
<1> QED
  BY <1>1, <1>2, <1>3, <1>4 DEF MarkedAstray

\* A record that is not astray and is asked about is that of the sheet, which is
\* undisputed.
LEMMA AskedIsActive ==
    ASSUME AgreeInv, NEW r \in Records \ astray
    PROVE  /\ r = activeId => Undisputed
           /\ \A a \in asks : a.id = r => Undisputed /\ r = activeId
           /\ \A a \in asks : a.id # r => SameStage(r)
<1>1. r = activeId => Undisputed
  BY NoRecordIsNone DEF AgreeInv, MarkedAstray, Undisputed
<1>2. \A a \in asks : a.id = r => Undisputed /\ r = activeId
  BY <1>1 DEF AgreeInv, MarkedAstray, PaneInv, OneAsk
<1>3. ASSUME NEW a \in asks, a.id # r PROVE SameStage(r)
  <2>1. r # activeId
    BY <1>1, <1>3 DEF AgreeInv, PaneInv, OneAsk, Undisputed
  <2> QED
    BY <2>1 DEF AgreeInv, BoardFollows, Told
<1> QED
  BY <1>1, <1>2, <1>3

\* The board and the records stay, and so do the requests that explain a difference.
LEMMA BoardStays ==
    ASSUME AgreeInv, astray \subseteq astray', UNCHANGED <<board, items>>, MarkedAstray',
           activeId' = activeId,
           \A a \in asks : a.of = "stage" \/ Removed(a) => a \in asks'
    PROVE  BoardFollows'
<1> SUFFICES ASSUME NEW r \in Records \ astray' PROVE Told(r)'
  BY DEF BoardFollows
<1>1. Told(r)
  BY DEF AgreeInv, BoardFollows
<1>2. \A a : Removed(a)' = Removed(a)
  BY DEF Removed
<1> QED
  BY <1>1, <1>2 DEF Told, SameStage

LEMMA UserTellsBoard ==
    ASSUME AgreeInv, DraftInv', MarkedAstray', astray \subseteq astray', Strays,
           \/ \E r \in Records : Open(r) \/ DraggedBehind(r)
           \/ ChangedElsewhere \/ Close \/ Edit \/ HandleCancelDraft \/ HandleSave \/ AddAccount \/ HandleDelete
           \/ \E f \in Fields : UpdateDraft(f)
           \/ \E of \in {"release", "assign"} : ChangeArea(of)
    PROVE  BoardFollows'
<1>1. ASSUME NEW r \in Records, Open(r) PROVE BoardFollows'
  <2>1. CASE r = activeId
    <3>1. UNCHANGED <<board, items, activeId, asks>>
      BY <1>1, <2>1 DEF Open
    <3> QED
      BY <3>1, BoardStays
  <2>2. CASE r # activeId
    <3>1. UNCHANGED <<board, items>> /\ (crossing' <=> asks # {}) /\ activeId' = r
      BY <1>1, <2>2 DEF Open
    <3>2. ASSUME NEW k \in Records \ astray' PROVE Told(k)'
      <4>1. Told(k)
        BY <3>2 DEF AgreeInv, BoardFollows
      <4>2. k = activeId => asks = {}
        BY <3>1, <3>2 DEF Strays
      <4>3. SameStage(k)
        BY <4>1, <4>2 DEF Told
      <4> QED
        BY <3>1, <4>3 DEF Told, SameStage
    <3> QED
      BY <3>2 DEF BoardFollows
  <2> QED
    BY <2>1, <2>2
<1>2. ASSUME NEW r \in Records, DraggedBehind(r) PROVE BoardFollows'
  <2>1. PICK s \in DealStages \cup PartnerStages :
            items' = [items EXCEPT ![r].stage = s] /\ board' = [board EXCEPT ![r] = items'[r]]
    BY <1>2 DEF DraggedBehind
  <2>2. UNCHANGED <<activeId, asks>> /\ board[r] # NoRecord /\ items[r] # NoRecord
    BY <1>2 DEF DraggedBehind
  <2>3. {board, items} \subseteq [Records -> Items \cup {NoRecord}]
    BY DEF AgreeInv, PaneInv, DraftInv, SheetTypeOK
  <2>4. board'[r] = items'[r] /\ items'[r] # NoRecord
    <3>1. board'[r] = items'[r]
      BY <2>1, <2>3
    <3>2. PICK j : j = [items[r] EXCEPT !.stage = s]
      OBVIOUS
    <3>3. j \in Items
      BY <2>2, <2>3, <3>2 DEF Items
    <3>4. items'[r] = j
      BY <2>1, <2>3, <3>2
    <3> QED
      BY <3>1, <3>3, <3>4, NoRecordIsNone
  <2>5. \A k \in Records \ {r} : board'[k] = board[k] /\ items'[k] = items[k]
    BY <2>1, <2>3
  <2>6. ASSUME NEW k \in Records \ astray' PROVE Told(k)'
    <3>1. Told(k)
      BY <2>6 DEF AgreeInv, BoardFollows
    <3>2. \A a : Removed(a)' = Removed(a)
      BY DEF Removed
    <3>3. CASE k = r
      BY <2>4, <3>3 DEF Told, SameStage
    <3>4. CASE k # r
      <4>1. board'[k] = board[k] /\ items'[k] = items[k]
        BY <2>5, <3>4
      <4> QED
        BY <2>2, <3>1, <3>2, <4>1 DEF Told, SameStage
    <3> QED
      BY <3>3, <3>4
  <2> QED
    BY <2>6 DEF BoardFollows
<1>3. CASE ChangedElsewhere
  <2>1. selected = activeId /\ activeId \in Records
    BY <1>3, ShownIsActive DEF ChangedElsewhere, AgreeInv, PaneInv, DraftInv
  <2>2. UNCHANGED <<activeId, asks, board>> /\ activeId \in outdated'
    BY <1>3, <2>1 DEF ChangedElsewhere
  <2>3. activeId \in astray'
    BY <2>2 DEF MarkedAstray
  <2>4. \A k \in Records \ {activeId} : items'[k] = items[k]
    BY <1>3, <2>1 DEF ChangedElsewhere, AgreeInv, PaneInv, DraftInv, SheetTypeOK
  <2>5. ASSUME NEW k \in Records \ astray' PROVE Told(k)'
    <3>1. Told(k) /\ k # activeId
      BY <2>3, <2>5 DEF AgreeInv, BoardFollows
    <3> QED
      BY <2>2, <2>4, <3>1 DEF Told, SameStage
  <2> QED
    BY <2>5 DEF BoardFollows
<1>4. ASSUME \/ Close \/ Edit \/ HandleCancelDraft \/ HandleSave \/ AddAccount \/ HandleDelete
             \/ \E f \in Fields : UpdateDraft(f)
             \/ \E of \in {"release", "assign"} : ChangeArea(of)
      PROVE  BoardFollows'
  <2>1. UNCHANGED <<board, items, activeId>> /\ asks \subseteq asks'
    BY <1>4 DEF Close, Edit, HandleCancelDraft, HandleSave, AddAccount, HandleDelete, UpdateDraft, ChangeArea, Ask
  <2> QED
    BY <2>1, BoardStays
<1> QED
  BY <1>1, <1>2, <1>3, <1>4

LEMMA StageTellsBoard ==
    ASSUME AgreeInv, MarkedAstray', astray \subseteq astray',
           NEW s \in DealStages \cup PartnerStages, NEW b \in BOOLEAN, HandleStageChange(s, b)
    PROVE  BoardFollows'
<1>1. PICK q : q = [Question("stage") EXCEPT !.to = s, !.release = b]
  OBVIOUS
<1>2. q.of = "stage" /\ asks' = asks \cup {q}
  BY <1>1 DEF HandleStageChange, Ask, Question
<1>3. UNCHANGED <<items, activeId>>
  BY DEF HandleStageChange
<1>4. \A k \in Records \ {activeId} : board'[k] = board[k]
  BY DEF HandleStageChange, SetDeal, AgreeInv, PaneInv, DraftInv, SheetTypeOK
<1>5. ASSUME NEW k \in Records \ astray' PROVE Told(k)'
  <2>1. Told(k)
    BY <1>5 DEF AgreeInv, BoardFollows
  <2>2. CASE k = activeId
    BY <1>2, <1>3, <2>2 DEF Told
  <2>3. CASE k # activeId
    BY <1>3, <1>4, <2>1, <2>3 DEF Told, SameStage
  <2> QED
    BY <2>2, <2>3
<1> QED
  BY <1>5 DEF BoardFollows

LEMMA AnswerTellsBoard ==
    ASSUME AgreeInv, MarkedAstray', astray \subseteq astray', NEW a \in asks, AnswerLoadStep(a) \/ AnswerChange(a)
    PROVE  BoardFollows'
<1>1. a \in Asks /\ SheetTypeOK /\ a.id \in Records
  BY DEF AgreeInv, PaneInv, DraftInv, SheetTypeOK, Asks
<1>2. CASE AnswerLoadStep(a)
  <2>1. UNCHANGED <<board, items, activeId>> /\ a.of \in {"load", "reload"} /\ asks \ {a} \subseteq asks'
    BY <1>2 DEF AnswerLoadStep
  <2> QED
    BY <2>1, BoardStays DEF Removed
<1>3. CASE AnswerChange(a)
  <2>1. /\ Refused(a) \/ WentThrough(a) \/ Lost(a)
        /\ UNCHANGED <<activeId, board>> /\ a.step = "first" /\ a.of \notin {"load", "reload"}
    BY <1>3, ChangeIsAnswered
  <2>2. Fail(a).of = a.of /\ Fail(a).id = a.id
    BY <1>1 DEF Fail, Asks
  <2>3. ASSUME NEW k \in Records \ astray', k # a.id PROVE Told(k)'
    <3>1. SameStage(k)
      BY <2>3, AskedIsActive
    <3>2. items'[k] = items[k]
      BY <1>1, <2>1, <2>3, CarriedIsTyped DEF Refused, WentThrough, Lost, SheetTypeOK
    <3> QED
      BY <2>1, <3>1, <3>2 DEF Told, SameStage
  <2>4. ASSUME a.id \notin astray' PROVE Told(a.id)'
    <3>1. a.id = activeId /\ Undisputed /\ asks = {a} /\ Told(a.id)
      <4>1. a.id \in Records \ astray
        BY <1>1, <2>4
      <4>2. a.id = activeId /\ Undisputed /\ Told(a.id)
        BY <4>1, AskedIsActive DEF AgreeInv, BoardFollows
      <4> QED
        BY <4>2 DEF AgreeInv, PaneInv, OneAsk, Undisputed
    <3>2. a.of # "stage" => SameStage(a.id)
      BY <2>1, <3>1 DEF Told, Removed
    <3>3. CASE Refused(a)
      <4>1. items' = items /\ asks' = {Fail(a)}
        BY <3>1, <3>3 DEF Refused
      <4> QED
        BY <2>1, <2>2, <3>1, <3>2, <4>1 DEF Told, SameStage
    <3>4. CASE Lost(a)
      <4>1. crossing' /\ Fail(a) \in asks'
        BY <3>4 DEF Lost
      <4> QED
        BY <2>2, <2>4, <4>1 DEF MarkedAstray
    <3>5. CASE WentThrough(a)
      <4>1. PICK b : b \in asks' /\ b.of = a.of /\ b.step = "done"
        BY <1>1, <3>5, DoneCarries
      <4>2. items'[a.id] = IF a.of = "delete" THEN NoRecord ELSE Changed(a)
        BY <1>1, <3>5, CarriedIsTyped DEF WentThrough, SheetTypeOK
      <4>3. a.of # "stage" => Changed(a).stage = items[a.id].stage /\ Changed(a) \in Items /\ items[a.id] # NoRecord
        BY <1>1, <3>5, ChangedIsItem DEF WentThrough, CarryOut, Accepts, Found
      <4>4. CASE a.of \in {"stage", "delete"}
        BY <2>1, <3>1, <4>1, <4>4 DEF Told, Removed
      <4>5. CASE a.of \notin {"stage", "delete"}
        <5>1. SameStage(a.id) /\ items'[a.id] = Changed(a) /\ Changed(a) # NoRecord
          BY <3>2, <4>2, <4>3, <4>5, NoRecordIsNone
        <5> QED
          BY <2>1, <4>3, <4>5, <5>1 DEF Told, SameStage
      <4> QED
        BY <4>4, <4>5
    <3> QED
      BY <2>1, <3>3, <3>4, <3>5
  <2> QED
    BY <1>1, <2>3, <2>4 DEF BoardFollows
<1> QED
  BY <1>2, <1>3

\* An answer that reaches the board carries the stage that the API has.
LEMMA ReceivedTellsBoard ==
    ASSUME AgreeInv, MarkedAstray', astray \subseteq astray', NEW a \in asks,
           \/ ReceiveLoaded(a) \/ ReceiveReloaded(a) \/ ReceiveSaved(a) \/ ReceiveStage(a)
           \/ ReceiveArea(a) \/ ReceiveAccount(a) \/ ReceiveDeleted(a)
    PROVE  BoardFollows'
<1>1. /\ a \in Asks /\ SheetTypeOK /\ a.id \in Records /\ board \in [Records -> Items \cup {NoRecord}]
      /\ a.step \in {"done", "failed"} /\ UNCHANGED <<items, activeId>>
  BY DEF AgreeInv, PaneInv, DraftInv, SheetTypeOK, Asks, ReceiveLoaded, ReceiveReloaded, ReceiveSaved, ReceiveStage,
         ReceiveArea, ReceiveAccount, ReceiveDeleted
<1>2. \A k \in Records \ {a.id} : board'[k] = board[k]
  <2>1. CASE \/ ReceiveLoaded(a) \/ ReceiveArea(a) \/ ReceiveAccount(a)
             \/ ((ReceiveReloaded(a) \/ ReceiveSaved(a) \/ ReceiveDeleted(a)) /\ a.step = "failed")
    BY <2>1 DEF ReceiveLoaded, ReceiveReloaded, ReceiveSaved, ReceiveArea, ReceiveAccount, ReceiveDeleted
  <2>2. CASE ReceiveReloaded(a) /\ a.step = "done"
    BY <1>1, <2>2 DEF ReceiveReloaded
  <2>3. CASE ReceiveSaved(a) /\ a.step = "done"
    BY <1>1, <2>3 DEF ReceiveSaved, SetDeal
  <2>4. CASE ReceiveStage(a)
    BY <1>1, <2>4 DEF ReceiveStage, SetDeal
  <2>5. CASE ReceiveDeleted(a) /\ a.step = "done"
    BY <1>1, <2>5 DEF ReceiveDeleted
  <2> QED
    BY <1>1, <2>1, <2>2, <2>3, <2>4, <2>5
<1>3. ASSUME NEW k \in Records \ astray', k # a.id PROVE Told(k)'
  <2>1. SameStage(k)
    BY <1>3, AskedIsActive
  <2> QED
    BY <1>1, <1>2, <1>3, <2>1 DEF Told, SameStage
<1>4. ASSUME a.id \notin astray' PROVE SameStage(a.id)'
  <2>1. a.id = activeId /\ Undisputed /\ asks = {a} /\ Told(a.id) /\ AskTells(a)
    <3>1. a.id \in Records \ astray
      BY <1>1, <1>4
    <3>2. a.id = activeId /\ Undisputed /\ Told(a.id)
      BY <3>1, AskedIsActive DEF AgreeInv, BoardFollows
    <3> QED
      BY <3>2 DEF AgreeInv, PaneInv, OneAsk, PaneFollows, Undisputed
  <2>2. a.of # "stage" /\ ~Removed(a) => SameStage(a.id)
    BY <2>1 DEF Told
  <2>3. ASSUME board' = board, a.of # "stage", ~Removed(a) PROVE SameStage(a.id)'
    BY <1>1, <2>2, <2>3 DEF SameStage
  <2>4. ASSUME NEW i, ~ReadsAgain(a), ~Removed(a), i = ItemAfter(a), i # NoRecord,
               board' = [board EXCEPT ![a.id] = IF board[a.id] = NoRecord THEN board[a.id] ELSE i]
        PROVE  SameStage(a.id)'
    <3>1. i = items[a.id]
      BY <2>1, <2>4 DEF AskTells
    <3>2. board'[a.id] = IF board[a.id] = NoRecord THEN board[a.id] ELSE i
      BY <1>1, <2>4
    <3> QED
      BY <1>1, <2>4, <3>1, <3>2 DEF SameStage
  <2>5. a.step = "done" => a.item \in Items
    BY DEF AgreeInv, PaneInv, DraftInv, AnswersCarry
  <2>6. a.previous \in Items
    BY <1>1 DEF Asks
  <2>7. CASE \/ ReceiveLoaded(a) \/ ReceiveArea(a) \/ ReceiveAccount(a)
             \/ ((ReceiveSaved(a) \/ ReceiveDeleted(a)) /\ a.step = "failed")
    BY <2>3, <2>7 DEF Removed, ReceiveLoaded, ReceiveSaved, ReceiveArea, ReceiveAccount, ReceiveDeleted
  <2>8. CASE ReceiveReloaded(a) /\ a.step = "failed"
    BY <2>3, <2>8 DEF Removed, ReceiveReloaded
  <2>9. CASE ReceiveReloaded(a) /\ a.step = "done"
    <3>1. board' = [board EXCEPT ![a.id] = IF board[a.id] = NoRecord THEN board[a.id] ELSE a.item]
      BY <2>9 DEF ReceiveReloaded
    <3>2. ~ReadsAgain(a) /\ ~Removed(a) /\ a.item = ItemAfter(a)
      BY <2>9 DEF ReceiveReloaded, ReadsAgain, Removed, ItemAfter
    <3> QED
      BY <2>4, <2>5, <2>9, <3>1, <3>2, NoRecordIsNone
  <2>10. CASE ReceiveSaved(a) /\ a.step = "done"
    <3>1. board' = [board EXCEPT ![a.id] = IF board[a.id] = NoRecord THEN board[a.id] ELSE a.item]
      BY <2>10 DEF ReceiveSaved, SetDeal
    <3>2. ~ReadsAgain(a) /\ ~Removed(a) /\ a.item = ItemAfter(a)
      BY <2>10 DEF ReceiveSaved, ReadsAgain, Removed, ItemAfter
    <3> QED
      BY <2>4, <2>5, <2>10, <3>1, <3>2, NoRecordIsNone
  <2>11. CASE ReceiveStage(a)
    <3>1. PICK i : i = AfterStage(a)
      OBVIOUS
    <3>2. board' = [board EXCEPT ![a.id] = IF board[a.id] = NoRecord THEN board[a.id] ELSE i]
      BY <2>11, <3>1 DEF ReceiveStage, SetDeal
    <3>3. ~ReadsAgain(a) /\ ~Removed(a) /\ i = ItemAfter(a) /\ i \in Items
      BY <1>1, <2>5, <2>6, <2>11, <3>1 DEF ReceiveStage, ReadsAgain, Removed, ItemAfter, AfterStage
    <3> QED
      BY <2>4, <3>2, <3>3, NoRecordIsNone
  <2>12. CASE ReceiveDeleted(a) /\ a.step = "done"
    <3>1. board' = [board EXCEPT ![a.id] = NoRecord]
      BY <2>12 DEF ReceiveDeleted
    <3> QED
      BY <1>1, <3>1 DEF SameStage
  <2> QED
    BY <1>1, <2>7, <2>8, <2>9, <2>10, <2>11, <2>12
<1> QED
  BY <1>3, <1>4 DEF BoardFollows, Told

LEMMA SheetNextAgrees ==
    ASSUME AgreeInv, SheetNext
    PROVE  AgreeInv'
<1>1. SheetStep /\ Strays
  BY DEF SheetNext
<1>2. DraftInv' /\ SheetTypeOK'
  BY SheetNextKeeps DEF AgreeInv, PaneInv, DraftInv
<1>3. OneAsk' /\ PaneFollows'
  BY <1>1, SheetNextFollows DEF AgreeInv
<1>4. MarkedAstray' /\ astray \subseteq astray'
  BY <1>1, <1>2, AstrayIsMarked
<1>5. BoardFollows'
  BY <1>1, <1>2, <1>4, UserTellsBoard, StageTellsBoard, AnswerTellsBoard, ReceivedTellsBoard DEF SheetStep
<1> QED
  BY <1>2, <1>3, <1>4, <1>5 DEF AgreeInv, PaneInv

LEMMA AgreeInvariant == SheetSpec => []AgreeInv
<1>1. SheetInit => AgreeInv
  <2> SUFFICES ASSUME SheetInit PROVE AgreeInv
    OBVIOUS
  <2>1. DraftInv
    BY SheetStarts
  <2>2. OneAsk /\ PaneFollows
    BY NoRecordIsNone DEF SheetInit, OneAsk, PaneFollows, Undisputed
  <2>3. MarkedAstray
    BY DEF SheetInit, MarkedAstray
  <2>4. BoardFollows
    <3>1. board = items
      BY DEF SheetInit
    <3> QED
      BY <3>1 DEF BoardFollows, Told, SameStage
  <2> QED
    BY <2>1, <2>2, <2>3, <2>4 DEF AgreeInv, PaneInv
<1>2. AgreeInv /\ [SheetNext]_sheetVars => AgreeInv'
  <2> SUFFICES ASSUME AgreeInv, [SheetNext]_sheetVars PROVE AgreeInv'
    OBVIOUS
  <2>1. CASE UNCHANGED sheetVars
    <3>1. DraftInv'
      BY <2>1 DEF AgreeInv, PaneInv, DraftInv, SheetTypeOK, OpenIsActive, AnswersCarry, DraftFollows, sheetVars
    <3>2. UNCHANGED <<selected, activeId, pane, board, items, accounts, asks, crossing, outdated, astray>>
      BY <2>1 DEF sheetVars
    <3>3. OneAsk' /\ PaneFollows'
      BY <3>2, PaneStays DEF AgreeInv
    <3>4. MarkedAstray' /\ astray \subseteq astray'
      BY <3>2 DEF AgreeInv, MarkedAstray
    <3>5. BoardFollows'
      BY <3>2, <3>4, BoardStays
    <3> QED
      BY <3>1, <3>3, <3>4, <3>5 DEF AgreeInv, PaneInv
  <2>2. CASE SheetNext
    BY <2>2, SheetNextAgrees
  <2> QED
    BY <2>1, <2>2
<1> QED
  BY <1>1, <1>2, PTL DEF SheetSpec

\* When all is answered an open sheet shows the record as the API has it, with its account,
\* and the board shows the stage of it: a stage shown in advance has been confirmed or taken
\* back in both places, whatever was refused.  The sheet need not when its requests have
\* overlapped, an answer was lost or the record was changed elsewhere since it was opened;
\* the board need not when that has ever happened to the record.
THEOREM SheetAgrees == SheetSpec => []SettledSheetAgrees
<1>1. AgreeInv => SettledSheetAgrees
  <2> SUFFICES ASSUME AgreeInv, selected # NoRecord, pane.status = "ready", asks = {}, ~crossing,
                      selected \notin outdated
               PROVE  /\ pane.item = items[selected] /\ pane.account = (selected \in accounts)
                      /\ selected \notin astray => board[selected].stage = items[selected].stage
    BY DEF SettledSheetAgrees
  <2>1. selected = activeId /\ board[selected] # NoRecord /\ activeId \in Records /\ pane.account \in BOOLEAN
    BY DEF AgreeInv, PaneInv, DraftInv, OpenIsActive, SheetTypeOK
  <2>2. ShowsRecord
    BY <2>1 DEF AgreeInv, PaneInv, PaneFollows, Undisputed, Gone
  <2>3. selected \notin astray => SameStage(selected)
    BY <2>1 DEF AgreeInv, BoardFollows, Told
  <2> QED
    BY <2>1, <2>2, <2>3 DEF ShowsRecord, SameStage
<1> QED
  BY <1>1, AgreeInvariant, PTL

\* Only a size can be typed wrong, and a save sends a field that was edited, or a size
\* that is none.
OnlySizeIsWrong == draft["text"] # "invalid"
PatchIsEdited(a) == a.of = "save" => \A f \in Fields :
    a.patch[f] = "same" \/ a.previous.fields[f] # a.patch[f] \/ (f = "size" /\ a.patch[f] = "empty")
PatchInv == DraftInv /\ OnlySizeIsWrong /\ \A a \in asks : PatchIsEdited(a)

LEMMA SavedFieldsAreValid ==
    ASSUME NEW i \in Items
    PROVE  i.fields["text"] # "invalid"
BY DEF Items, Fields, Values

LEMMA DraftStaysValid ==
    ASSUME PatchInv, SheetStep
    PROVE  OnlySizeIsWrong'
<1>1. pane.item \in Items /\ draft \in Drafts /\ \A a \in asks : a.step = "done" => a.item \in Items
  BY DEF PatchInv, DraftInv, SheetTypeOK, AnswersCarry
<1>2. ASSUME NEW i \in Items, draft' = i.fields PROVE OnlySizeIsWrong'
  BY <1>2, SavedFieldsAreValid DEF OnlySizeIsWrong
<1>3. ASSUME draft' = draft PROVE OnlySizeIsWrong'
  BY <1>3 DEF PatchInv, OnlySizeIsWrong
<1>4. ASSUME NEW i \in Items, NEW id, NEW sync, SetDeal(id, i, sync) PROVE OnlySizeIsWrong'
  BY <1>2, <1>3, <1>4 DEF SetDeal
<1>5. ASSUME NEW r \in Records, Open(r) PROVE OnlySizeIsWrong'
  <2>1. draft' = draft \/ draft' = Empty
    BY <1>5 DEF Open
  <2> QED
    BY <1>3, <2>1 DEF OnlySizeIsWrong, Empty, Fields
<1>6. ASSUME NEW f \in Fields, UpdateDraft(f) PROVE OnlySizeIsWrong'
  <2>1. PICK v \in IF f = "size" THEN Typed ELSE Values : draft' = [draft EXCEPT ![f] = v]
    BY <1>6 DEF UpdateDraft, Typed
  <2>2. v = "invalid" => f = "size"
    BY <2>1 DEF Values
  <2> QED
    BY <1>1, <2>1, <2>2 DEF PatchInv, OnlySizeIsWrong, Drafts, Fields
<1>7. CASE HandleCancelDraft
  BY <1>1, <1>2, <1>7 DEF HandleCancelDraft, Baseline
<1>8. ASSUME NEW s \in DealStages \cup PartnerStages, NEW b \in BOOLEAN, HandleStageChange(s, b) PROVE OnlySizeIsWrong'
  <2>1. [pane.item EXCEPT !.stage = s] \in Items
    BY <1>1 DEF Items
  <2> QED
    BY <1>4, <1>8, <2>1 DEF HandleStageChange
<1>9. ASSUME NEW a \in asks, ReceiveLoaded(a) \/ ReceiveReloaded(a) PROVE OnlySizeIsWrong'
  <2>1. draft' = draft \/ (a.step = "done" /\ draft' = a.item.fields)
    BY <1>9 DEF ReceiveLoaded, ReceiveReloaded
  <2> QED
    BY <1>1, <1>2, <1>3, <2>1
<1>10. ASSUME NEW a \in asks, ReceiveSaved(a) PROVE OnlySizeIsWrong'
  <2>1. draft' = draft \/ (a.step = "done" /\ SetDeal(a.id, a.item, TRUE))
    BY <1>10 DEF ReceiveSaved
  <2> QED
    BY <1>1, <1>3, <1>4, <2>1
<1>11. ASSUME NEW a \in asks, ReceiveStage(a) PROVE OnlySizeIsWrong'
  <2>1. a.previous \in Items
    BY DEF PatchInv, DraftInv, SheetTypeOK, Asks
  <2>2. AfterStage(a) \in Items
    BY <1>1, <2>1 DEF AfterStage
  <2>3. SetDeal(a.id, AfterStage(a), ~KeepsDraft(a))
    BY <1>11 DEF ReceiveStage
  <2> QED
    BY <1>4, <2>2, <2>3
<1>12. ASSUME \/ \E r \in Records : DraggedBehind(r)
              \/ ChangedElsewhere \/ Close \/ Edit \/ HandleSave \/ AddAccount \/ HandleDelete
              \/ \E of \in {"release", "assign"} : ChangeArea(of)
              \/ \E a \in asks : AnswerLoadStep(a) \/ AnswerChange(a) \/ ReceiveArea(a)
                                 \/ ReceiveAccount(a) \/ ReceiveDeleted(a)
       PROVE  OnlySizeIsWrong'
  <2>1. draft' = draft
    BY <1>12 DEF DraggedBehind, ChangedElsewhere, Close, Edit, HandleSave, AddAccount, HandleDelete, ChangeArea,
                 AnswerLoadStep, AnswerChange, ReceiveArea, ReceiveAccount, ReceiveDeleted
  <2> QED
    BY <1>3, <2>1
<1> QED
  BY <1>5, <1>6, <1>7, <1>8, <1>9, <1>10, <1>11, <1>12 DEF SheetStep

\* What is sent stays as it was sent.
LEMMA PatchesStayEdited ==
    ASSUME PatchInv, SheetStep
    PROVE  \A a \in asks' : PatchIsEdited(a)
<1>1. SheetTypeOK /\ OpenIsActive /\ asks \subseteq Asks
  BY DEF PatchInv, DraftInv, SheetTypeOK
<1>2. ASSUME NEW q, asks' = asks \cup {q}, PatchIsEdited(q) PROVE \A a \in asks' : PatchIsEdited(a)
  BY <1>2 DEF PatchInv
<1>3. ASSUME NEW a \in asks, NEW b, asks' = (asks \ {a}) \cup {b},
             (b.of = a.of /\ b.patch = a.patch /\ b.previous = a.previous) \/ b.of = "reload"
      PROVE  \A k \in asks' : PatchIsEdited(k)
  <2>1. PatchIsEdited(b)
    BY <1>3 DEF PatchInv, PatchIsEdited
  <2> QED
    BY <1>3, <2>1 DEF PatchInv
<1>4. ASSUME asks' \subseteq asks PROVE \A a \in asks' : PatchIsEdited(a)
  BY <1>4 DEF PatchInv
<1>5. ASSUME NEW r \in Records, Open(r) PROVE \A a \in asks' : PatchIsEdited(a)
  <2>1. CASE r = activeId
    BY <1>4, <1>5, <2>1 DEF Open
  <2>2. CASE r # activeId
    <3>1. PICK q : q = [Question("load") EXCEPT !.id = r, !.previous = Nothing, !.to = "NEW", !.keepDraft = FALSE]
      OBVIOUS
    <3>2. q.of = "load"
      BY <3>1 DEF Question
    <3>3. asks' = {a \in asks : a.of # "load"} \cup {q}
      BY <1>5, <2>2, <3>1 DEF Open
    <3> QED
      BY <3>2, <3>3 DEF PatchInv, PatchIsEdited
  <2> QED
    BY <2>1, <2>2
<1>6. CASE HandleSave
  <2>1. PICK q : q = [Question("save") EXCEPT !.patch = BuildDetailsPatch(draft)]
    OBVIOUS
  <2>2. q.patch = BuildDetailsPatch(draft) /\ q.previous = pane.item
    BY <2>1 DEF Question
  <2>3. ASSUME NEW f \in Fields
        PROVE  \/ q.patch[f] = "same" \/ q.previous.fields[f] # q.patch[f]
               \/ f = "size" /\ q.patch[f] = "empty"
    <3>1. q.patch[f] = IF draft[f] # pane.item.fields[f] THEN Saved(draft[f]) ELSE "same"
      BY <2>2 DEF BuildDetailsPatch, Baseline
    <3>2. draft[f] = "invalid" => f = "size"
      BY DEF PatchInv, OnlySizeIsWrong, Fields
    <3> QED
      BY <2>2, <3>1, <3>2 DEF Saved
  <2>4. PatchIsEdited(q)
    BY <2>3 DEF PatchIsEdited
  <2>5. asks' = asks \cup {q}
    BY <1>6, <2>1 DEF HandleSave, Ask
  <2> QED
    BY <1>2, <2>4, <2>5
<1>7. ASSUME \/ AddAccount \/ HandleDelete \/ \E of \in {"release", "assign"} : ChangeArea(of)
             \/ \E s \in DealStages \cup PartnerStages, b \in BOOLEAN : HandleStageChange(s, b)
      PROVE  \A a \in asks' : PatchIsEdited(a)
  <2>1. PICK q : q.of # "save" /\ asks' = asks \cup {q}
    <3>1. \A of : Question(of).of = of
      BY DEF Question
    <3>2. CASE AddAccount \/ HandleDelete \/ \E of \in {"release", "assign"} : ChangeArea(of)
      <4>1. PICK of \in {"account", "delete", "release", "assign"} : asks' = asks \cup {Question(of)}
        BY <3>2 DEF AddAccount, HandleDelete, ChangeArea, Ask
      <4> QED
        BY <3>1, <4>1
    <3>3. ASSUME NEW s \in DealStages \cup PartnerStages, NEW b \in BOOLEAN, HandleStageChange(s, b)
          PROVE  \E q : q.of # "save" /\ asks' = asks \cup {q}
      <4>1. PICK q : q = [Question("stage") EXCEPT !.to = s, !.release = b]
        OBVIOUS
      <4>2. q.of = "stage" /\ asks' = asks \cup {q}
        BY <3>3, <4>1 DEF HandleStageChange, Ask, Question
      <4> QED
        BY <4>2
    <3> QED
      BY <1>7, <3>2, <3>3
  <2> QED
    BY <1>2, <2>1 DEF PatchIsEdited
<1>8. ASSUME NEW a \in asks, AnswerLoadStep(a) \/ AnswerChange(a) \/ ReceiveArea(a)
      PROVE  \A k \in asks' : PatchIsEdited(k)
  <2>1. a \in Asks
    BY <1>1
  <2>2. /\ Fail(a).of = a.of /\ Fail(a).patch = a.patch /\ Fail(a).previous = a.previous
    BY <2>1 DEF Fail, Asks
  <2>3. CASE AnswerLoadStep(a)
    <3>1. PICK b : asks' = (asks \ {a}) \cup {b} /\ b.of = a.of
      <4>1. PICK b \in {Fail(a)} \cup
                    (IF a.step = "second" THEN {[a EXCEPT !.step = "done", !.account = a.id \in accounts]}
                     ELSE IF Found(a) THEN {[a EXCEPT !.step = "second", !.item = items[a.id]]} ELSE {}) :
                asks' = (asks \ {a}) \cup {b}
        BY <2>3 DEF AnswerLoadStep
      <4>2. b.of = a.of
        BY <2>1, <2>2, <4>1 DEF Asks
      <4> QED
        BY <4>1, <4>2
    <3>2. a.of # "save"
      BY <2>3 DEF AnswerLoadStep
    <3>3. PatchIsEdited(b)
      BY <3>1, <3>2 DEF PatchIsEdited
    <3> QED
      BY <3>1, <3>3 DEF PatchInv
  <2>4. CASE AnswerChange(a)
    <3>1. Refused(a) \/ WentThrough(a) \/ Lost(a)
      BY <2>4, ChangeIsAnswered
    <3>2. CASE Refused(a) \/ Lost(a)
      BY <1>3, <2>2, <3>2 DEF Refused, Lost
    <3>3. CASE WentThrough(a)
      <4>1. PICK b : b = [a EXCEPT !.step = "done", !.item = Changed(a), !.account = a.id \in accounts']
        OBVIOUS
      <4>2. b.of = a.of /\ b.patch = a.patch /\ b.previous = a.previous
        BY <2>1, <4>1 DEF Asks
      <4> QED
        BY <1>3, <3>3, <4>1, <4>2 DEF WentThrough
    <3> QED
      BY <3>1, <3>2, <3>3
  <2>5. CASE ReceiveArea(a)
    <3>1. PICK b : b = [a EXCEPT !.of = "reload", !.step = "first", !.item = NoRecord]
      OBVIOUS
    <3>2. b.of = "reload"
      BY <2>1, <3>1 DEF Asks
    <3>3. asks' \subseteq asks \/ asks' = (asks \ {a}) \cup {b}
      BY <2>5, <3>1 DEF ReceiveArea
    <3> QED
      BY <1>3, <1>4, <3>2, <3>3
  <2> QED
    BY <1>8, <2>3, <2>4, <2>5
<1>9. ASSUME \/ \E r \in Records : DraggedBehind(r)
             \/ ChangedElsewhere \/ Close \/ Edit \/ HandleCancelDraft \/ \E f \in Fields : UpdateDraft(f)
             \/ \E a \in asks : ReceiveLoaded(a) \/ ReceiveReloaded(a) \/ ReceiveSaved(a) \/ ReceiveStage(a)
                                \/ ReceiveAccount(a) \/ ReceiveDeleted(a)
      PROVE  \A a \in asks' : PatchIsEdited(a)
  <2>1. asks' \subseteq asks
    BY <1>9 DEF DraggedBehind, ChangedElsewhere, Close, Edit, HandleCancelDraft, UpdateDraft, ReceiveLoaded,
                ReceiveReloaded, ReceiveSaved, ReceiveStage, ReceiveAccount, ReceiveDeleted, Take
  <2> QED
    BY <1>4, <2>1
<1> QED
  BY <1>5, <1>6, <1>7, <1>8, <1>9 DEF SheetStep

LEMMA PatchInvariant == SheetSpec => []PatchInv
<1>1. SheetInit => PatchInv
  <2> SUFFICES ASSUME SheetInit PROVE PatchInv
    OBVIOUS
  <2>1. draft = Empty /\ asks = {}
    BY DEF SheetInit
  <2> QED
    BY <2>1, SheetStarts DEF PatchInv, OnlySizeIsWrong, Empty, Fields
<1>2. PatchInv /\ [SheetNext]_sheetVars => PatchInv'
  <2> SUFFICES ASSUME PatchInv, [SheetNext]_sheetVars PROVE PatchInv'
    OBVIOUS
  <2>1. CASE UNCHANGED sheetVars
    <3>1. DraftInv'
      BY <2>1 DEF PatchInv, DraftInv, SheetTypeOK, OpenIsActive, AnswersCarry, DraftFollows, sheetVars
    <3>2. UNCHANGED <<draft, asks>>
      BY <2>1 DEF sheetVars
    <3> QED
      BY <3>1, <3>2 DEF PatchInv, OnlySizeIsWrong, PatchIsEdited
  <2>2. CASE SheetNext
    <3>1. SheetStep /\ DraftInv'
      BY <2>2, SheetNextKeeps DEF PatchInv, SheetNext
    <3>2. OnlySizeIsWrong' /\ \A a \in asks' : PatchIsEdited(a)
      BY <3>1, DraftStaysValid, PatchesStayEdited
    <3> QED
      BY <3>1, <3>2 DEF PatchInv, PatchIsEdited
  <2> QED
    BY <2>1, <2>2
<1> QED
  BY <1>1, <1>2, PTL DEF SheetSpec

\* The step of SaveKeepsOtherFields.
FieldsAreKept ==
    \A r \in Records, f \in Fields :
        items[r] # NoRecord /\ items'[r] # NoRecord /\ items[r].fields[f] # items'[r].fields[f] =>
            \/ r \in outdated' /\ asks' = asks
            \/ \E a \in asks \ asks' : /\ a.of = "save" /\ a.id = r
                                       /\ \/ a.previous.fields[f] # a.patch[f]
                                          \/ f = "size" /\ a.patch[f] = "empty"

LEMMA StepKeepsFields ==
    ASSUME PatchInv, SheetStep
    PROVE  FieldsAreKept
<1> USE DEF FieldsAreKept
<1>1. SheetTypeOK /\ OpenIsActive /\ asks \subseteq Asks /\ items \in [Records -> Items \cup {NoRecord}]
  BY DEF PatchInv, DraftInv, SheetTypeOK
<1>2. CASE items' = items
  BY <1>2
<1>3. CASE ChangedElsewhere
  <2>1. selected \in Records /\ outdated' = outdated \cup {selected} /\ asks' = asks
    BY <1>1, <1>3, ShownIsActive DEF ChangedElsewhere
  <2>2. \A r \in Records \ {selected} : items'[r] = items[r]
    BY <1>1, <1>3, <2>1 DEF ChangedElsewhere
  <2> QED
    BY <2>1, <2>2
<1>4. ASSUME NEW k \in Records, DraggedBehind(k) PROVE FieldsAreKept
  <2>1. PICK s \in DealStages \cup PartnerStages : items' = [items EXCEPT ![k].stage = s]
    BY <1>4 DEF DraggedBehind
  <2>2. items[k] \in Items
    BY <1>1, <1>4 DEF DraggedBehind
  <2>3. PICK j : j = [items[k] EXCEPT !.stage = s]
    OBVIOUS
  <2>4. j.fields = items[k].fields
    BY <2>2, <2>3 DEF Items
  <2>5. items' = [items EXCEPT ![k] = j]
    BY <2>1, <2>3
  <2>6. \A r \in Records : IF r = k THEN items'[r] = j ELSE items'[r] = items[r]
    BY <1>1, <2>5
  <2> QED
    BY <2>4, <2>6
<1>5. ASSUME NEW a \in asks, AnswerChange(a) PROVE FieldsAreKept
  <2>1. a \in Asks /\ a.step = "first" /\ (Refused(a) \/ WentThrough(a) \/ Lost(a))
    BY <1>1, <1>5, ChangeIsAnswered
  <2>2. CASE Refused(a)
    BY <1>2, <2>2 DEF Refused
  <2>3. CASE WentThrough(a) \/ Lost(a)
    <3>1. CarryOut(a) /\ Found(a) /\ a.id \in Records
      BY <2>1, <2>3 DEF WentThrough, Lost, CarryOut, Accepts, Asks
    <3>2. a \notin asks'
      <4>1. Fail(a).step = "failed"
        BY <2>1, FailIsTyped
      <4>2. WentThrough(a) => \E b : b.step = "done" /\ asks' = (asks \ {a}) \cup {b}
        BY <1>1, <2>1, DoneCarries
      <4> QED
        BY <2>1, <2>3, <4>1, <4>2 DEF Lost
    <3>3. items' = [items EXCEPT ![a.id] = IF a.of = "delete" THEN NoRecord ELSE Changed(a)]
      BY <1>1, <2>1, <3>1, CarriedIsTyped
    <3>4. \A r \in Records : IF r = a.id THEN items'[r] = IF a.of = "delete" THEN NoRecord ELSE Changed(a)
                             ELSE items'[r] = items[r]
      BY <1>1, <3>3
    <3>5. /\ a.of # "save" => Changed(a).fields = items[a.id].fields
          /\ a.of = "save" => \A f \in Fields : Changed(a).fields[f] =
                 IF a.patch[f] = "same" THEN items[a.id].fields[f] ELSE a.patch[f]
      BY <1>1, <2>1, <3>1, ChangedIsItem
    <3>6. PatchIsEdited(a)
      BY DEF PatchInv
    <3>7. SUFFICES ASSUME NEW r \in Records, NEW f \in Fields,
                          items[r] # NoRecord, items'[r] # NoRecord, items[r].fields[f] # items'[r].fields[f]
                   PROVE  /\ a.of = "save" /\ a.id = r
                          /\ \/ a.previous.fields[f] # a.patch[f]
                             \/ f = "size" /\ a.patch[f] = "empty"
      BY <3>2
    <3>8. r = a.id /\ items'[r] = Changed(a)
      BY <3>4, <3>7
    <3>9. a.of = "save" /\ a.patch[f] # "same"
      BY <3>5, <3>7, <3>8
    <3> QED
      BY <3>6, <3>8, <3>9 DEF PatchIsEdited
  <2> QED
    BY <2>1, <2>2, <2>3
<1>6. ASSUME \/ \E r \in Records : Open(r)
             \/ Close \/ Edit \/ HandleCancelDraft \/ HandleSave \/ AddAccount \/ HandleDelete
             \/ \E f \in Fields : UpdateDraft(f)
             \/ \E s \in DealStages \cup PartnerStages, b \in BOOLEAN : HandleStageChange(s, b)
             \/ \E of \in {"release", "assign"} : ChangeArea(of)
             \/ \E a \in asks : AnswerLoadStep(a) \/ ReceiveLoaded(a) \/ ReceiveReloaded(a)
                                \/ ReceiveSaved(a) \/ ReceiveStage(a) \/ ReceiveArea(a) \/ ReceiveAccount(a)
                                \/ ReceiveDeleted(a)
      PROVE  items' = items
  BY <1>6 DEF Open, Close, Edit, HandleCancelDraft, HandleSave, AddAccount, HandleDelete, UpdateDraft,
              HandleStageChange, ChangeArea, AnswerLoadStep, ReceiveLoaded, ReceiveReloaded, ReceiveSaved,
              ReceiveStage, ReceiveArea, ReceiveAccount, ReceiveDeleted
<1> QED
  BY <1>2, <1>3, <1>4, <1>5, <1>6 DEF SheetStep

\* Only a save of its sheet changes the fields of a record, apart from what others do, and
\* it writes the fields that differ from what the sheet has loaded, or a size that cannot be
\* read: the change a colleague has made to another field stays.
THEOREM SaveKeeps == SheetSpec => SaveKeepsOtherFields
<1>1. PatchInv /\ [SheetNext]_sheetVars => [FieldsAreKept]_sheetVars
  BY StepKeepsFields DEF SheetNext
<1>2. SaveKeepsOtherFields <=> [][FieldsAreKept]_sheetVars
  BY PTL DEF SaveKeepsOtherFields, FieldsAreKept
<1> QED
  BY <1>1, <1>2, PatchInvariant, PTL DEF SheetSpec
=============================================================================
