# BigProjects BOS: a TLA+ model

BigProjects BOS is the back office of an exhibition: a NestJS API over PostgreSQL
(through Prisma), used by a Next.js front end, and connected to the public site
ToonExpo. This directory holds TLA+ models of its API and of its front end, the TLC
runs that check them and the TLAPS proofs of their main invariants.

1. Inventory
2. How the code is modelled
3. Modules
4. Runs: what they check and what they show
5. Theorems
6. What the code does not promise
7. Bounds and fairness
8. What is not modelled

## 1. Inventory

The API's state is in PostgreSQL and in an S3 bucket; it keeps none between requests.
Requests interact through tables, through the constraints of the schema, and with
ToonExpo through HTTP. The front end keeps what it has loaded in the components of a
page and in two caches (session storage for the active cycle, module variables for
lists), and interacts with the API by requests whose answers come in any order.
Several staff members, and several tabs of one, work at the same time.

| Component | State | Operations | What is hard | What makes it correct |
| --- | --- | --- | --- | --- |
| Space allocations (`venue-map/space-allocations*.ts`) | `SpaceAllocation`, active or released | assign, release, release all of a deal | checks before the insert; areas, deals and partners deleted in between | an area has one active allocation, which points at rows that exist; only what a holder gives up becomes free |
| Space areas (`venue-map/space-areas.service.ts`, `validation/rectangle-cells.validation.ts`) | `SpaceArea`, `SpaceAreaCell` | create, update (cells replaced in a transaction), remove | overlap checked before the insert; a `deleteMany` that waits; cascade against a concurrent insert | areas do not overlap, are filled rectangles, have the size of their cells, and a cell has an area |
| Builder deals, partner participations (`deals`, `partners`) | stage, cycle, organization, contact | create, update, remove | WON needs an active allocation, LOST releases all, both decided on stale reads | WON is justified; a contact is one of the organization |
| Map publication (`toonexpo/venue-map-publications.service.ts`) | `VenueMapPublication`, the plan's publish status | publish, list | timeout against a late acceptance, retry, restart, concurrent publishes | a published row was accepted; ToonExpo's map moves forward; a version has one content |
| Provisioning (`toonexpo/provisioning-requests.service.ts`) | `ToonExpoProvisioningRequest`, the organization's company id | create, retry, list | copies of one request on their way together; two writes without a transaction | no duplicate company; success and link show what ToonExpo answered |
| ToonExpo's side (`scripts/toonexpo-stub.mjs`) | accepted versions, answered requests, companies | accept a map, provision a company | late and repeated requests | idempotent by version and checksum, and by request id |
| Event cycles (`cycles`) | `EventCycle`: DRAFT, ACTIVE, CLOSED | create, update, remove | a cycle closed or removed while something is created in it; a status written from a stale read | CLOSED is final; nothing is created in a closed cycle |
| Organizations and contacts | `Organization`, `Contact` | create, update, remove | two contacts made primary at once; removal against use | at most one primary contact; no dangling reference |
| Venue plans (`venue-map/venue-plans.service.ts`) | `VenuePlan`: cycle, image key | create, presign and set the image | concurrent creation; the old image is deleted before the row is updated | one plan per cycle; its image exists |
| Notes and attachments | `Note`, `Attachment`, objects in S3 | create, presign, remove | owners without foreign keys; object and row change separately | rows have an owner and an object |
| Users and sessions (`users`, `auth`, the guards) | `User`, `Session`, the cookie | login, logout, validate and renew, create, update | disabling against login and renewal; administrators acting on each other | a disabled user has no session; an administrator is left; the row of a session in use lives on |
| Web session handling (`lib/api/client.ts`, `lib/auth`) | the page shown, the shared probe | confirm, redirect, sign in and out | many 401s at once, lost answers | only a session that was refused, or none, leads to the sign-in page |
| Web list pages (boards of deals and partners, cycles, organizations, contacts, staff) | list, filters, cache | load, drag, create, change, remove | late answers, optimistic changes | the page ends with what the API has, for the view selected |
| Active cycle (`use-cycle-query-param.ts` and the switcher) | address, choice, session storage | pick, replace the address | the address changes late | the pick stays |
| Deal and partner sheets | loaded record, draft | save, stage, areas, account, delete | overlapping requests, drafts over stale records | sheet, board and API agree; drafts and foreign edits survive |
| Create sheets | search, organization, contacts | search, pick, create, submit | late searches and contact lists | what was chosen is submitted |
| Organization sheet | details, contacts | save, primary mark, delete | a mark that moves by another request | the list shows what the API has |
| Sections of a sheet (notes, attachments, areas) | list, uploads | list, create, delete | uploads in three calls | the list shows what the API has |
| Venue map page (`venue-map-page.tsx`, `persist-map-booth.ts`) | booths, areas, selection | import with parking, drag, save the layout, pick | sequences of requests that fail or interleave | the import puts areas under their booths; what was saved is kept |
| Request pipeline | none | throttling, origin, session and role guards, DTO validation, logging | | |

`PROJECT.json` lists the components with their sources, and under `hazards` what can
go wrong at which line, with the property that watches it or the reason why none does.

## 2. How the code is modelled

**One action per statement.** An API request is an asynchronous handler: between two
`await`s any other handler may run, so each database statement is an action of its
own, and what a handler has read so far is in its record `req[h]`. Statements that
only read and that decide nothing before the next read are merged with it.

**Transactions.** Prisma's `$transaction` runs at PostgreSQL's default, READ
COMMITTED. A statement sees what is committed when it starts; the writes of an open
transaction are kept in `req[h]` (`deleted`, `inserted`, `seen`) until its commit
applies them to the tables; rows and unique index entries it has written block the
statements of others that need them. The last statement and the commit are one
action. Where a statement has to wait, its guard is the end of the wait. `deleteMany`
fixes its rows when it starts and does not see the rows that others insert while it
waits; `SpaceAreaCells` models this (`UpdateDelete`, `UpdateUnblock`). In `Records`
and `Accounts` a transaction takes effect in one step, at its commit: no property
there depends on where inside a transaction another one waits.

**Constraints.** Unique indexes, foreign keys (`ON DELETE RESTRICT` and `CASCADE`)
and the partial unique index on active allocations are operators of the models,
mapped to the lines of the migration. A statement that would break one fails and its
transaction rolls back.

**The front end.** An event handler of a component runs to its first `await` in one
step; its continuation is another step, taken when the answer has arrived. A request
has three moments: it is sent, the API carries it out, the answer is received. Answers
overtake each other, requests fail, and answers are lost. A guard of the code
against late answers (a `cancelled` flag, a request number, a disabled button) is a
guard of the continuation or of the gesture.

**Faults.** Any statement may fail and roll its transaction back (`DatabaseError`,
`StatementFails`); PostgreSQL aborts one transaction of a deadlock
(`DeadlockVictim`); the API may restart (`Restart`, which ends all requests and keeps
the tables); messages to ToonExpo and to the API may be lost, or arrive after the
client has given up. In `SpaceAreaCells` a deadlock is a circle of waits of any length
(`Deadlocked`): two edits whose areas exchange cells wait for each other's unique index
entries, an edit and a removal for each other's rows, and each can be part of a longer
circle. In `VenueAllocations` it is a pair, and the proof says that there is no other.

**Data.** Ids, checksums, tokens and file names are model values. A cell is a pair of
coordinates and the rectangle check is modelled as the code computes it; the map
editor's areas are one spot each. The content of a published map is its checksum. A
draft has one field that is always valid and one that can be typed wrong. Dates are
a clock of whole units.

**History variables.** Where a property holds but for one situation, the situation is
recorded when it arises, and the property says what holds without it. Each names as little
as it can: `overtaken` the requests whose own check another one has undone before they write
(`VenueAllocations`), `overlapped` the areas on which an edit has waited for another edit
(`SpaceAreaCells`), `renamed` the organizations with a second name, `raced` the accounts
disabled while a login was under way, `crossed` that two updates of accounts have met,
`disturbed` the rows two requests were about (`Records`), `unsure` the entries of a list
(`EntitySections`), `overtyped` a draft that an answer under way will fill anew (`Sheets`),
and `crossing`, `outdated`, `mixed`, `late` and `outcome` the like for other parts of the
front end. No action reads them. Section 6 lists what happens in these situations.

**Faulty variants.** An operator named `Op_Fault` is `Op` with a plausible fault,
such as a check left out or a constraint not there. No specification uses it; it is
kept to confirm that a property notices the fault (`mutants` in `PROJECT.json`).

## 3. Modules

| Module | Models | State and actions |
| --- | --- | --- |
| `AreaOccupancy` | what a reader of the map is promised about an area | `occupant`: free, a holder, or gone, and `retiring`, the areas being removed; `Occupy`, `Vacate`, `Announce`, `Withdraw`, `Retire`, and `Evict`, which the documents rule out and the code allows |
| `VenueAllocations` | allocations with deals, partners and the removal of areas | `areas`, `stage`, `cycle`, `alloc`, `req`, and `overtaken` (history); `Assign*`, `Release*`, `Deal*`, `Partner*`, `Area*` are the statements of `assign`, `release`, `update` and `remove` of the four services |
| `RectangleCells` | `assertCellsFormFilledRectangle` | operators on a list of cells, and `Rectangles`, the reference definition |
| `SpaceAreaCells` | areas and cells: `create`, `update`, removal of a free area | the columns of the two tables, and the open writes of each transaction in `req` |
| `PublishedMap` | what visitors of ToonExpo are promised | `accepted`; a version is accepted above all earlier ones |
| `MapPublication` | `publish`, the HTTP client, the network, the stub | the publication rows, the messages in flight, ToonExpo's memory |
| `Provisioning` | `create`, `retry`, the client, the network, the stub, and renamed organizations | the request rows, the links of organizations, the messages, ToonExpo's memory |
| `Accounts` | `AuthService`, `UsersService`, the guards, `apiFetch` and the probe of the Next server | users, sessions, cookies, the page each browser shows, the requests in their slots, a clock |
| `Records` | cycles, organizations, contacts, participations, plans, notes and attachments with their references, and the object store | rows and columns; each handler is a check followed by a write |
| `Pages` | six list pages | `shown`, `cache`, `loads`, `moves`; a page is a record of what its code does with an answer |
| `ActiveCycle` | `useCycleQueryParam` and the cycle switcher | address, choice, storage, the replacements the router has not carried out |
| `Sheets` | the sheet of a deal and that of a partner | `pane`, `draft`, `board`, `items` (as the API has them), `asks` |
| `CreateSheets` | the sheets that create a deal or a partner | search, options, keyboard, contacts, nested sheet, submission |
| `OrganizationSheet` | details and contacts of an organization | `details`, `people`, and the requests of its two halves |
| `EntitySections` | notes, attachments, free areas of a record | `list`, `kept` (as the API has them), `objects` (the files) |
| `MapEditor` | the venue map page, its import and its drags | areas as the API has them (`places`) and as the page does (`plan`), `mapBooths`, `tasks` |
| `Browser` | the seven parts of the front end in one behaviour | `worked`, the part that is worked |
| `PagesProofs` | theorems about `Pages`, `ActiveCycle`, `MapEditor` and `Browser` | |
| `SheetsProofs` | theorems about `Sheets`, `CreateSheets`, `OrganizationSheet` and `EntitySections` | |
| other `*Proofs` | theorems about the module of that name | |
| `MC*` | instances for TLC: model values, symmetry, workloads | |

`VenueAllocations` implements `AreaOccupancy` (refinement mapping: the occupant of an
area is the target of its active allocation, free without one, gone when the area is
deleted; an area is retiring while the removal of it is past its check). `MapPublication` implements `PublishedMap` (the accepted maps are those in
ToonExpo's memory).

The parts of the front end meet only in the API, and each module has the API's side of
its requests with other people's changes in it. `Browser` extends all seven; a
behaviour picks one (`worked`) and leaves the others closed, because a product of
independent parts would show nothing more. `MCRecords` and `MCAccounts` likewise
pick a group of operations that act on the same rows.

## 4. Runs: what they check and what they show

| Run | Instance | Shows |
| --- | --- | --- |
| `venue_concurrent` | 2 areas, 1 deal, 1 partner, 2 allocation ids, 2 requests at a time | `AllocationsAreSound`: one active allocation per area, none without its area or target, and a row is deleted by one transaction; a deal becomes WON only with an area, and an assigned area is not deleted, unless the request that writes was overtaken itself; the refinement of `AreaOccupancy` |
| `venue_answers` | 1 area, 1 deal that moves between 2 cycles, 2 requests, fairness | an area goes to a target of its cycle that is not LOST, unless the assignment was overtaken; every request ends, also when losing and removing a deal deadlock |
| `area_evicted` | 1 area, 1 deal, 2 requests | *violation*, see below |
| `cells_concurrent` | 2 areas on a 2 by 2 grid, 2 requests, fairness | `CellsMatchAreas`: no overlap, no cell without area, no area without cells; sizes equal cell counts and areas stay rectangles, unless two edits of one area met; validation accepts the filled rectangles and nothing else; every request ends |
| `publish_concurrent` | 2 contents, 3 attempts, versions to 3, 2 requests | `RowsAreAHistory`: one row per version, versions without gaps; a published row was accepted; the refinement of `PublishedMap` |
| `publish_sequential` | 2 contents, 3 attempts, versions to 2, 1 request, fairness | `AttemptsDoNotCollide`: a version has one content, the newest attempt is never refused, the unique key is never violated; every publish ends |
| `provision_concurrent` | 1 organization with 2 names, 2 rows, 2 requests | one company for an organization that keeps its name; success and link show what ToonExpo answered |
| `accounts` | 2 users, 2 sessions, 2 browsers, 2 requests, in four scenarios | an active administrator remains, a disabled user has no session, the row of a session in use lives on, a deleted one never returns, and nobody who presents a session that was not refused is sent to the sign-in page |
| `cookie_dropped` | 1 user, 1 browser, the clock | *violation*, see below |
| `records` | up to 3 rows of a table, 2 requests, in five groups of operations | references, the one plan and one primary contact, owners and files of content, closed cycles |
| `browser` | one part of the front end at a time, with other people's changes | what each part shows when all is answered is what the API has; what was picked, typed, chosen or dragged is what is sent |
| `map_layout_lost` | 2 booths, 3 places, 2 gestures | *violation*, see below |

All runs but `publish_sequential` have overlapping requests. What the constraints and
locks of the database guarantee holds without exception; the rules the handlers enforce by
checking first and writing later are stated for overlapping requests too, and name the
one whose check was undone, whatever else is under way. Where the documents leave no room
for that exception, a violation run shows the rule as they state it.

**`area_evicted`.** *An assigned area must be released before deletion*
(`docs/07-ACCEPTANCE.md:41`), *an assigned area cannot be deleted until released*
(`docs/02-DATA-MODEL.md:147`). `SpaceAreasService.remove` looks for an active allocation
before its transaction (`space-areas.service.ts:153`). An assignment that commits in between
is deleted by the `deleteMany` of all the area's allocations (line 161), and the area after
it: the holder loses the area without a release. TLC needs two requests and seven states.
`ImplementsOccupancy` records the same as the step `Evict` of `AreaOccupancy`, and
`ReleasedBeforeRemoval` says that there is no other way to it.

**`cookie_dropped`.** *Sliding browser cookie: keep maxAge refreshed while the user is
actively using the app, so a short idle gap cannot drop a still-valid server session*
(`auth.controller.ts:62-63`). The cookie is set again on answers to `GET /auth/me` alone.
The Next server calls it while it renders, and the answer's cookie does not reach the
browser; the browser calls it only after a 401. So the cookie ends a fixed time after the
sign-in, while the API renews the row of the session whenever it is used. TLC shows a browser
that has used its session a moment ago, and presents none. `UseKeepsSessionRow` is therefore
a statement about the row, and `OnlyRefusedOrAbsentSessionLeaves` names the browser that
presents no session as a way to the sign-in page.

**`map_layout_lost`.** *Saves a dragged/nudged booth position onto its BOS area*
(`apps/web/src/features/venue-map/persist-map-booth.ts:33`). The position is saved, and
stays saved until the map page is opened again: the frame then reports every booth where
the drawing of the hall has it, and the import moves each area whose cells differ to the
drawn ones (`venue-map-page.tsx:158`). TLC needs a drag to a free place, leaving, and a
visit.

## 5. Theorems

Each is proved by TLAPS for all values of the constants: any number of areas, deals,
accounts, sessions, handlers, rows and messages. The proofs use the named assumptions of
the modules (ids of different kinds are distinct, and differ from the values that stand for
"none"; the grid, the ids of publication rows, persons, companies and the requests to edit a
map at one time are finite; the cells a
request asks for are some that validation accepts; there is a cycle; the hall has a place for
every booth of its drawing, and ends before the row booths are parked on; the renewal threshold
does not exceed the life of a session; the bounds on the user's actions are natural numbers,
however large) and no others. They are about `Spec`, without fairness.

One rule holds only while requests do not overlap: `DoNotCollide` assumes `OneAtATime`, that
all handlers are one. Everything else may still go wrong in it: statements fail, messages are
lost or late, the API restarts, and the rows and the history are of any number. What becomes
of it when requests overlap is in section 6.

* `VenueAllocationsProofs`: `TypeCorrect`, `OneActive`, `NoDangling`,
  `DeletedRowsLocked`, `Sound` (their conjunction that the runs check) and `Implements`
  (of `AreaOccupancy`). The invariant is strengthened by what each request in flight may
  rely on: which rows an open transaction has deleted, and that no other one has the same
  rows. `WonHolds`, `EligibleAssigned` and `ReleasedFirst` add `Knows`: what a request that
  was not overtaken has checked still holds before its write.
  `DeadlocksArePairs` and `RequestsGoForward`: see *Waits* below.
* `SpaceAreaCellsProofs`: `TypeCorrect`, `AreasDoNotOverlap`, `CellsKeepTheirArea`,
  `AreasKeepCells`, and `CellsMatch`, which joins the three. `NoOverlap` is not
  inductive: a commit writes cells that another transaction could have taken.
  `InsertedAreFree` says that a cell inserted by an open transaction is free but for the
  rows the transaction itself deleted, and that no two open transactions have inserted
  it. `AreaRowsLocked` says that a removal and an edit that holds the area row exclude
  each other, which keeps an edit from giving cells to an area that is gone.
  `AreasConsistent` needs that an edit which has not waited for another one has deleted
  every cell of its area (`EditsSeeTheirArea`), that it is then the only one at work there
  (`OneEditor`), and that an area is so made of cells validation accepted (`Drawn`).
  `AcceptsRectangles` rests on `RectanglesAccepted`, for lists of any integers, which needs no
  induction over the list: a list without repeats has as many cells as its set, the
  bounding box of a filled rectangle is the rectangle, and a box is as large as the
  product of its sides. `RequestsGoOn` and `RequestsGoForward`: see *Waits*.
* `MapPublicationProofs`: `TypeCorrect`, `OneRow`, `Contiguous`, `History` (the two
  together), `PublishedAccepted` and `Implements` (of `PublishedMap`). The invariant
  follows a response from ToonExpo's memory over the network to the row, and bounds the
  version of an open attempt by the rows that exist. `DoNotCollide` adds that ToonExpo
  has accepted only what was attempted, that only an attempt with a later one can be
  refused (`RefusedIsOutdated`), though it may be refused much later, and that a request
  that prepares its row has its version for itself (`Prepared`). `PublishesGoForward`: see
  *Waits*.
* `ProvisioningProofs`: `TypeCorrect`, `OneCompany`, `SuccessBacked`, `LinkBacked`,
  `Backed` (the two together) and `LinkKept`. The invariant says that for an organization
  never renamed all messages carry its one name, and all answers the company registered
  under it: that is `OneCompany`, and each write of the link stores the value that is already
  there.
* `AccountsProofs`: `TypeCorrect`, with `AllFormed`, what a request has before its next
  statement; it gives `NeverReturns` directly, since a renewal is an update of a row that
  must still exist. `DisabledNoSession` and `Administrator` rest on `Ruled`: a login about
  to insert is of an active user or was overtaken (`LoginsAreOfActive`), and, until two
  updates cross, one request at a time may update accounts and its actor still is an active
  administrator (`Orderly`), which `SelfLockout` then keeps. `ActiveUse`, about the row of a
  session, rests on `Aged`: a request that goes to delete an expired session found it expired
  and unused for the threshold, and no renewal of it is under way (`ExpiringIsUnused`).
  `OnlyRefusedOrAbsent` rests on `Heard`: a 401 on its way to a browser is for a session the
  API did refuse, or for a request that presented none.
* `RecordsProofs`: `TypeCorrect` from `Typed`, with `Formed`, what each request has before
  its write, and `MeetingsAreSeen`, that of two requests about one row the history knows.
  Every other theorem adds what its requests rely on: `NoDangling` and `OnePlan` rest on
  the constraints of the schema at the moment of the write; `ContactBelongs` on
  `PartiesChecked`, that the organization and the contact a request is about to write
  fit each other and the row; `OnePrimary` on `OthersAreUnset`, that a request about to
  mark a contact has locked the other primary ones; `ClosedForGood` and
  `ClosedToNewcomers` on the status read before the write; `ContentGoesWithOwner` on
  `OwnerIsKnown`; `ContentStored` on `OneHolder` and `UploadsAreKept`, that an object
  belongs to one row or to one upload. The three rules of the schema hold under
  every interleaving, the others for rows on which requests have not overlapped.

* `PagesProofs`: `PickKept`, `PageAgrees` and `ImportPlaces`, with `CycleTyped`, `PageTyped`
  and `MapTyped`. `CycleInv`
  says that while a replacement of the address is under way, the last of the queue is what
  the user picked, that the optimistic value is it or is no longer needed, and that the
  storage has the cycle shown. `PageInv` says that as long as a page is undisturbed
  it has one request (`OneRequest`), that a load tells what the API has for the view
  (`LoadTells`), that a move under way knows the row as it was (`MoveTells`), and that a page
  that was left awaits no load (`LoadsAreHeard`). It is one argument for all six pages,
  which are six records of what their code does with an answer. `MapInv` says of an import
  that is alone that every booth that fits is placed, or still has its request, or is off
  its spot because an area that stays has it (`Progresses`). A request to place a booth comes
  after its parking, and no area of a booth that fits stands in the hall while it waits: that
  is why the order, all parked before any is placed, lets booths exchange places. It needs
  that an area keeps its code and one without a booth its place, which is all an old plan
  tells of the areas (`TellsAreas`).
* `SheetsProofs`: `SectionAgrees`, `OrganizationAgrees`, `SubmitsChoice`, `DraftKept`,
  `SheetAgrees` and `SaveKeeps`, with the types of each part. In a section the list and what
  the API has differ by the answers that are under way and by the entries of `unsure`, each
  of which was itself changed while the list was loading, had its answer lost or was left out
  by a failed load (`ListFollows`). The draft of a sheet is what was typed or waits for an
  answer that fills it (`DraftKept`); in the organization
  sheet a request carries the contacts the sheet has (`RequestsKnowPeople`); a create sheet
  offers and awaits contacts of the organization of the form alone
  (`ContactsAreOfOrganization`). For the sheet of a deal or a partner `PaneInv` says that
  there is one request, about the record that is open, and that it tells what the API has
  (`AskTells`); `AgreeInv` adds the board, which is right for every record unless a stage
  is shown in advance (`BoardFollows`); `PatchInv` says that what a save sends differs from
  what was loaded, so that `SaveKeeps`, a statement about steps, follows.

  `BrowserTyped`, `BrowserAgrees` and `BrowserSavesKeep` join all of these for `BrowserSpec`:
  the part that is worked starts and steps as its own specification says, so what is proved of
  it alone holds in the whole, and a closed part keeps values for which it holds too.

**Waits.** That every request ends (`EveryRequestIsAnswered`, `EveryPublishIsAnswered`) is
checked by TLC, since TLAPS has no rules for fairness here, but the facts it rests on are proved for
any number of requests. *Somebody can go on*: in `SpaceAreaCells` the requests ahead of one
that waits are those it waits for, directly or through others. They are finitely many, so some
request has the fewest ahead of it, and it either waits for nobody, so that its statement
can run (`WhoWaitsForNobodyRuns`: `WaitsFor` has every guard), or lies on a circle,
which the detector breaks (`RequestsGoOn`). In `VenueAllocations` only two kinds of request hold
rows while they wait, the loss and the removal of a deal; two requests that wait for each
other are one of each about one deal, and no longer circle exists (`DeadlocksArePairs`).
*Nobody goes back*: every statement, wait and failure leaves its request fewer statements to make
(`StatementsLeft`, `StepsLeft`), and those of others leave it as it is (`RequestsGoForward`,
`PublishesGoForward`). What fairness adds is that a request that can go on does.

The front end's theorems need the same history variables as its properties: `disturbed`,
`crossing`, `mixed` and `late` say that requests have overlapped or an answer was lost,
`unsure` and `overtyped` are narrower. What can go wrong then is in section 6.

Some proofs did not go through at first and showed what small instances are too small to show.
In `SpaceAreaCells` two requests can wait for each other in two ways, and the detector of the
model knew one of them: when a third request moves an area between the checks of two edits and
their writes, the edits can exchange cells (it takes three cells), delete their own and wait for
each other's. `Deadlocked` is therefore defined by circles. A board keeps a wrong stage after
requests about a record have crossed, though a new sheet shows the record correctly: `astray` is
the history of that, and `SettledSheetAgrees` speaks of the board for other records only. A size
that cannot be read is sent as no size whether or not it was there before, which
`SaveKeepsOtherFields` now says. The last correction is of the model again: a reload of the list
of cycles renders with the cycle that is active in the new list (`ActiveCycle!Render`).

Checked by TLC only: the three liveness properties. Every invariant and action property that
a passing run checks is stated by a theorem.

## 6. What the code does not promise

The models show the following behaviours. They contradict no statement of the
repository but for the ones quoted, and are what the properties leave out.

In the API, all by a check before the write:

* *A deal cannot move to `won` without an active map allocation*
  (`docs/07-ACCEPTANCE.md:24`): `deals.service.ts:248` looks for the allocation before and
  outside the update, and a release in between leaves a WON deal without one. A deal can be
  lost or change cycle between the check of an assignment and its insert, and a deal with
  areas can be moved to another cycle.
* *An assigned area must be released before deletion* (`docs/07-ACCEPTANCE.md:41`): an area
  assigned between the check and the removal is deleted with its allocation; see
  `area_evicted`.
* *Area square meters equal the selected 1 m x 1 m cell count*
  (`docs/07-ACCEPTANCE.md:38`): of two edits of one area, the `deleteMany` of the second
  waits for the first and does not see the cells it inserted. The area ends with the
  cells of both and the size of the last.
* *any content change bumps to the next version*
  (`venue-map-publications.service.ts:30`): two publishes with an edit of the map
  between them read the same newest row and attempt one version with two contents.
  ToonExpo refuses the second; if the refused attempt is the newest row, publishing
  that content is refused until the map changes.
* *Success stores the ToonExpo ids* (`docs/07-ACCEPTANCE.md:50`): after a restart between
  the updates of the row and of the organization, the row shows success, the organization
  has no link, and `retry` accepts only FAILED rows.
* ToonExpo's matching is to use *the stable BOS organization id or exact tax identifier*
  (`docs/05-TOONEXPO-INTEGRATION.md:32`), the BOS organization id being *unique in ToonExpo
  integration links* (line 81), and *Repeating the request does not create a duplicate
  company* (`docs/07-ACCEPTANCE.md:49`). BOS sends the organization's id with every request,
  but the stub, the only ToonExpo in the repository, looks companies up by name
  (`scripts/toonexpo-stub.mjs:56`). Two requests of an organization that was renamed between
  them give it two companies, and two organizations of one name share one:
  `toonexpoCompanyId` has no unique index (`prisma/schema.prisma:131`), though
  `docs/05-TOONEXPO-INTEGRATION.md:82` calls it *unique in BOS*. `OneCompanyPerOrganization`
  speaks of organizations that keep their name.
* Signing out clears the cookie and answers 204 also when the session's row could not be
  deleted: the error is logged only (`auth.service.ts:62`), and the row lives until it expires.
* A login that has read the account before it is disabled inserts its session after
  (`raced`). Two administrators who demote each other at the same time both succeed
  (`crossed`).
* Two updates of one cycle can take it from CLOSED back to ACTIVE, a deal can be created in
  a cycle that is closed meanwhile, and two transactions can leave two primary contacts;
  in `records` a row on which two requests overlap is marked `disturbed` and excepted, as is
  one whose request failed. A note can be inserted for an owner that has just been removed; a
  file can be deleted and its row kept when the update of the row fails.
* A WON deal's stage is final (`deals.service.ts:239`), but the deal sheet offers NEGOTIATION
  and LOST for it (`builder-crm/constants.ts:15`); the API refuses.
* The cookie is renewed by `GET /auth/me` alone (`auth.controller.ts:62`), whose answer does
  not reach the browser in normal use. A session renewed every day therefore outlives the
  cookie of its browser, and somebody who works every day is sent to the sign-in page all the
  same; see `cookie_dropped`.

In the front end:

* Sheets: the board hears of a record from its sheet alone, and keeps a stage that was wrong
  when requests crossed, until it is loaded again; a failed stage change rolls back to the
  whole record as it was, with what a save stored meanwhile; what is typed while a load or a save is under way, or a stage or area
  change that was asked for before anything was edited, is overwritten by its answer;
  opening the sheet of the same record again does not load it again; a size that cannot be read
  clears the field. The organization sheet's save writes back the contacts it saw when it
  was sent.
* Create sheets: an organization created in the nested sheet is chosen when its answer
  arrives, also when the sheet was closed and another one picked. A failed search keeps the
  highlight of a list that is gone.
* Lists: cards of the previous cycle can be dragged while the new list loads; the answer of a
  change inserts its row in the list of another view. A note created while the list loads
  is dropped from it until it is loaded again.
* Active cycle: three picks A, B, A made faster than the router replaces the address
  end at B.
* Map page: a drag of a booth that has no area does not refresh the plan, so a second drag or
  the layout creates a second area for it; the guard against own changes remembers one
  booth only; a late answer selects its area while another booth is selected; an
  import that breaks off leaves areas parked, whose cells can make a later one fail; a saved
  layout clears the mark of booths dragged meanwhile; a plan that could not be loaded is not
  tried again.

## 7. Bounds and fairness

Bounds, each named where it stands in a module:

* Two requests at a time in the API. The races looked for are between a pair of requests:
  the waits and constraints are between two transactions. The theorems hold for any number.
* Ids (areas, allocation, publication and request rows, companies, tokens) are used
  once and run out; an insert without an id left ends as if it had failed. Two
  allocation rows are enough for an area to be released and taken again, or for two areas to
  be held; three publication rows for an attempt, its repetition and a change of content.
* `Shapes`, `ModeEdits`, `LabelEdits`, `MoveTo`, `Changes`: the inputs enumerated. `Shapes`
  are filled rectangles of the grid; one mode is set, which may lack its label;
  `Changes` disables, enables and demotes.
* `MaxVersion`: an attempt above it ends. An organization is renamed at most once.
* `Scenarios` (`Accounts`): `Administration` and `Enrolment` with overlapping updates, logins
  and creations and no clock; `Aging` with one session over 4 units of time, its life
  `TTL = 4` and `Threshold = 2`, so that it can be renewed, and expire, at each instant
  (`cookie_dropped` is this scenario alone); `Leaving` with signing out and a second session.
* `Workloads` (`Records`): five groups of operations on the same rows, with an id more
  than the property needs to be violated (three contacts for two primary ones).
* The front end: `MaxPageActions = 2`, `MaxCycleActions = 4`, `MaxSheetActions = 3`,
  `MaxCreateActions = 6`, `MaxOrganizationActions = 4`, `MaxSectionActions = 4`,
  `MaxMapActions = 2` count what the user and, where they are modelled, other people do. The
  answers are not bounded. Each is the number needed for two requests that overlap and
  a gesture between them, after what it takes to open the part. `NumBooths = 2` booths
  exchange their places, with `NumSpots = 2` all are taken and with 3 one is free;
  `MaxAreas = 3` allows an area that belongs to no booth.

Symmetry is declared over ids that appear in no constant function, and never in a run with a
liveness property.

Fairness, in `LiveSpec` only: every step of a handler that stays enabled is
taken, because Node.js resumes a promise that has settled and the client's abort is a
timer. In `VenueAllocations` and `SpaceAreaCells` it is strong fairness: a statement that waits for a
lock is queued by PostgreSQL and gets it once it is released, even if others take it in between.
`DeadlockVictim` is weakly fair because PostgreSQL's detector runs after `deadlock_timeout`.
Nothing is assumed of administrators, of the network, or of ToonExpo: `EveryPublishIsAnswered`
holds because the client gives up after ten seconds. `Accounts`, `Records` and the front end
have no fairness: a browser may be closed at any time and `fetch` has no timeout there, so
their properties say what holds whenever all is answered. `CHECK_DEADLOCK FALSE` is
in every configuration because ids and actions run out and nothing is left to do.

## 8. What is not modelled

* The content of snapshots (privacy rules per area) and read-only lists: they decide on one
  request and leave no state behind. The snapshot is read by several statements, so it may mix two
  states of the map; the model's content is one checksum, and the torn read
  would need the tables of `SpaceAreaCells` and `VenueAllocations` in one instance, which is
  beyond what TLC explores in minutes.
* The eligibility check of provisioning reads tables that no action of `Provisioning` changes.
* A publication or provisioning row that stays PENDING after a restart: no statement asks for
  its repair (`docs/05-TOONEXPO-INTEGRATION.md:43` rules out a background job).
* DTO validation beyond the inputs enumerated, logging, the health probe.
* Forms and widgets (`components/ui`, the form of an area, of a cycle, of a user): they hold what
  is typed until one request sends it.
* The drawing of the hall: scene, camera and geometry. What the frame reports and is
  told is part of `MapEditor`. Areas without a booth, which the frame shows as
  booths of their own, are not dragged. `venue-map-stage.tsx` and its layers, and the upload of the plan's
  image, are not reached from a page.
* Deployment, seed data and documents.
