--------------------------------- MODULE Browser ----------------------------------
(* The web application in one browser: the parts of it that have a module of their own. *)
(* They meet only in the API, whose answers each part takes as they come, so a behaviour *)
(* works one part and leaves the others closed.                                          *)
EXTENDS Pages, ActiveCycle, Sheets, CreateSheets, OrganizationSheet, EntitySections, MapEditor

VARIABLE worked    \* the part this behaviour works

\* Without a cycle there are no pages that list its rows.
ASSUME SomeCycle == EventCycles # {}

Parts == {"page", "cycle", "sheet", "create", "organization", "section", "map"}

-----------------------------------------------------------------------------
\* A part that is closed keeps these values.

NoPage ==
    /\ page = BuilderSales /\ mounted = FALSE /\ typed = "all" /\ shown = Loading /\ server = NoRows
    /\ view = [cycle |-> CHOOSE c \in EventCycles : TRUE, filter |-> "all"]
    /\ cache = [k \in Keys |-> None] /\ loads = {} /\ moves = {} /\ actions = 0 /\ disturbed = FALSE

NoSwitcher ==
    /\ listed = {} /\ active = NoCycle /\ url = NoCycle /\ optimistic = NoCycle /\ stored = NoCycle
    /\ storable = FALSE /\ replacing = <<>> /\ used = 0 /\ picked = NoCycle /\ crossed = FALSE

NoSheet ==
    /\ kind = "deal" /\ items = [r \in Records |-> NoRecord] /\ accounts = {} /\ board = items
    /\ selected = NoRecord /\ activeId = NoRecord /\ pane = SheetLoad /\ draft = Empty /\ intended = Empty
    /\ editing = FALSE /\ asks = {} /\ acts = 0 /\ crossing = FALSE /\ overtyped = FALSE /\ outdated = {} /\ astray = {}

NoCreateSheet ==
    /\ formOpen = FALSE /\ search = "" /\ query = "" /\ searching = {} /\ options = <<>>
    /\ listOpen = FALSE /\ highlighted = 0 /\ organization = NoCompany /\ contacts = NoCompany
    /\ contact = NoCompany /\ asking = {} /\ orgSheet = FALSE /\ creating = FALSE /\ submitted = NoCompany
    /\ known = {} /\ created = {} /\ steps = 0 /\ chosen = NoCompany /\ late = FALSE

NoOrganizationSheet ==
    /\ details = [Blank EXCEPT !.status = "closed"] /\ org = "gone" /\ people = Nobody
    /\ detailLoad = [step |-> "over", name |-> "old", contacts |-> Nobody]
    /\ saving = NoPerson /\ changing = NoPerson /\ removing = "no" /\ editingId = NoPerson
    /\ deeds = 0 /\ mixed = FALSE

NoSection ==
    /\ section = "notes" /\ list = [status |-> "loading", entries |-> {}] /\ kept = {} /\ objects = {}
    /\ listLoad = [step |-> "over", entries |-> {}] /\ adding = NoEntry /\ dropping = NoEntry
    /\ works = 0 /\ unsure = {}

NoMap ==
    /\ visiting = FALSE /\ places = [i \in AreaIds |-> NoArea] /\ plan = NoArea /\ reading = NotReading
    /\ mapBooths = NoArea /\ dirty = {} /\ imported = FALSE /\ due = FALSE /\ persisting = NoArea
    /\ tasks = {} /\ selection = NoSelection /\ gestures = 0 /\ outcome = "none" /\ saved = Nowhere

-----------------------------------------------------------------------------
BrowserInit ==
    /\ worked \in Parts
    /\ IF worked = "page"         THEN PageInit         ELSE NoPage
    /\ IF worked = "cycle"        THEN CycleInit        ELSE NoSwitcher
    /\ IF worked = "sheet"        THEN SheetInit        ELSE NoSheet
    /\ IF worked = "create"       THEN CreateInit       ELSE NoCreateSheet
    /\ IF worked = "organization" THEN OrganizationInit ELSE NoOrganizationSheet
    /\ IF worked = "section"      THEN SectionInit      ELSE NoSection
    /\ IF worked = "map"          THEN MapInit          ELSE NoMap

BrowserNext ==
    /\ UNCHANGED worked
    /\ IF worked = "page"         THEN PageNext         ELSE UNCHANGED pageVars
    /\ IF worked = "cycle"        THEN CycleNext        ELSE UNCHANGED cycleVars
    /\ IF worked = "sheet"        THEN SheetNext        ELSE UNCHANGED sheetVars
    /\ IF worked = "create"       THEN CreateNext       ELSE UNCHANGED createVars
    /\ IF worked = "organization" THEN OrganizationNext ELSE UNCHANGED orgVars
    /\ IF worked = "section"      THEN SectionNext      ELSE UNCHANGED sectionVars
    /\ IF worked = "map"          THEN MapNext          ELSE UNCHANGED mapVars

browserVars == <<worked, pageVars, cycleVars, sheetVars, createVars, orgVars, sectionVars, mapVars>>

BrowserSpec == BrowserInit /\ [][BrowserNext]_browserVars

-----------------------------------------------------------------------------
\* Every part keeps its variables within the values its code gives them.
BrowserTypeOK ==
    /\ worked \in Parts /\ PageTypeOK /\ CycleTypeOK /\ SheetTypeOK /\ CreateTypeOK
    /\ OrganizationTypeOK /\ SectionTypeOK /\ MapTypeOK
=============================================================================
