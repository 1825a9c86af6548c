SPECIFICATION BrowserSpec
CONSTANTS
    i1 = i1  i2 = i2  k1 = k1  k2 = k2  k3 = k3  r1 = r1  r2 = r2  o1 = o1  o2 = o2  o3 = o3
    p1 = p1  p2 = p2  e1 = e1  e2 = e2  e3 = e3
    Ids = {i1, i2}
    EventCycles = {k1, k2}
    MaxPageActions = 2
    None = None
    CycleIds = {k1, k2, k3}
    MaxCycleActions = 4
    NoCycle = NoCycle
    Records = {r1, r2}
    MaxSheetActions = 3
    NoRecord = NoRecord
    Companies = {o1, o2}
    NewCompany = o3
    MaxCreateActions = 6
    NoCompany = NoCompany
    Persons = {p1, p2}
    MaxOrganizationActions = 4
    NoPerson = NoPerson
    Entries = {e1, e2, e3}
    MaxSectionActions = 4
    NoEntry = NoEntry
    NumBooths = 2
    NumSpots = 2
    MaxAreas = 3
    MaxMapActions = 2
    NoArea = NoArea
INVARIANTS BrowserTypeOK SettledPageAgrees PickIsKept  DraftIsKept SubmittedIsChosen
           SettledOrganizationAgrees SettledSectionAgrees ImportPlacesBooths
PROPERTY SaveKeepsOtherFields
CHECK_DEADLOCK FALSE
