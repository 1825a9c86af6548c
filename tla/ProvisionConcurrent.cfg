SPECIFICATION Spec
CONSTANTS
    o1 = o1  o2 = o2  n1 = n1  n2 = n2  r1 = r1  r2 = r2
    k1 = k1  k2 = k2  h1 = h1  h2 = h2
    None = None
    Orgs = {o1}
    Names = {n1, n2}
    RowIds = {r1, r2}
    Companies = {k1, k2}
    Handlers = {h1, h2}
SYMMETRY Symmetry
INVARIANTS OneCompanyPerOrganization RecordsAreBacked
CHECK_DEADLOCK FALSE
