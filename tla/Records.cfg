SPECIFICATION Spec
CONSTANTS
    c1 = c1  c2 = c2  o1 = o1  o2 = o2  k1 = k1  k2 = k2  k3 = k3  d1 = d1
    p1 = p1  p2 = p2  i1 = i1  x1 = x1  x2 = x2  h1 = h1  h2 = h2
    None = None
    Cycles = {c1, c2}
    Orgs = {o1, o2}
    Contacts = {k1, k2, k3}
    Deals = {d1}
    Plans = {p1, p2}
    Items = {i1}
    Objects = {x1, x2}
    Handlers = {h1, h2}
    Workloads <- AllWork
SYMMETRY Symmetry
INVARIANTS NoDanglingReference OnePlanPerCycle ContactBelongsToOrganization
           OnePrimaryContact ContentHasOwner ContentIsStored
PROPERTIES ClosedIsFinal NothingEntersClosedCycle
CHECK_DEADLOCK FALSE
