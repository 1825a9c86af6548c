SPECIFICATION Spec
CONSTANTS
    a1 = a1  a2 = a2  d1 = d1  p1 = p1  c1 = c1  c2 = c2
    i1 = i1  i2 = i2  h1 = h1  h2 = h2
    None = None
    Areas = {a1, a2}
    Deals = {d1}
    Partners = {p1}
    Cycles = {c1}
    MoveTo = {}
    Rows = {i1, i2}
    Handlers = {h1, h2}
    PlanCycle <- PlanOneCycle
    HomeCycle <- HomeOneCycle
SYMMETRY ConcurrentSymmetry
INVARIANT AllocationsAreSound
PROPERTIES ImplementsOccupancy WonRequiresAllocation ReleasedBeforeRemoval
CHECK_DEADLOCK FALSE
