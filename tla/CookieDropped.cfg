SPECIFICATION Spec
CONSTANTS
    u1 = u1  u2 = u2  s1 = s1  s2 = s2  b1 = b1  b2 = b2  h1 = h1  h2 = h2
    None = None
    Users = {u1, u2}
    Tokens = {s1, s2}
    Browsers = {b1, b2}
    Slots = {h1, h2}
    Scenarios <- OnlyAging
    Changes <- SomeChanges
    TTL = 4
    Threshold = 2
SYMMETRY Symmetry
INVARIANT LiveSessionIsPresented
CHECK_DEADLOCK FALSE
