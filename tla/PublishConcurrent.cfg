SPECIFICATION Spec
CONSTANTS
    c1 = c1  c2 = c2  r1 = r1  r2 = r2  r3 = r3  r4 = r4  h1 = h1  h2 = h2
    None = None
    Checksums = {c1, c2}
    RowIds = {r1, r2, r3}
    Handlers = {h1, h2}
    MaxVersion = 3
SYMMETRY Symmetry
INVARIANTS RowsAreAHistory PublishedIsAccepted
PROPERTY ImplementsPublishedMap
CHECK_DEADLOCK FALSE
