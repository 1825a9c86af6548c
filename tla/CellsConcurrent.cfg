SPECIFICATION LiveSpec
CONSTANTS
    a1 = a1  a2 = a2  h1 = h1  h2 = h2
    None = None
    Areas = {a1, a2}
    Columns = {1, 2}
    GridRows = {1, 2}
    Handlers = {h1, h2}
    Shapes <- SomeShapes
    ModeEdits = {"CUSTOM_LABEL"}
    LabelEdits = {}
INVARIANTS CellsMatchAreas AreasAreConsistent AcceptsExactlyFilledRectangles
PROPERTY EveryRequestIsAnswered
CHECK_DEADLOCK FALSE
