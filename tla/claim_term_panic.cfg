SPECIFICATION Spec
CONSTANTS
    Glyphs = {"a"}
    Sizes <- Column4
    Counts = {1}
    Places = {1, 2, 4}
    Limits = {0}
    Default = 0
    MaxCells = 9
    Features = {"lines"}
INVARIANT NoPanic
CHECK_DEADLOCK FALSE
