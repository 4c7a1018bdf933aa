SPECIFICATION LinesSpec
CONSTANTS
    Glyphs = {"a"}
    Sizes <- TallBroad
    Counts = {0, 2}
    Places = {0, 2, 3, 4}
    Limits = {0}
    Default = 1
    MaxCells = 6
    Features = {"lines", "history", "cells", "wide"}
INVARIANT ScrollsByRows
PROPERTIES RowEditsStay RegionKept TapeContinues
CHECK_DEADLOCK FALSE
