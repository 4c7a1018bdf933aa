SPECIFICATION Spec
CONSTANTS
    Glyphs = {"a"}
    Sizes <- TallWide
    Counts = {1}
    Places = {1, 2}
    Limits = {0, 2}
    Default = 1
    MaxCells = 5
    Features = {"saving", "alternate", "cells", "lines", "modes"}
INVARIANT GridCovered
PROPERTIES PrimaryKept PanicsOnlyAstray
CHECK_DEADLOCK FALSE
