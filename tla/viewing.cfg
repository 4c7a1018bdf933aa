SPECIFICATION Spec
CONSTANTS
  Clients = {c1, c2}
  Windows = {w1, w2}
  Rows = 2
  Limit = 3
  Found = {0, 2}
  Users <- MCUsers
  MaxLines = 2
  MaxCursor = 3
SYMMETRY Symmetry
INVARIANTS MatchExists BellKept
PROPERTY YankHoldsMark
CHECK_DEADLOCK FALSE
