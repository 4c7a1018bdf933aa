SPECIFICATION Spec
CONSTANTS
  Histories <- MCHistories
  Pages <- MCPages
  Queries <- MCQueries
  Users <- MCUsers
  Config <- MCConfig
  Runtime <- MCRuntime
  Room = 1
  MaxNews = 1
INVARIANTS CursorVisible TerminalRestored
PROPERTY LeavesAtLast
CHECK_DEADLOCK FALSE
