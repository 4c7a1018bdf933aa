SPECIFICATION WireSpec
CONSTANTS
  Base = 4
  Magic = 3
  Version = 2
  Messages <- MCMessages
  Followers <- MCFollowers
  MaxSent = 2
  Timeouts = 3
INVARIANTS Faithful FailureExplained NothingOwed
CHECK_DEADLOCK FALSE
