SPECIFICATION FairSpec
CONSTANTS
  runner = runner
  guest = guest
  stray = stray
  Peers = {runner, guest, stray}
  Names = {"ann", "bob", "root"}
  Passwords = {"right", "wrong"}
  Name <- MCName
  Knows <- MCKnows
  Root = "root"
  Anybody = "*"
  NoPassword = "no password"
  Nobody = nobody
  Scenarios <- MCScenarios
  MaxWindows = 2
INVARIANTS SharedByConsent SuccessIsDone
PROPERTIES AnswersAtLast AdmissionKept
CHECK_DEADLOCK FALSE
