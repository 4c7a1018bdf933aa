SPECIFICATION Spec
CONSTANTS
    MaxIds = 3
    MaxClients = 2
    Startup = 1
    RenumberTo = {1}
    Limits <- NoLimits
    Features = {"mouse", "numbers"}
INVARIANTS SelectedInRange NobodyViewsZombie
PROPERTIES LivesKept ForcedMovesLeaveTheDead SelectionFollows
CHECK_DEADLOCK FALSE
