SPECIFICATION FairSpec
CONSTANTS
    MaxIds = 2
    MaxClients = 2
    Startup = 0
    RenumberTo = {1}
    Limits <- TwoLimits
    Features = {"settings", "numbers", "mouse"}
PROPERTIES ExitNoticed LastExitEndsSession
CHECK_DEADLOCK FALSE
