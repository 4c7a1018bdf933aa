SPECIFICATION Spec
CONSTANTS
    MaxIds = 2
    MaxClients = 1
    Startup = 0
    RenumberTo = {}
    Limits <- NoLimits
    Features = {"regions", "layouts"}
INVARIANT FocusValid
PROPERTY RangeKept
CHECK_DEADLOCK FALSE
