SPECIFICATION Spec
CONSTANTS
    ip1 = ip1
    c1 = c1
    None = None
    Vhost = {1, 2}
    Ip <- MCIp
    Client <- MCClient
    ResyncWindow = 5
    HandoverTimeout = 6
INVARIANTS
    UnbanHolds
PROPERTIES
    BansSurviveReload
    ReloadEnds
