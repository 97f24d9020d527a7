SPECIFICATION FairSpec
CONSTANTS
    a = a
    b = b
    good = good
    bad = bad
    s1 = s1
    NoRules = NoRules
    NoSite = NoSite
    App <- MCApp
    Rules <- MCRules
    BadRules <- MCBadRules
    Site <- MCSite
    Offered <- MCOffered
    MaxReleases = 3
    ReloadOutcomes <- MCOkReloads
    StartsInOrder = TRUE
    EntrypointSeeds = TRUE
    SlowSupervisor = FALSE
    CorazaMayCrash = FALSE
    BackendMayCrash = FALSE
    HaproxyMayRestart = FALSE
INVARIANTS
    CorazaFailureKeepsHaproxy
PROPERTIES
    NewNamesLoadedFirst
    NamesLostOnlyByDropping
    ApplyReturns
    CorazaConverges
