SPECIFICATION Spec
CONSTANTS
    a = a
    b = b
    good = good
    bad = bad
    s1 = s1
    NoRules = NoRules
    NoSite = NoSite
    App <- MCApp
    Rules <- MCRules
    BadRules <- MCBadRules
    Site <- MCSite
    Offered <- MCOfferedFew
    MaxReleases = 2
    ReloadOutcomes <- MCAllReloads
    StartsInOrder = FALSE
    EntrypointSeeds = FALSE
    SlowSupervisor = TRUE
    CorazaMayCrash = TRUE
    BackendMayCrash = TRUE
    HaproxyMayRestart = TRUE
INVARIANTS
    TypeOK
    CurrentResolves
    ActivatedIsValidated
    OutcomeIsTrue
PROPERTIES
    ImplementsSwitch
