SPECIFICATION FairSpec
CONSTANTS
    job = job
    admin = admin
    apply = apply
    None = None
    Job <- MCJob
    Admin <- MCAdmin
    Applier <- MCApplier
    Bad <- MCBad
    MaxVersion = 3
    MaxFaults = 2
INVARIANTS
    MapIsWhole
    UpToDateIsTrue
PROPERTIES
    MapCatchesUp
    HaproxyCatchesUp
