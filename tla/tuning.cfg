SPECIFICATION Spec
CONSTANTS
    w1 = w1
    w2 = w2
    None = None
    Unset = Unset
    Worker <- MCWorker
    Character <- MCCharacter
    Windows <- MCWindows
    Patches <- MCPatches
    CustomIds <- MCCustomIds
    MinEvents = 2
    MaxRequests = 4
SYMMETRY Symmetric
CHECK_DEADLOCK FALSE
INVARIANTS
    OneRowPerTarget
    ResolvedOnce
    ApprovedTakesEffect
    ScopesAgree
    NoneIsSkipped
    RuleIdsDiffer
