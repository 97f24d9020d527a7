SPECIFICATION Spec
CONSTANTS
    a1 = a1
    a2 = a2
    v1 = v1
    p1 = p1
    p2 = p2
    None = None
    Unset = Unset
    Admin <- MCAdmin
    Vhost <- MCVhost
    Policy <- MCPolicy
    Lists <- MCLists
    UnsafePath <- MCUnsafePath
    NewPolicies <- MCNewPolicies
    VhostPatches <- MCVhostPatches
    PolicyPatches <- MCPolicyPatches
    MaxRequests = 5
SYMMETRY Symmetric
CHECK_DEADLOCK FALSE
INVARIANTS
    MirrorHolds
    FilterIsRendered
    RefusalIsVisible
PROPERTIES
    AssignedPolicyStays
