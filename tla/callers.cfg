SPECIFICATION FairSpec
CONSTANTS
    q1 = q1
    q2 = q2
    job = job
    v1 = v1
    v2 = v2
    r1 = r1
    r2 = r2
    Nothing = Nothing
    Request <- MCRequest
    Job <- MCJob
    Vhosts <- MCVhosts
    Rest <- MCRest
    Broken <- MCBroken
INVARIANTS
    DeployedRowIsActive
    UndoesItsOwn
PROPERTIES
    LockIsReleased
