SPECIFICATION Spec
CONSTANTS
    p1 = p1
    p2 = p2
    e1 = e1
    e2 = e2
    None = None
    Process <- MCProcess
    Email <- MCEmail
    MaxCommands = 4
SYMMETRY Symmetric
CHECK_DEADLOCK FALSE
PROPERTIES
    AdminStays
    OnlyAdminsAdmitted
