SPECIFICATION FairSpec
CONSTANTS
    e1 = e1
    e2 = e2
    e3 = e3
    Event <- MCEvent
    Size <- MCSize
    Poison <- MCPoison
    Slots <- MCSlots
    LineLimit = 2
    MaxFiles = 2
    MaxStops = 1
    RotateAt = 3
    TruncatesInPlace = TRUE
    RenameWhileOpening = FALSE
    SaveMayFail = TRUE
    DeadLetterMayFail = FALSE
INVARIANTS
    OnlyHopelessDropped
    SavedIsSettled
    ReadIsSettled
PROPERTIES
    SavedOnlyAdvances
    EventArrives
