CONSTANTS
    s1 = s1
    None = None
    Statuses <- MCStatuses
    StaleAfter = 1
    PollInterval = 2
    NotesCap = 2
    MaxTime = 3
SPECIFICATION Spec
CHECK_DEADLOCK FALSE
INVARIANTS
    TypeOK
    SnapshotNewest
    StalenessHonest
    NotesAlternate
    NotesCarryTheirEdge
PROPERTIES
    FiguresReturnOnlyWithBeacon
