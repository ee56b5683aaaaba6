CONSTANTS
    s1 = s1
    c1 = c1
    None = None
    Statuses = {s1}
    StaleAfter = 0
    PollInterval = 1
    NotesCap = 1
    MaxTime = 1
    Clients = {c1}
    Readers = {c1}
    SockCap = 1
    MaxSnap = 4
    AcceptFails = FALSE
    MaxInputs = 2
SPECIFICATION FairSpec
CHECK_DEADLOCK FALSE
INVARIANTS
    ExitLeavesOnlyNotifier
    RestingClientsAgree
    BroadcastsAreBounded
PROPERTIES
    ScreensGoForward
    ClientsFollowMonitor
    ClientsGoStale
    ShutdownCompletes
