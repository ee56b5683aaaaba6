CONSTANTS
    p1 = p1
    p2 = p2
    o1 = o1
    l1 = l1
    l2 = l2
    None = None
    PodsAddr = {p1}
    OtherAddr = {}
    Links = {l1, l2}
    RSSIs <- MCOneRSSI
    MinRSSI <- MCMinRSSI
    Window = 1
    MaxRecent = 1
    StaleAfter = 0
    PollInterval = 1
    NotesCap = 1
    MaxTime = 1
    Prompt = FALSE
SPECIFICATION FairSpec
CHECK_DEADLOCK FALSE
INVARIANTS
    LinkIsTrue
PROPERTIES
    ImplementsScanner
    ImplementsMonitor
    AllEndTogether
