CONSTANTS
    p1 = p1
    p2 = p2
    o1 = o1
    l1 = l1
    l2 = l2
    None = None
    PodsAddr = {p1, p2}
    OtherAddr = {o1}
    Links = {}
    RSSIs <- MCRSSIs
    MinRSSI <- MCMinRSSI
    Window = 1
    MaxRecent = 2
    StaleAfter = 1
    PollInterval = 2
    NotesCap = 1
    MaxTime = 5
    Prompt = TRUE
SPECIFICATION Spec
CHECK_DEADLOCK FALSE
INVARIANTS
    FiguresAgeBound
