CONSTANTS
    p1 = p1
    p2 = p2
    o1 = o1
    l1 = l1
    l2 = l2
    None = None
    PodsAddr <- MCPodsAddr
    OtherAddr <- MCOtherAddr
    Links <- MCLinks
    RSSIs <- MCRSSIs
    MinRSSI <- MCMinRSSI
    Window = 1
    MaxRecent = 3
    MaxTime = 2
SPECIFICATION Spec
CHECK_DEADLOCK FALSE
INVARIANTS
    ConsumerConverges
PROPERTIES
    PublishedIsRecentAndStrong
    PublishedIsLoudest
    LoudestPodsPublished
