CONSTANTS
    d1 = d1
    a = a
    b = b
    r = r
    None = None
    Devices = {d1}
    Payloads = {a, b}
    RSSIs = {r}
    SigCap = 2
    MaxChange = 3
SPECIFICATION FairSpec
CHECK_DEADLOCK FALSE
INVARIANTS
    LinksFollow
    HeardLatest
PROPERTIES
    SourceEnds
