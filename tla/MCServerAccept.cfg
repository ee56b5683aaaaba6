CONSTANTS
    good = good
    bad = bad
    Clients = {good, bad}
    Readers = {good}
    SockCap = 1
    MaxSnap = 1
    AcceptFails = TRUE
SPECIFICATION FairSpec
CHECK_DEADLOCK FALSE
PROPERTIES
    DialedIsServed
