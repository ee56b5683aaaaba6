CONSTANTS
    good = good
    bad = bad
    Clients = {good, bad}
    Readers = {good}
    SockCap = 1
    MaxSnap = 3
    AcceptFails = TRUE
SPECIFICATION FairSpec
CHECK_DEADLOCK FALSE
INVARIANTS
    TypeOK
    StreamGoesForward
    NewestIsOnItsWay
    NothingLeft
PROPERTIES
    ReadersCatchUp
    CloseReturns
