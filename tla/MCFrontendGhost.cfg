CONSTANTS
    tray = tray
    None = None
    NotRunning = NotRunning
    Screens = {tray}
    MaxDaemons = 2
    MaxPushes = 1
    Command = Command
    AcceptFails = FALSE
SPECIFICATION FairSpec
CHECK_DEADLOCK FALSE
PROPERTIES
    OldFiguresAreHidden
