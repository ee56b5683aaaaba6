CONSTANTS
    None = None
    Ids <- MCIds
    Levels <- MCLevels
    Lengths <- MCLengths
SPECIFICATION MCSpec
INVARIANTS
    RulesAreUnambiguous
    ArtworkAgrees
    FrontendsAgree
    EveryCardHasArtwork
PROPERTIES
    SwapKeepsView
