CONSTANTS
    wK = wK
    wR = wR
    wP = wP
    bK = bK
    bR = bR
    bP = bP
    NoPiece = NoPiece
    Pieces = {wR, bK, bR}
    Width = 2
    Height = 3
    Color <- MCColor
    StartKind <- MCKind
    Layouts <- RookLayouts
    MoveTime = 1
    JumpTime = 2
    RestTime = 3
    Ticks = {1, 3}
    MaxTimers = 3
SPECIFICATION Spec
CONSTRAINT BoundedTimers
INVARIANTS
    TypeOK
    BoardConsistent
    InFlightOffBoard
    RestingNotInFlight
    OneJumperPerCell
    MovingIsTemporary
    ScoreAccounts
PROPERTIES
    JumperIsShielded
    ImplementsGame
