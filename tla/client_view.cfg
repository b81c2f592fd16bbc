CONSTANTS
    wR = wR
    bK = bK
    NoPiece = NoPiece
    Pieces = {wR, bK}
    Width = 3
    Height = 1
    Color <- RookAndKingColor
    StartKind <- RookAndKing
    Layouts <- Corners
    MoveTime = 2
    JumpTime = 2
    RestTime = 2
    Ticks = {1}
    Frames = {1}
    MaxQueue = 2
    MaxGames = 1
    MaxRequests = 2
SPECIFICATION ClientFairSpec
INVARIANTS
    ShownGameOverIsReal
PROPERTIES
    GameOverIsShown
    ClientCatchesUp
