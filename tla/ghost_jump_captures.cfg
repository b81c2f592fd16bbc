CONSTANTS
    wK = wK
    wR = wR
    wP = wP
    bK = bK
    bR = bR
    bP = bP
    NoPiece = NoPiece
    Pieces = {wR, bK}
    Width = 2
    Height = 3
    Color <- MCColor
    StartKind <- MCKind
    Layouts <- RookLayouts
    MoveTime = 1
    JumpTime = 2
    RestTime = 3
    Ticks = {1, 3}
    MaxTimers = 9
SPECIFICATION FairSpec
PROPERTIES
    AttackerLandsOnEmptyCell
