CONSTANTS
    wK = wK
    wR = wR
    wP = wP
    bK = bK
    bR = bR
    bP = bP
    NoPiece = NoPiece
    Pieces = {wP, bK, bP}
    Width = 2
    Height = 3
    Color <- MCColor
    StartKind <- MCKind
    Layouts <- PawnLayouts
    MoveTime = 1
    JumpTime = 2
    RestTime = 3
    Ticks = {1, 3}
    MaxTimers = 3
SPECIFICATION Spec
CONSTRAINT BoundedTimers
INVARIANTS
    CapturedKingEndsGame
    PawnsPromote
PROPERTIES
    CaptureIsFinal
