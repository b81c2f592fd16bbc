CONSTANTS
    wR = wR
    bK = bK
    NoPiece = NoPiece
    NoCell = NoCell
    Fronts = {"text", "gui"}
    Pieces = {wR, bK}
    Width = 2
    Height = 3
    Color <- MCColor
    StartKind <- MCKind
    Layouts <- RookAgainstKing
    MoveTime = 1
    JumpTime = 2
    RestTime = 3
    Ticks = {1, 3}
SPECIFICATION LocalFairSpec
INVARIANTS
    SelectionIsOccupied
    DragIsGrounded
PROPERTIES
    MotionsEnd
    GameOverQuiesces
