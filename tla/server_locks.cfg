CONSTANTS
    Rooms = {r1, r2}
    NoRoom = NoRoom
    NoThread = NoThread
SPECIFICATION Spec
INVARIANTS
    NoCircularWait
    SoundsStayInTheirGame
