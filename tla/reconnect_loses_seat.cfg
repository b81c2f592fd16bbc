CONSTANTS
    c1 = c1
    c2 = c2
    c3 = c3
    c4 = c4
    u1 = u1
    u2 = u2
    u3 = u3
    NoConn = NoConn
    NoRoom = NoRoom
    NoUser = NoUser
    Conns = {c1, c2, c3}
    Users = {u1, u2, u3}
    UserOf <- ReturningPlayer
    Rooms = {r1}
    Names = {n1}
    MaxMatches = 0
SPECIFICATION Spec
CHECK_DEADLOCK FALSE
SYMMETRY SameAccount
INVARIANTS
    ReconnectionRestoresSeat
