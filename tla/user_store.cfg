CONSTANTS
    a = a
    b = b
    ac = ac
    empty = empty
    brace = brace
    NoUser = NoUser
    Names = {a, b, ac}
    Rank <- InOrder
    NameRead <- UpToComma
    Passwords = {empty, brace}
    PasswordRead <- UpToBrace
    Blank = empty
    Braced = {brace}
    MaxGames = 1
SPECIFICATION FairSpec
INVARIANTS
    TypeOK
    NoResultInvented
    NothingLostWithoutMishap
PROPERTIES
    LoginsAreAnswered
