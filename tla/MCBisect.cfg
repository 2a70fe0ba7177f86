SPECIFICATION Spec
CONSTANTS
    N = 5
    FirstBads = {2, 4}
    Brackets <- MCBrackets
    Terms = {t1, t2}
    MaxMishaps = 1
    None = None
    Empty = Empty
    Brick = Brick
INVARIANTS
    TypeOK
    BracketSound
    NothingLost
PROPERTIES
    Halves
    Converges
CHECK_DEADLOCK FALSE
