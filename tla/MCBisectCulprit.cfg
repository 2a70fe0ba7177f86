SPECIFICATION Spec
CONSTANTS
    N = 4
    FirstBads = {2}
    Brackets <- MCBrackets
    Terms = {t1}
    MaxMishaps = 0
    None = None
    Empty = Empty
    Brick = Brick
PROPERTY CulpritIsFirstBad
CHECK_DEADLOCK FALSE
