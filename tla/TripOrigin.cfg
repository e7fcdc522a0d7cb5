CONSTANTS
    Screens = {s1, s2}
    Positions <- MCPositions
    None = None
    MaxBlocks = 3
    Side = 1024
    KeyLength = 4
SPECIFICATION OriginSpec
INVARIANT TypeOK
INVARIANT NoForeignRelease
INVARIANT UnansweredHasReason
INVARIANT KeyIsOriginsCell
INVARIANT SameKeySameCell
PROPERTY AnswerComes
