CONSTANTS
    Fds = {f1, f2}
    NoFd = NoFd
    Names = {Guest}
    NoName = NoName
    Founder = f1
    NumSlots = 2
    TotalWords = 1
    MaxGames = 2
    MaxJoins = 2
    Trainees = {f2}
    MaxPending = 1
\* All may leave the room for good.
CHECK_DEADLOCK FALSE
SPECIFICATION FairSpec
INVARIANTS
    TypeOK
    WordsScored
PROPERTIES
    EndsUnlessAbandoned
