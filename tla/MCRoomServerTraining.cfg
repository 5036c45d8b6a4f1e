\* A client that left a training session unfinished plays an arena game.
CONSTANTS
    Fds = {f1, f2, f3}
    NoFd = NoFd
    Guest = Guest
    Accounts = {}
    NoUser = NoUser
    NoName = NoName
    Names = {Guest}
    NumSlots = 2
    TotalWords = 1
    WordIdx <- SentWords
    MaxConns = 4
    MaxRooms = 1
\* Clients may stop coming: the server then waits in accept forever.
CHECK_DEADLOCK FALSE
SPECIFICATION Spec
SYMMETRY Symmetry
PROPERTIES
    ArenaInputScored
