\* Two descriptors that three connections pass through and one two-slot room:
\* seats, ids, names, accounts, metrics and what members are told, across
\* hang-ups, reused descriptors, games, restarts and a host who leaves.
CONSTANTS
    Fds = {f1, f2}
    NoFd = NoFd
    Guest = Guest
    Accounts = {Ann}
    NoUser = NoUser
    NoName = NoName
    Names = {Guest, Ann}
    NumSlots = 2
    TotalWords = 1
    WordIdx <- SentWords
    MaxConns = 3
    MaxRooms = 1
\* Clients may stop coming: the server then waits in accept forever.
CHECK_DEADLOCK FALSE
SPECIFICATION Spec
SYMMETRY Symmetry
INVARIANTS
    TypeOK
    Membership
    GameScreensAgree
    SlotIdentity
    SignedInOnce
    ToldCurrent
    MetricsOwned
PROPERTIES
    ImplementsDirectory
    ProgressKept
