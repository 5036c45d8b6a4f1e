\* Two accounts, two games, two requests and two messages under way; the user
\* acts twice without waiting for what is under way.
CONSTANTS
    Users = {u1, u2}
    NoUser = NoUser
    MaxStack = 4
    MaxPending = 2
    MaxDeferred = 2
    MaxHaste = 2
    MaxInbox = 2
    MaxGames = 2
\* A user may leave every view: then nothing needs to happen any more.
CHECK_DEADLOCK FALSE
SPECIFICATION Spec
SYMMETRY Symmetry
INVARIANTS
    TypeOK
    FormsAnswered
    RoomCurrent
    InStep
    SavesPlayed
