\* A user who waits for every answer; one game.
CONSTANTS
    Users = {u1}
    NoUser = NoUser
    MaxStack = 4
    MaxPending = 2
    MaxDeferred = 2
    MaxHaste = 0
    MaxInbox = 2
    MaxGames = 1
\* A user may leave every view: then nothing needs to happen any more.
CHECK_DEADLOCK FALSE
SPECIFICATION Spec
PROPERTIES
    ReturnReachesLobby
