\* A leaver and a joiner that write one slot at once.
CONSTANTS
    Fds = {f1, f2}
    NoFd = NoFd
    NumSlots = 2
    MaxConns = 2
    MaxRooms = 1
\* Clients may stop coming: the server then waits in accept forever.
CHECK_DEADLOCK FALSE
SPECIFICATION Spec
SYMMETRY Symmetry
INVARIANTS
    RoomsDeleted
