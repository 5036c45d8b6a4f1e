\* Three threads, two rooms of two slots, descriptors reused, access by access.
CONSTANTS
    Fds = {f1, f2, f3}
    NoFd = NoFd
    NumSlots = 2
    MaxConns = 3
    MaxRooms = 2
\* Clients may stop coming: the server then waits in accept forever.
CHECK_DEADLOCK FALSE
SPECIFICATION Spec
SYMMETRY Symmetry
CONSTRAINT Explored
INVARIANTS
    TypeOK
    ClientKnown
    IndexOwned
    SeatOwned
    SeatKept
    RoomsNotLeaked
    HostSeated
