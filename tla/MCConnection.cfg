\* Three messages of the server, two of the client, and either end may go.
CONSTANTS
    NL = NL
    Junk = Junk
    MaxDown = 3
    MaxUp = 2
\* Both processes may be gone.
CHECK_DEADLOCK FALSE
SPECIFICATION FairSpec
INVARIANTS
    TypeOK
    EndsOnOwnTerms
PROPERTIES
    ImplementsChannels
    Delivers
    Closes
