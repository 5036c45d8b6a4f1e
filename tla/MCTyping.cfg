\* Two players, two words of one and two letters; the game lasts one clock step.
CONSTANTS
    x = x
    y = y
    Players = {p1, p2}
    Letters <- Alphabet
    Words <- Paragraph
    Duration = 1
    MaxTime = 2
    MaxKeys = 3
    MaxJoins = 1
\* The game ends and the players are idle.
CHECK_DEADLOCK FALSE
SPECIFICATION Spec
SYMMETRY Symmetry
INVARIANTS
    TypeOK
    ScoredAsTyped
    OneLateWordEach
    RankedFairly
