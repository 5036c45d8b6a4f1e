\* Three threads, one account, a password and the one it is changed to.
CONSTANTS
    Fds = {f1, f2, f3}
    Users = {Ann}
    NoUser = NoUser
    Passwords = {p1, p2}
    NoPassword = NoPassword
    MaxResults = 1
\* Deadlock is checked: a client that is connected can always ask for something.
SPECIFICATION Spec
SYMMETRY Symmetry
INVARIANTS
    TypeOK
    Released
    AnswersTrue
    SignedInCommitted
PROPERTIES
    OldPasswordGiven
