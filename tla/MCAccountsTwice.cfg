\* Two threads and one account.
CONSTANTS
    Fds = {f1, f2}
    Users = {Ann}
    NoUser = NoUser
    Passwords = {p1}
    NoPassword = NoPassword
    MaxResults = 0
SPECIFICATION Spec
INVARIANTS
    SignedInOnce
