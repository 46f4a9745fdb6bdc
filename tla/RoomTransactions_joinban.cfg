SPECIFICATION TSpec
CONSTANTS
    Users = {u1, u2, u3}
    NoUser = NoUser
    Requests = {r1, r2}
    Ops = {"join", "ban"}
SYMMETRY Symmetry
INVARIANT
    BannedUsersAreOut
