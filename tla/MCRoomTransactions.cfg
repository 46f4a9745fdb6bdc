SPECIFICATION TSpec
CONSTANTS
    Users = {u1, u2, u3}
    NoUser = NoUser
    Requests = {r1, r2}
    Ops = {"promote", "demote", "ban", "unban", "join", "leave", "invite",
           "accept", "reject", "read", "update", "delete"}
SYMMETRY Symmetry
INVARIANTS
    OwnerIsTheOneOwner
PROPERTIES
    DecisionsMatchTheRow
    InvitationsAdmitNoBanned
    OnlyTheUserEnters
    SerialSteps
    LoneRequestsAreServed
    
