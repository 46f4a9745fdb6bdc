SPECIFICATION ServicesSpec
CONSTANTS
    Users = {u1, u2, u3}
    NoUser = NoUser
    Low = low
    High = high
    Keys = {k1, k2, k3}
    NoKey = NoKey
    Initial = {k1}
    Tokens = {t1}
    Requests = {r1, r2, r3}
    Ops = {"visit", "list", "revoke", "logout", "change", "delete_account", "login", "reset"}
    MaxVersion = 2
    MayInterrupt = TRUE
SYMMETRY Symmetry
INVARIANTS
    BannedUsersAreOut
    DialogFollowsTheRelation
    OneRequestBetweenStrangers
    EndedSessionsStayOut
    LiveSessionsAreListed
    SessionsFollowThePassword
    TokensWorkOnce
PROPERTIES
    PrivateRoomsAreEnteredByInvitation
    ModerationFollowsTheHierarchy
