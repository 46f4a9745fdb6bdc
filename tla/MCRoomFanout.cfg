SPECIFICATION FSpec
CONSTANTS
    Users = {u1, u2}
    NoUser = NoUser
    Requests = {r1, r2}
    Sockets = {s1}
    Ops = {"join", "leave", "accept", "promote", "demote", "remove", "ban",
           "unban", "post", "delete"}
INVARIANTS
    GroupMirrorsSubscriptions
    OneLateEventAtMost
PROPERTIES
    AnnouncedLossesUnsubscribe
