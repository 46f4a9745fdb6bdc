SPECIFICATION FSpec
CONSTANTS
    Users = {u1, u2}
    NoUser = NoUser
    Requests = {r1}
    Sockets = {s1}
    Ops = {"leave", "promote", "remove", "ban"}
PROPERTY
    AnnouncementsMatchLosses
