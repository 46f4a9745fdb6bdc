SPECIFICATION SSpec
CONSTANTS
    Low = low
    High = high
    Requests = {r1, r2, r3}
    Ops = {"request", "accept", "reject", "unfriend", "ban", "unban", "dialog", "send"}
SYMMETRY Symmetry
PROPERTIES
    SeparatedSendersAreRefused
    RequestsAreAnsweredOnce
    BansAndUnbansAlternate
    LoneRequestsAreServed
    FreezesAreLostByOverlaps
