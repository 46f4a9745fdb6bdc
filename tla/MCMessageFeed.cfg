SPECIFICATION Spec
CONSTANTS
    N = 3
    PageSize = 1
    MaxWrites = 2
    MaxOpens = 2
INVARIANTS
    ScrollingUpSkipsNothing
    OnlyOvertakenMessagesSlip
    QuietScreenIsRight
    ChatsDoNotMix
