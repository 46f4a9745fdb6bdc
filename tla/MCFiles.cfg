SPECIFICATION FilesSpec
CONSTANTS
    Requests = {r1, r2, r3, r4, r5}
    Messages = {own, foreign}
    Foreign = {foreign}
    Ops = {"upload", "post", "delete", "delete_message", "delete_room", "delete_account"}
    MayInterrupt = TRUE
    ByHand = TRUE
    MayMiscopy = TRUE
    Sizes = {1, 2, 4}
    Positions = {0, 1, 2, 3, 4, 5}
    ChunkSize = 2
SYMMETRY Symmetry
INVARIANTS
    BoundToOneMessage
    OnlyMishapsLeak
    DownloadsFindTheFile
    ShortCopiesAreUndone
    DownloadsSendWhatIsAsked
PROPERTIES
    KeepsThePromise
