SPECIFICATION Spec
CONSTANTS
    Requests = {r1, r2, r3}
    Messages = {foreign}
    Foreign = {foreign}
    Ops = {"upload", "post", "delete_account"}
    MayInterrupt = FALSE
SYMMETRY Symmetry
INVARIANT
    MessagesKeepTheirFile
