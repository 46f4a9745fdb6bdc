SPECIFICATION SSpec
CONSTANTS
    Low = low
    High = high
    Requests = {r1, r2}
    Ops = {"ban", "dialog"}
SYMMETRY Symmetry
INVARIANT
    FreezeHoldsAtRest
