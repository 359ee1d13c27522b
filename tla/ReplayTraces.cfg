\* Every trace of two fds, two handles and two requests, with closes that
\* are logged and closes that are not.
CONSTANTS
    f1 = f1
    f2 = f2
    h1 = h1
    h2 = h2
    None = None
    Fd = {f1, f2}
    Handle = {h1, h2}
    Offset <- MCOffset
    Req <- MCReq
    Layout <- MCLayout
    Frees <- MCFrees
    Schema <- MCSchema
    CloseLogged = TRUE
    MaxTrace = 5
SPECIFICATION Spec
SYMMETRY Symmetry
INVARIANTS
    TypeOK
    CounterpartUntilDivergence
    CountsAddUp
    CleanExitIsFaithful
    IInv
