\* What replay.c:406 says of a failed open.
CONSTANTS
    f1 = f1
    f2 = f2
    h1 = h1
    h2 = h2
    None = None
    Fd = {f1, f2}
    Handle = {h1, h2}
    Offset <- MCOffset
    Req <- MCReq
    Layout <- MCLayout
    Frees <- MCFrees
    Schema <- MCSchema
    CloseLogged = FALSE
    MaxTrace = 3
    MappedFd = {f1, f2}
    HandleCapacity = 2
    SchemaFile <- MCSchemaFile
    HexNamed <- MCHexNamed
    MaxSchemas = 3
    MaxHandleOffs = 2
SPECIFICATION CSpec
SYMMETRY Symmetry
INVARIANTS
    DownstreamIoctlsFail
