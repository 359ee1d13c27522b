\* Closes that are ignored, an fd beyond the table, a handle table with room
\* for one captured handle, schemas that just fit, and requests with more fd
\* offsets than are kept.
CONSTANTS
    f1 = f1
    f2 = f2
    h1 = h1
    h2 = h2
    None = None
    Fd = {f1, f2}
    Handle = {h1, h2}
    Offset <- MCOffset
    Req <- MCReq
    Layout <- MCLayout
    Frees <- MCFrees
    Schema <- MCSchema
    CloseLogged = TRUE
    MaxTrace = 5
    MappedFd = {f1}
    HandleCapacity = 1
    SchemaFile <- MCSchemaFile
    HexNamed <- MCHexNamed
    MaxSchemas = 3
    MaxHandleOffs = 1
SPECIFICATION CSpec
SYMMETRY HandleSymmetry
INVARIANTS
    TablesFollow
    IoctlsReachCounterparts
