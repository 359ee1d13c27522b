\* Two threads reuse two fds, one of them beyond the tables; a thread may call exit and the
\* program may be killed.
\* No symmetry: the run checks liveness too.
CONSTANTS
    t1 = t1
    t2 = t2
    ctl = ctl
    socket = socket
    None = None
    Thread = {t1, t2}
    NumFds = 2
    MaxFds = 1
    Nvidia = {ctl}
    Other = {socket}
    MaxCalls = 4
SPECIFICATION FairSpec
INVARIANTS
    TypeOK
    TablesMatchKernel
    ReturnedCallsOnDisk
    CausalOrder
    LogNamesFile
    SnifferInv
    LogInv
PROPERTIES
    CallsReturn
