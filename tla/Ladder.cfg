\* Three steps, two runs of a check, a program that may fork; five lines in all.
CONSTANTS
    c1 = c1
    c2 = c2
    ctl = ctl
    uvm = uvm
    tty = tty
    None = None
    p = p
    q = q
    Process = {p, q}
    Root = p
    Threads = FALSE
    Fd = {3}
    Device = {ctl}
    OtherFile = tty
    Code = {c1, c2}
    NumSteps = 3
    Lookup <- MCLookup
    NumRuns = 2
    MaxLines = 6
    Together = FALSE
SPECIFICATION Spec
INVARIANTS
    TypeOK
    LabelsAreRight
    DeltasAddUp
    NewIoctlsListed
    FlaggedAreReviewed
    ReportTellsOfRuns
    LadderInv
