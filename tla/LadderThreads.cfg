\* What parse_trace.py:5-7 and 9-11 say of strace -f output.
CONSTANTS
    c1 = c1
    c2 = c2
    ctl = ctl
    uvm = uvm
    tty = tty
    None = None
    p = p
    q = q
    Process = {p}
    Root = p
    Threads = TRUE
    Fd = {3}
    Device = {ctl}
    OtherFile = tty
    Code = {c1}
    NumSteps = 1
    Lookup <- MCLookup
    NumRuns = 1
    MaxLines = 6
    Together = FALSE
SPECIFICATION Spec
INVARIANTS
    NeverWrongDevice
