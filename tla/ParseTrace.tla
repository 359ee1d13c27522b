----------------------------- MODULE ParseTrace -----------------------------
(***************************************************************************)
(* parse_trace.py: parse_lines reads an strace log of openat, close and    *)
(* ioctl calls and names the device of each ioctl.  The traced processes   *)
(* and strace -f, which are external, write the log line by line: a line   *)
(* is whole only if no other traced thread stopped while the call ran,     *)
(* else strace cuts it into an unfinished and a resumed part.              *)
(***************************************************************************)
EXTENDS Naturals, FiniteSets, SequencesExt

CONSTANTS
    Process,     \* the traced processes; the first one is Root
    Root,
    Threads,     \* more than one thread is traced
    Fd,
    Device,      \* the paths under /dev/nvidia
    OtherFile,   \* any other path
    Code,        \* request codes, as strace prints them
    None

ASSUME TracedAssumption ==
    /\ Root \in Process /\ Threads \in BOOLEAN
    /\ Fd \in (SUBSET Nat) \ {{}} /\ OtherFile \notin Device /\ None \notin Device \cup {OtherFile}

VARIABLES
    files,  \* the kernel's: process -> fd -> path or None; <<>> before it starts
    log,    \* the lines strace wrote
    reached \* history: the file that each ioctl with a whole line reached

traceVars == <<files, log, reached>>

Unfinished(call) == [call |-> "unfinished", of |-> call]
OpenatLine(f, path) == [call |-> "openat", fd |-> f, path |-> path]
CloseLine(f) == [call |-> "close", fd |-> f]
IoctlLine(f, c) == [call |-> "ioctl", fd |-> f, code |-> c]

Line ==
    [call : {"openat"}, fd : Fd, path : Device \cup {OtherFile}]
    \cup [call : {"close"}, fd : Fd]
    \cup [call : {"ioctl"}, fd : Fd, code : Code]
    \cup [call : {"unfinished"}, of : {"openat", "close", "ioctl"}]
Files == {<<>>} \cup [Fd -> Device \cup {OtherFile, None}]
FdMap == [Fd -> Device \cup {None}]
Entry == [device : Device \cup {"unknown"}, request_code : Code, is_new : BOOLEAN]
-----------------------------------------------------------------------------
(* The program starts with no device open; other files may be.             *)
Start ==
    /\ \E inherited \in [Fd -> {OtherFile, None}] :
         files' = [p \in Process |-> IF p = Root THEN inherited ELSE <<>>]
    /\ log' = <<>> /\ reached' = <<>>

Live == {p \in Process : files[p] # <<>>}
Free(p) == {f \in Fd : files[p][f] = None}

(* The parts of a line that was cut look like no call the parser knows.    *)
MayBeCut == Threads \/ Cardinality(Live) > 1
Logs(line) ==
    \/ log' = Append(log, line)
    \/ MayBeCut /\ log' = Append(log, Unfinished(line.call))

Openat(p, path) ==
    \E f \in Free(p) :
        /\ \A g \in Free(p) : f <= g
        /\ files' = [files EXCEPT ![p][f] = path]
        /\ Logs(OpenatLine(f, path))
        /\ UNCHANGED reached

Close(p, f) ==
    /\ files[p][f] # None
    /\ files' = [files EXCEPT ![p][f] = None]
    /\ Logs(CloseLine(f))
    /\ UNCHANGED reached

Ioctl(p, f, c) ==
    /\ files[p][f] # None
    /\ Logs(IoctlLine(f, c))
    /\ reached' = IF Last(log').call = "ioctl" THEN Append(reached, files[p][f]) ELSE reached
    /\ UNCHANGED files

(* fork is not in the log; the child has copies of the open fds.           *)
Fork(p, q) ==
    /\ q \notin Live
    /\ files' = [files EXCEPT ![q] = files[p]]
    /\ UNCHANGED <<log, reached>>

Traced ==
    \E p \in Live :
        \/ \E path \in Device \cup {OtherFile} : Openat(p, path)
        \/ \E f \in Fd : Close(p, f) \/ \E c \in Code : Ioctl(p, f, c)
        \/ \E q \in Process : Fork(p, q)
-----------------------------------------------------------------------------
(* Only opens of device paths match OPENAT; strip_pid has taken the        *)
(* process away.                                                           *)
OpenatSeen(st, line) ==
    IF line.path \in Device
    THEN [st EXCEPT !.fd_map[line.fd] = line.path, !.fd_snap[line.fd] = line.path]
    ELSE st

(* Mutant: the map is built once, from the last device of each fd.         *)
CloseIgnored(st, line) == st

CloseSeen(st, line) == [st EXCEPT !.fd_map[line.fd] = None]

IoctlSeen(st, line) ==
    LET device == st.fd_map[line.fd]
    IN [st EXCEPT !.ioctls = Append(@,
          [device |-> IF device = None THEN "unknown" ELSE device,
           request_code |-> line.code, is_new |-> FALSE])]

ParseLine(st, line) ==
    IF line.call = "openat" THEN OpenatSeen(st, line)
    ELSE IF line.call = "close" THEN CloseSeen(st, line)
    ELSE IF line.call = "ioctl" THEN IoctlSeen(st, line)
    ELSE st

NoFds == [f \in Fd |-> None]

(* One pass over the log.  fd_snap keeps the last device of each fd.       *)
parse_lines(lines) ==
    FoldLeft(ParseLine, [fd_map |-> NoFds, fd_snap |-> NoFds, ioctls |-> <<>>], lines)
-----------------------------------------------------------------------------
TracedTypeOK ==
    /\ files \in [Process -> Files] /\ log \in Seq(Line)
    /\ reached \in Seq(Device \cup {OtherFile})

DeviceOf(path) == IF path \in Device THEN path ELSE "unknown"

Labels == parse_lines(log).ioctls

(* The log tells of every open and close of the one process it is about.   *)
LogComplete ==
    /\ Cardinality(Live) <= 1
    /\ \A i \in DOMAIN log :
         log[i].call = "unfinished" => log[i].of \notin {"openat", "close"}

(* Then every ioctl that is recorded is labelled with the device that its  *)
(* fd named when it was made, however fds were reused.                     *)
LabelsAreRight ==
    LogComplete => \A i \in DOMAIN Labels : Labels[i].device = DeviceOf(reached[i])

(* parse_trace.py:5-7 and 9-11: with -f too, "FD reuse after a close()     *)
(* cannot mislabel an ioctl with the wrong device".                        *)
NeverWrongDevice ==
    \A i \in DOMAIN Labels : Labels[i].device \in {DeviceOf(reached[i]), "unknown"}
=============================================================================
