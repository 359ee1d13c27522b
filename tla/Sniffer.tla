------------------------------ MODULE Sniffer -------------------------------
(***************************************************************************)
(* intercept/nv_sniff.c, the LD_PRELOAD interposer, in a program with      *)
(* several threads: open, close and ioctl as the sequences of kernel calls *)
(* and lock-protected sections they are.  The kernel and the program are   *)
(* external.  The program uses and closes only fds that an open returned   *)
(* to it, closes them through the hooked close(), and closes none that a   *)
(* thread is using; a thread may call exit, which runs the destructor      *)
(* while the others go on, and the program may be killed at any time.      *)
(***************************************************************************)
EXTENDS Naturals, Sequences, SequencesExt

CONSTANTS
    Thread,
    NumFds,    \* the kernel's limit on open files
    MaxFds,    \* MAX_FDS: the interposer tracks the fds below
    Nvidia,    \* the paths that start with /dev/nvidia
    Other,     \* other paths
    None,
    MaxCalls   \* bound: calls the program makes

Fd == 0..(NumFds - 1)
Path == Nvidia \cup Other
CallId == 1..MaxCalls

ASSUME LimitAssumption == NumFds \in Nat /\ MaxFds \in Nat /\ MaxCalls \in Nat
ASSUME PathAssumption == Nvidia \cap Other = {} /\ None \notin Path \cup Thread \cup Fd

VARIABLES
    alive,        \* the program was not killed, and has not crashed or ended
    pc,           \* where each thread is in its call
    cur,          \* its call's locals: the call's number and the fd
    kernelFile,   \* the kernel's table: Fd -> the open call, or 0
    nv_fd_active, \* the interposer's tables, on the fds below MAX_FDS
    nv_fd_path,
    lock,         \* the thread that holds the mutex, or None
    log_fp,       \* "none": there is no log; "open"; "closed" by the destructor
    seq_counter,
    buffer,       \* records in log_fp's stdio buffer
    disk,         \* records in the log file
    held,         \* the fds the program may use
    calls,        \* history: what each call was and was issued on
    returned      \* history: the calls that returned

tables  == <<nv_fd_active, nv_fd_path>>
logVars == <<log_fp, seq_counter, buffer, disk>>
vars    == <<alive, pc, cur, kernelFile, tables, lock, logVars, held, calls, returned>>
-----------------------------------------------------------------------------
Tracked == {f \in Fd : f < MaxFds}
is_nvidia_path(p) == p \in Nvidia
fd_is_nvidia(f) == f \in Tracked /\ nv_fd_active[f]
fd_path(f) == IF f \in Tracked THEN nv_fd_path[f] ELSE None

(* A lock-protected section that is one step, and needs no lock when the   *)
(* fd is beyond the tables.                                                *)
MayTouch(f) == f \in Tracked => lock = None

NewCall(op, fd, path, file) ==
    calls' = Append(calls, [op |-> op, fd |-> fd, path |-> path, file |-> file,
                            after |-> returned])
ThisCall == Len(calls) + 1

Idle(t) == alive /\ pc[t] = "idle" /\ Len(calls) < MaxCalls
At(t, label) == alive /\ pc[t] = label
Goto(t, label) == pc' = [pc EXCEPT ![t] = label]
Begin(t, label, f) ==
    /\ Goto(t, label)
    /\ cur' = [cur EXCEPT ![t] = [call |-> ThisCall, fd |-> f]]

Init ==
    /\ alive = TRUE
    /\ pc = [t \in Thread |-> "idle"]
    /\ cur = [t \in Thread |-> [call |-> 0, fd |-> None]]
    /\ kernelFile = [f \in Fd |-> 0]
    /\ nv_fd_active = [f \in Tracked |-> FALSE]
    /\ nv_fd_path = [f \in Tracked |-> None]
    /\ lock = None
    /\ log_fp \in {"none", "open"}
    /\ seq_counter = 0 /\ buffer = <<>> /\ disk = <<>>
    /\ held = {}
    /\ calls = <<>>
    /\ returned = {}
-----------------------------------------------------------------------------
(* open and openat: the kernel picks a free fd.                            *)
RealOpen(t, p) ==
    /\ Idle(t) /\ is_nvidia_path(p)
    /\ \E f \in Fd :
         /\ kernelFile[f] = 0
         /\ kernelFile' = [kernelFile EXCEPT ![f] = ThisCall]
         /\ NewCall("open", f, p, ThisCall)
         /\ Begin(t, "track", f)
    /\ UNCHANGED <<alive, tables, lock, logVars, held, returned>>

(* A failed open is logged too, with its errno, and tracks nothing.        *)
RealOpenFails(t, p) ==
    /\ Idle(t) /\ is_nvidia_path(p)
    /\ NewCall("open", None, p, 0)
    /\ Begin(t, "log", None)
    /\ UNCHANGED <<alive, kernelFile, tables, lock, logVars, held, returned>>

(* Any other path passes through.                                          *)
OpenOther(t, p) ==
    /\ Idle(t) /\ ~is_nvidia_path(p)
    /\ \E f \in Fd :
         /\ kernelFile[f] = 0
         /\ kernelFile' = [kernelFile EXCEPT ![f] = ThisCall]
         /\ NewCall("open", f, p, ThisCall)
         /\ held' = held \cup {f}
    /\ returned' = returned \cup {ThisCall}
    /\ UNCHANGED <<alive, pc, cur, tables, lock, logVars>>

(* Mutant: the fd is handed out before the open is logged.                 *)
TrackAndReturn(t) ==
    LET f == cur[t].fd
    IN /\ At(t, "track")
       /\ MayTouch(f)
       /\ nv_fd_active' = [nv_fd_active EXCEPT ![f] = TRUE]
       /\ nv_fd_path' = [nv_fd_path EXCEPT ![f] = calls[cur[t].call].path]
       /\ Goto(t, "log")
       /\ held' = held \cup {f}
       /\ returned' = returned \cup {cur[t].call}
       /\ UNCHANGED <<alive, cur, kernelFile, lock, logVars, calls>>

track_fd(t) ==
    LET f == cur[t].fd
    IN /\ At(t, "track")
       /\ MayTouch(f)
       /\ IF f \in Tracked
          THEN /\ nv_fd_active' = [nv_fd_active EXCEPT ![f] = TRUE]
               /\ nv_fd_path' = [nv_fd_path EXCEPT ![f] = calls[cur[t].call].path]
          ELSE UNCHANGED tables
       /\ Goto(t, "log")
       /\ UNCHANGED <<alive, cur, kernelFile, lock, logVars, held, calls, returned>>
-----------------------------------------------------------------------------
(* close: the fd is evicted from the tables, then closed.                  *)
InCall(t) == pc[t] \notin {"idle", "exiting"}
NobodyUses(f) == \A t \in Thread : InCall(t) => cur[t].fd # f

(* Mutant: close is not hooked.                                            *)
UntrackNothing(t, f) ==
    /\ Idle(t) /\ f \in held /\ NobodyUses(f)
    /\ held' = held \ {f}
    /\ NewCall("close", f, None, kernelFile[f])
    /\ Begin(t, "close", f)
    /\ UNCHANGED <<alive, kernelFile, tables, lock, logVars, returned>>

untrack_fd(t, f) ==
    /\ Idle(t) /\ f \in held /\ NobodyUses(f)
    /\ MayTouch(f)
    /\ IF f \in Tracked
       THEN /\ nv_fd_active' = [nv_fd_active EXCEPT ![f] = FALSE]
            /\ nv_fd_path' = [nv_fd_path EXCEPT ![f] = None]
       ELSE UNCHANGED tables
    /\ held' = held \ {f}
    /\ NewCall("close", f, None, kernelFile[f])
    /\ Begin(t, "close", f)
    /\ UNCHANGED <<alive, kernelFile, lock, logVars, returned>>

RealClose(t) ==
    /\ At(t, "close")
    /\ kernelFile' = [kernelFile EXCEPT ![cur[t].fd] = 0]
    /\ Goto(t, "idle")
    /\ returned' = returned \cup {cur[t].call}
    /\ UNCHANGED <<alive, cur, tables, lock, logVars, held, calls>>
-----------------------------------------------------------------------------
(* ioctl on an fd the tables know: issued, then logged.                    *)
IoctlCheck(t, f) ==
    /\ Idle(t) /\ f \in held
    /\ log_fp = "open" /\ MayTouch(f) /\ fd_is_nvidia(f)
    /\ NewCall("ioctl", f, None, kernelFile[f])
    /\ Begin(t, "ioctl", f)
    /\ UNCHANGED <<alive, kernelFile, tables, lock, logVars, held, returned>>

(* On any other fd, or without a log, it passes through.                   *)
IoctlOther(t, f) ==
    /\ Idle(t) /\ f \in held
    /\ log_fp # "open" \/ (MayTouch(f) /\ ~fd_is_nvidia(f))
    /\ NewCall("ioctl", f, None, kernelFile[f])
    /\ returned' = returned \cup {ThisCall}
    /\ UNCHANGED <<alive, pc, cur, kernelFile, tables, lock, logVars, held>>

(* Without memory for the snapshots it is issued, and not logged.          *)
IoctlNoMemory(t, f) ==
    /\ Idle(t) /\ f \in held
    /\ log_fp = "open" /\ MayTouch(f) /\ fd_is_nvidia(f)
    /\ NewCall("unlogged", f, None, kernelFile[f])
    /\ returned' = returned \cup {ThisCall}
    /\ UNCHANGED <<alive, pc, cur, kernelFile, tables, lock, logVars, held>>

RealIoctl(t) ==
    /\ At(t, "ioctl")
    /\ Goto(t, "log")
    /\ UNCHANGED <<alive, cur, kernelFile, tables, lock, logVars, held, calls, returned>>
-----------------------------------------------------------------------------
(* The logging section of open and ioctl: number and write a record, flush *)
(* it, unlock, return.                                                     *)
Entry(t) ==
    LET c == calls[cur[t].call]
    IN [seq |-> seq_counter, call |-> cur[t].call, type |-> c.op, fd |-> c.fd,
        dev |-> IF c.op = "open" THEN c.path ELSE fd_path(c.fd)]

(* Mutant: an open record does not advance the number.                     *)
LogWriteSameSeq(t) ==
    /\ At(t, "log") /\ lock = None /\ log_fp = "open"
    /\ lock' = t
    /\ seq_counter' = seq_counter + IF Entry(t).type = "open" THEN 0 ELSE 1
    /\ buffer' = Append(buffer, Entry(t))
    /\ Goto(t, "flush")
    /\ UNCHANGED <<alive, cur, kernelFile, tables, log_fp, disk, held, calls, returned>>

LogWrite(t) ==
    /\ At(t, "log") /\ lock = None /\ log_fp = "open"
    /\ lock' = t
    /\ seq_counter' = seq_counter + 1
    /\ buffer' = Append(buffer, Entry(t))
    /\ Goto(t, "flush")
    /\ UNCHANGED <<alive, cur, kernelFile, tables, log_fp, disk, held, calls, returned>>

(* Mutants: the record stays in the buffer until the next one needs the    *)
(* room; the mutex is not released.                                        *)
LogFlushLater(t) ==
    /\ At(t, "flush") /\ lock = t
    /\ IF Len(buffer) > 1 THEN disk' = disk \o buffer /\ buffer' = <<>>
                          ELSE UNCHANGED <<disk, buffer>>
    /\ lock' = None
    /\ held' = held \cup ({cur[t].fd} \ {None})
    /\ returned' = returned \cup {cur[t].call}
    /\ Goto(t, "idle")
    /\ UNCHANGED <<alive, cur, kernelFile, tables, log_fp, seq_counter, calls>>

LogFlushKeepsLock(t) ==
    /\ At(t, "flush") /\ lock = t
    /\ disk' = disk \o buffer /\ buffer' = <<>>
    /\ held' = held \cup ({cur[t].fd} \ {None})
    /\ returned' = returned \cup {cur[t].call}
    /\ Goto(t, "idle")
    /\ UNCHANGED <<alive, cur, kernelFile, tables, lock, log_fp, seq_counter, calls>>

LogFlush(t) ==
    /\ At(t, "flush") /\ lock = t
    /\ disk' = disk \o buffer /\ buffer' = <<>>
    /\ lock' = None
    /\ held' = held \cup ({cur[t].fd} \ {None})
    /\ returned' = returned \cup {cur[t].call}
    /\ Goto(t, "idle")
    /\ UNCHANGED <<alive, cur, kernelFile, tables, log_fp, seq_counter, calls>>

(* Without a log, an open returns at once.                                 *)
LogOff(t) ==
    /\ At(t, "log") /\ log_fp # "open"
    /\ calls[cur[t].call].op = "open"
    /\ held' = held \cup ({cur[t].fd} \ {None})
    /\ returned' = returned \cup {cur[t].call}
    /\ Goto(t, "idle")
    /\ UNCHANGED <<alive, cur, kernelFile, tables, lock, logVars, calls>>

(* A thread calls exit: the destructor flushes and closes the log, without *)
(* the lock.                                                               *)
nv_sniff_fini(t) ==
    /\ At(t, "idle") /\ log_fp = "open"
    /\ log_fp' = "closed"
    /\ disk' = disk \o buffer /\ buffer' = <<>>
    /\ Goto(t, "exiting")
    /\ UNCHANGED <<alive, cur, kernelFile, tables, lock, seq_counter, held, calls, returned>>

(* Then the program ends; or another thread writes a record to the log     *)
(* that is no more, and the program crashes.                               *)
Ends(t) ==
    /\ \/ At(t, "exiting")
       \/ At(t, "log") /\ lock = None /\ log_fp = "closed"
    /\ alive' = FALSE
    /\ UNCHANGED <<pc, cur, kernelFile, tables, lock, logVars, held, calls, returned>>

(* A kill: what is in the buffer is lost.                                  *)
Kill ==
    /\ alive
    /\ alive' = FALSE
    /\ UNCHANGED <<pc, cur, kernelFile, tables, lock, logVars, held, calls, returned>>

Continue(t) ==
    \/ track_fd(t) \/ RealClose(t) \/ RealIoctl(t)
    \/ LogWrite(t) \/ LogFlush(t) \/ LogOff(t) \/ Ends(t)

Call(t) ==
    \/ \E p \in Path : RealOpen(t, p) \/ RealOpenFails(t, p) \/ OpenOther(t, p)
    \/ \E f \in held :
         untrack_fd(t, f) \/ IoctlCheck(t, f) \/ IoctlOther(t, f) \/ IoctlNoMemory(t, f)
    \/ nv_sniff_fini(t)

(* The program makes no more calls.                                        *)
Quiet ==
    /\ ~alive \/ (Len(calls) = MaxCalls /\ \A t \in Thread : pc[t] = "idle")
    /\ UNCHANGED vars

Next == (\E t \in Thread : Continue(t) \/ Call(t)) \/ Kill \/ Quiet

Spec == Init /\ [][Next]_vars

(* A thread inside a call goes on: the interposer blocks on nothing but    *)
(* the mutex, and real calls return.                                       *)
FairSpec == Spec /\ \A t \in Thread : WF_vars(Continue(t))
-----------------------------------------------------------------------------
OpensNvidia(c) == calls[c].op = "open" /\ calls[c].path \in Nvidia
OnNvidia(c) == calls[c].file # 0 /\ calls[calls[c].file].path \in Nvidia
MustBeLogged(c) ==
    OpensNvidia(c) \/ (calls[c].op = "ioctl" /\ OnNvidia(c) /\ calls[c].fd \in Tracked)

CallType == [op : {"open", "close", "ioctl", "unlogged"}, fd : Fd \cup {None},
             path : Path \cup {None}, file : Nat, after : SUBSET Nat]
Record == [seq : Nat, call : Nat, type : {"open", "ioctl"}, fd : Fd \cup {None},
           dev : Path \cup {None}]

TypeOK ==
    /\ calls \in Seq(CallType)
    /\ alive \in BOOLEAN
    /\ pc \in [Thread -> {"idle", "track", "log", "flush", "close", "ioctl", "exiting"}]
    /\ cur \in [Thread -> [call : 0..Len(calls), fd : Fd \cup {None}]]
    /\ kernelFile \in [Fd -> 0..Len(calls)]
    /\ nv_fd_active \in [Tracked -> BOOLEAN]
    /\ nv_fd_path \in [Tracked -> Nvidia \cup {None}]
    /\ lock \in Thread \cup {None} /\ log_fp \in {"none", "open", "closed"}
    /\ disk \in Seq(Record) /\ buffer \in Seq(Record)
    /\ seq_counter = Len(disk) + Len(buffer)
    /\ held \subseteq Fd
    /\ returned \subseteq DOMAIN calls

(* An fd the program holds is active exactly when its file is an NVIDIA    *)
(* device, with the path it was opened by: no reuse of an fd, by whatever  *)
(* thread, leaves a stale entry or wipes out a new one.                    *)
TablesMatchKernel ==
    \A f \in held \cap Tracked :
        LET opener == calls[kernelFile[f]]
        IN /\ nv_fd_active[f] <=> opener.path \in Nvidia
           /\ nv_fd_active[f] => nv_fd_path[f] = opener.path

(* Until the destructor runs, a call that returned has its one record on   *)
(* disk, whenever the program is killed; the destructor leaves none behind *)
(* in the buffer.                                                          *)
ReturnedCallsOnDisk ==
    /\ log_fp = "closed" => buffer = <<>>
    /\ log_fp = "open" => \A c \in returned : MustBeLogged(c) =>
         \E i \in DOMAIN disk :
             disk[i].call = c /\ \A j \in DOMAIN disk : disk[j].call = c => j = i

(* A call that started after another returned is logged after it.          *)
CausalOrder ==
    \A i, j \in DOMAIN disk : i < j => disk[j].call \notin calls[disk[i].call].after

(* A reader of the log that maps an fd to the latest open record with that *)
(* fd finds the file the ioctl was issued on, and the device it names.     *)
LogNamesFile ==
    \A i \in DOMAIN disk : disk[i].type = "ioctl" =>
        LET opens == {j \in 1..(i - 1) : disk[j].type = "open" /\ disk[j].fd = disk[i].fd}
        IN /\ opens # {}
           /\ disk[Max(opens)].call = calls[disk[i].call].file
           /\ disk[Max(opens)].dev = disk[i].dev

(* Every call returns unless the program ends or is killed.                *)
CallsReturn == \A t \in Thread : pc[t] # "idle" ~> pc[t] = "idle" \/ ~alive
-----------------------------------------------------------------------------
(* Why the tables match: at each moment an fd is free, in the hands of one *)
(* thread that opens or closes it, or held by the program.                 *)
OpOf(t) == calls[cur[t].call].op
Opening(t) ==
    pc[t] = "track" \/ (pc[t] \in {"log", "flush"} /\ OpOf(t) = "open" /\ cur[t].fd # None)
Owns(t) == Opening(t) \/ pc[t] = "close"

CallInv ==
    \A t \in Thread : InCall(t) =>
        /\ cur[t].call \in DOMAIN calls
        /\ pc[t] \in {"track", "close"} => cur[t].fd \in Fd
        /\ pc[t] = "track" => OpOf(t) = "open"
        /\ pc[t] = "close" => OpOf(t) = "close"
        /\ pc[t] = "ioctl" => OpOf(t) = "ioctl"
        /\ pc[t] \in {"log", "flush"} => OpOf(t) \in {"open", "ioctl"}
        /\ OpOf(t) = "ioctl" => cur[t].fd \in held

Owner(t) ==
    LET f == cur[t].fd
        path == calls[cur[t].call].path
    IN /\ f \notin held /\ kernelFile[f] # 0
       /\ Opening(t) => path \in Nvidia /\ kernelFile[f] = cur[t].call
       /\ f \in Tracked /\ pc[t] = "close" => ~nv_fd_active[f]
       /\ f \in Tracked /\ pc[t] \in {"log", "flush"}
            => nv_fd_active[f] /\ nv_fd_path[f] = path
       /\ \A u \in Thread : Owns(u) /\ cur[u].fd = f => u = t
OwnerInv == \A t \in Thread : Owns(t) => Owner(t)

FreeInv ==
    \A f \in Fd :
        IF kernelFile[f] = 0 THEN f \notin held /\ (f \in Tracked => ~nv_fd_active[f])
                             ELSE calls[kernelFile[f]].path \in Path

SnifferInv == TypeOK /\ CallInv /\ OwnerInv /\ FreeInv /\ TablesMatchKernel
-----------------------------------------------------------------------------
(* Why the log is right.  Every record written so far, on disk or not.     *)
Log == disk \o buffer

(* A call in progress has not returned, belongs to one thread, and an      *)
(* ioctl's file stays the one its fd was open on.                          *)
HistoryInv ==
    /\ \A c \in DOMAIN calls :
         calls[c].after \subseteq returned /\ calls[c].file \in 0..Len(calls)
    /\ \A t \in Thread : InCall(t) =>
         /\ cur[t].call \notin returned
         /\ calls[cur[t].call].fd = cur[t].fd
         /\ \A u \in Thread : InCall(u) /\ cur[u].call = cur[t].call => u = t
         /\ OpOf(t) = "ioctl" =>
              /\ calls[cur[t].call].file = kernelFile[cur[t].fd]
              /\ cur[t].fd \in Tracked /\ OnNvidia(cur[t].call)

(* The mutex is held for the flush of one record.                          *)
BufferInv ==
    /\ \A t \in Thread : lock = t <=> pc[t] = "flush"
    /\ IF log_fp = "open" /\ lock # None
       THEN Len(buffer) = 1 /\ buffer[1].call = cur[lock].call
       ELSE buffer = <<>>

(* A call is recorded before it returns, once, and after those before it.  *)
Recorded(c) == \E i \in DOMAIN Log : Log[i].call = c
RecordsInv ==
    /\ \A i \in DOMAIN Log :
         /\ Log[i].call \in DOMAIN calls
         /\ \/ Log[i].call \in returned
            \/ \E t \in Thread : pc[t] = "flush" /\ Log[i].call = cur[t].call
         /\ \A j \in DOMAIN Log : i # j => Log[i].call # Log[j].call
         /\ \A j \in DOMAIN Log : i < j => Log[j].call \notin calls[Log[i].call].after
    /\ log_fp = "open" => \A c \in returned : MustBeLogged(c) => Recorded(c)

(* Among the first n records, the latest that opens f is of this file.     *)
Opens(i, f) == Log[i].type = "open" /\ Log[i].fd = f
LatestOpen(f, n, file, dev) ==
    \E k \in 1..n :
        /\ Opens(k, f) /\ Log[k].call = file /\ Log[k].dev = dev
        /\ \A j \in (k + 1)..n : ~Opens(j, f)
Flushing(f) == \E t \in Thread : pc[t] = "flush" /\ Opening(t) /\ cur[t].fd = f

NamesInv ==
    /\ \A i \in DOMAIN Log : Log[i].type = "ioctl" =>
         LatestOpen(Log[i].fd, i - 1, calls[Log[i].call].file, Log[i].dev)
    /\ log_fp = "open" => \A f \in Fd :
         (f \in held \/ Flushing(f)) /\ calls[kernelFile[f]].path \in Nvidia
         => LatestOpen(f, Len(Log), kernelFile[f], calls[kernelFile[f]].path)

LogInv == HistoryInv /\ BufferInv /\ RecordsInv /\ NamesInv
=============================================================================
