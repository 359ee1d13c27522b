---------------------------- MODULE TraceCapture ----------------------------
(***************************************************************************)
(* The capture of one CUDA program: the program, the NVIDIA driver it      *)
(* talks to, and the records that the LD_PRELOAD interposer                *)
(* intercept/nv_sniff.c writes for its calls.  Here a call and its record  *)
(* are one step (a single-threaded program); module Sniffer splits them    *)
(* into the interposer's own steps and interleaves several threads.        *)
(*                                                                         *)
(* A record is what the replayers see.  Beside each record the model keeps *)
(* what the call MEANT: the open that created the file it was issued on,   *)
(* and the calls that created the objects its handles name.  A file and an *)
(* object are identified by the position in the trace of the record that   *)
(* created them; 0 stands for no file and no object.                       *)
(***************************************************************************)
EXTENDS Naturals, Sequences

CONSTANTS
    Fd,           \* file descriptor numbers
    Handle,       \* nonzero resource-manager handles
    None,         \* a zero handle field, a missing value, a negative fd
    Offset,       \* the word offsets of an ioctl argument
    Req,          \* ioctl request codes
    Layout,       \* what the driver really reads and writes, per request
    Frees,        \* the requests that destroy the objects they name
    CloseLogged,  \* whether the trace may hold close records
    MaxTrace      \* bound: records in a trace

(* One request's argument: the offsets inside it (ext), those that hold    *)
(* handles (in) and fd numbers (fds), the one where a new handle is        *)
(* returned (out).                                                         *)
LayoutType == [ext : SUBSET Offset, in : SUBSET Offset, fds : SUBSET Offset,
               out : Offset \cup {None}]

ASSUME ValueAssumption ==
    /\ Fd \cap Handle = {}
    /\ None \notin Fd \cup Handle \cup Offset
ASSUME LayoutAssumption ==
    /\ Layout \in [Req -> LayoutType]
    /\ \A r \in Req : /\ Layout[r].in \cup Layout[r].fds \subseteq Layout[r].ext
                      /\ Layout[r].in \cap Layout[r].fds = {}
                      /\ Layout[r].out \in
                           (Layout[r].ext \ (Layout[r].in \cup Layout[r].fds)) \cup {None}
ASSUME FreesAssumption == Frees \subseteq Req
ASSUME CloseLoggedAssumption == CloseLogged \in BOOLEAN
ASSUME MaxTraceAssumption == MaxTrace \in Nat

VARIABLES
    phase,    \* "capture", "load", "replay" or "exited"
    torn,     \* the program was killed in the middle of writing a record
    trace,    \* the JSONL file: a sequence of records
    meant,    \* beside each record, what its call meant
    capFile,  \* the program's open files: Fd -> creating record, or 0
    capObj    \* the driver's objects: Handle -> creating record, or 0

capVars == <<phase, torn, trace, meant, capFile, capObj>>
-----------------------------------------------------------------------------
Value == Handle \cup Fd \cup {None}

OpenRec  == [type : {"open"}, ret : Fd \cup {None}]
CloseRec == [type : {"close"}, fd : Fd]
IoctlRec == UNION {[type : {"ioctl"}, fd : Fd, req : {r},
                    before : [Layout[r].ext -> Value],
                    after : [Layout[r].ext -> Value], ok : BOOLEAN] : r \in Req}
Record   == OpenRec \cup CloseRec \cup IoctlRec

(* What a call reached: the file it opened, closed or was issued on, the   *)
(* file or object each field of its argument names, and whether it         *)
(* succeeded.                                                              *)
Effects == [ok : BOOLEAN, file : Nat, ref : [Offset -> Nat]]
FileEffect(i) == [ok |-> TRUE, file |-> i, ref |-> [o \in Offset |-> 0]]
Nothing == FileEffect(0)
Failure == [Nothing EXCEPT !.ok = FALSE]

IsOpen(rec)  == rec.type = "open" /\ rec.ret # None
IsIoctl(rec) == rec.type = "ioctl"
-----------------------------------------------------------------------------
(* The driver, external: the same rules for the captured and the replaying *)
(* process.                                                                *)

Referent(files, objs, r, buf, o) ==
    CASE o \in Layout[r].in /\ buf[o] \in Handle -> objs[buf[o]]
      [] o \in Layout[r].fds /\ buf[o] \in Fd    -> files[buf[o]]
      [] OTHER                                    -> 0

Effect(files, objs, f, r, buf, ok) ==
    [ok |-> ok, file |-> files[f],
     ref |-> [o \in Offset |-> Referent(files, objs, r, buf, o)]]

(* A call can only succeed on an open file, with handles of existing       *)
(* objects (or zero) and embedded fds of open files.                       *)
Accepts(files, objs, f, r, buf) ==
    /\ files[f] # 0
    /\ \A o \in Layout[r].in : buf[o] # None => Referent(files, objs, r, buf, o) # 0
    /\ \A o \in Layout[r].fds : Referent(files, objs, r, buf, o) # 0

Freed(r, buf) ==
    IF r \in Frees THEN {h \in Handle : \E o \in Layout[r].in : buf[o] = h} ELSE {}

(* The arguments a successful call may return: a new object gets a handle  *)
(* that names none.                                                        *)
Results(objs, r, buf) ==
    IF Layout[r].out = None THEN {buf}
    ELSE {[buf EXCEPT ![Layout[r].out] = h] : h \in {g \in Handle : objs[g] = 0}}

ObjectsAfter(objs, r, buf, result, i) ==
    [h \in Handle |->
       IF Layout[r].out # None /\ result[Layout[r].out] = h THEN i
       ELSE IF h \in Freed(r, buf) THEN 0 ELSE objs[h]]

(* Closing a file destroys the objects that were created through it.       *)
ObjectsOutliving(objs, history, file) ==
    [h \in Handle |-> IF objs[h] # 0 /\ history[objs[h]].file = file THEN 0 ELSE objs[h]]
-----------------------------------------------------------------------------
CaptureInit ==
    /\ phase = "capture"
    /\ torn = FALSE
    /\ trace = <<>>
    /\ meant = <<>>
    /\ capFile = [f \in Fd |-> 0]
    /\ capObj = [h \in Handle |-> 0]

Capturing == phase = "capture" /\ Len(trace) < MaxTrace

Logged(rec, effect) ==
    /\ trace' = Append(trace, rec)
    /\ meant' = Append(meant, effect)
    /\ UNCHANGED <<phase, torn>>

(* open() or openat() of a device file succeeds and is logged.  The path   *)
(* is the record's own: the record's position stands for it.               *)
CapOpen(f) ==
    /\ Capturing
    /\ capFile[f] = 0
    /\ capFile' = [capFile EXCEPT ![f] = Len(trace) + 1]
    /\ Logged([type |-> "open", ret |-> f],
              FileEffect(Len(trace) + 1))
    /\ UNCHANGED capObj

(* A failed open is logged with its negative errno.                        *)
CapOpenFails ==
    /\ Capturing
    /\ Logged([type |-> "open", ret |-> None], Nothing)
    /\ UNCHANGED <<capFile, capObj>>

(* The interposer forgets the fd and closes it; it writes no record.  The  *)
(* replayers also read traces in which some closes are records.            *)
CapClose(f) ==
    /\ phase = "capture"
    /\ capFile[f] # 0
    /\ capFile' = [capFile EXCEPT ![f] = 0]
    /\ capObj' = ObjectsOutliving(capObj, meant, capFile[f])
    /\ \/ CloseLogged /\ Capturing /\ Logged([type |-> "close", fd |-> f], FileEffect(capFile[f]))
       \/ UNCHANGED <<phase, torn, trace, meant>>

(* The program fills in an argument with what it holds: handles of objects *)
(* that exist, or zero, and its own open fds.                              *)
Arguments(r) ==
    {buf \in [Layout[r].ext -> Value] :
        \A o \in Layout[r].ext :
            IF o \in Layout[r].in THEN buf[o] \in {h \in Handle : capObj[h] # 0} \cup {None}
            ELSE IF o \in Layout[r].fds THEN buf[o] \in {f \in Fd : capFile[f] # 0}
            ELSE buf[o] = None}

CapIoctl(f, r) ==
    /\ Capturing
    /\ capFile[f] # 0
    /\ \E buf \in Arguments(r) :
         \E result \in Results(capObj, r, buf) :
            /\ Logged([type |-> "ioctl", fd |-> f, req |-> r,
                       before |-> buf, after |-> result, ok |-> TRUE],
                      Effect(capFile, capObj, f, r, buf, TRUE))
            /\ capObj' = ObjectsAfter(capObj, r, buf, result, Len(trace) + 1)
    /\ UNCHANGED capFile

(* The driver refuses a call: it is logged like any other, with ret -1.    *)
CapIoctlFails(f, r) ==
    /\ Capturing
    /\ capFile[f] # 0
    /\ \E buf \in Arguments(r) :
          Logged([type |-> "ioctl", fd |-> f, req |-> r,
                  before |-> buf, after |-> buf, ok |-> FALSE],
                 Effect(capFile, capObj, f, r, buf, FALSE))
    /\ UNCHANGED <<capFile, capObj>>

(* The program exits; or it is killed while a record is being written, and *)
(* leaves a last line that is not JSON.  Its files and objects go with it. *)
CapEnd ==
    /\ phase = "capture"
    /\ phase' = "load"
    /\ torn' \in BOOLEAN
    /\ capFile' = [f \in Fd |-> 0]
    /\ capObj' = [h \in Handle |-> 0]
    /\ UNCHANGED <<trace, meant>>

CaptureNext ==
    \/ \E f \in Fd : CapOpen(f) \/ CapClose(f)
    \/ CapOpenFails
    \/ \E f \in Fd, r \in Req : CapIoctl(f, r) \/ CapIoctlFails(f, r)
    \/ CapEnd
=============================================================================
