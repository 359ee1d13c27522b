------------------------------ MODULE ReplayC -------------------------------
(***************************************************************************)
(* replay/replay.c: the replayer in C.  It reads the same traces as        *)
(* replay.py one line at a time, passes over what it cannot parse, ignores *)
(* close records, and keeps its fds, handles and schemas in tables of      *)
(* fixed size.  State, driver and translation operators are Replay's; the  *)
(* hash table behind handleMap is module HandleTable.                      *)
(***************************************************************************)
EXTENDS Replay

CONSTANTS
    MappedFd,        \* the captured fds below MAX_FD_MAP
    HandleCapacity,  \* HM_CAPACITY
    SchemaFile,      \* the requests of handle_offsets.json, in order
    HexNamed,        \* those whose "name" is a "0x..." string too
    MaxSchemas,      \* MAX_SCHEMAS
    MaxHandleOffs    \* MAX_HANDLE_OFFS

ASSUME MappedAssumption == MappedFd \subseteq Fd
ASSUME CapacityAssumption ==
    HandleCapacity \in Nat /\ MaxSchemas \in Nat /\ MaxHandleOffs \in Nat
(* handle_offsets.json lists a request's offsets in increasing order.      *)
ASSUME OffsetAssumption == Offset \subseteq Nat
ASSUME SchemaFileAssumption ==
    /\ SchemaFile \in Seq(Req) /\ HexNamed \subseteq Req
    /\ {SchemaFile[k] : k \in DOMAIN SchemaFile} = DOMAIN Schema

(* load_schemas takes every string that starts with 0x for an entry: a     *)
(* hexadecimal name is entered a second time, after its own key.           *)
EntrySlot(k) == k + Cardinality({j \in 1..(k - 1) : SchemaFile[j] \in HexNamed})
Loaded == {SchemaFile[k] : k \in {j \in DOMAIN SchemaFile : EntrySlot(j) <= MaxSchemas}}

(* Of a request's handle offsets, and of its fd offsets, the first         *)
(* MaxHandleOffs are kept and the rest is dropped without a word.          *)
Kept(S) == {o \in S : Cardinality({q \in S : q < o}) < MaxHandleOffs}
find_schema(r) ==
    IF r \in Loaded
    THEN [in |-> Kept(Schema[r].in), fds |-> Kept(Schema[r].fds), out |-> Schema[r].out]
    ELSE EmptySchema

(* A captured fd beyond the table is neither stored nor found.             *)
fd_map(f) == IF f \in MappedFd THEN fdMap[f] ELSE None
PatchEmbedded(buf, s) ==
    [o \in DOMAIN buf |->
       IF o \in s.fds /\ buf[o] \in Fd /\ fd_map(buf[o]) # None
       THEN fd_map(buf[o]) ELSE buf[o]]
work == PatchEmbedded(PatchInput(event.before, find_schema(event.req)),
                      find_schema(event.req))

Stored == {h \in Handle : handleMap[h] # None}

(* hm_put refuses a new key when the table is full.                        *)
hm_put(key, val) ==
    IF key \in Stored \/ Cardinality(Stored) < HandleCapacity
    THEN [handleMap EXCEPT ![key] = val] ELSE handleMap

(* Mutant: a full table refuses a known key too.                           *)
LearnUntilFull(captured, live, s) ==
    LET key == OutputOf(captured, s)
        val == OutputOf(live, s)
    IN IF key \in Handle /\ val \in Handle /\ Cardinality(Stored) < HandleCapacity
       THEN [handleMap EXCEPT ![key] = val] ELSE handleMap

Learn(captured, live, s) ==
    LET key == OutputOf(captured, s)
        val == OutputOf(live, s)
    IN IF key \in Handle /\ val \in Handle THEN hm_put(key, val) ELSE handleMap
-----------------------------------------------------------------------------
CLoad ==
    /\ phase = "load"
    /\ phase' = "replay"
    /\ UNCHANGED <<torn, trace, meant, capFile, capObj, replayVars>>

(* Mutant: the fd is stored under the live fd's own number.                *)
COpenUnderLiveFd ==
    /\ AtRecord
    /\ IsOpen(event)
    /\ \E f \in Fd :
         /\ liveFile[f] = 0
         /\ liveFile' = [liveFile EXCEPT ![f] = pos]
         /\ fdMap' = IF f \in MappedFd THEN [fdMap EXCEPT ![f] = f] ELSE fdMap
    /\ Replayed(FileEffect(pos))
    /\ UNCHANGED <<handleMap, countVars, liveObj>>

COpen ==
    /\ AtRecord
    /\ IsOpen(event)
    /\ \E f \in Fd :
         /\ liveFile[f] = 0
         /\ liveFile' = [liveFile EXCEPT ![f] = pos]
         /\ fdMap' = IF event.ret \in MappedFd THEN [fdMap EXCEPT ![event.ret] = f]
                                               ELSE fdMap
    /\ Replayed(FileEffect(pos))
    /\ UNCHANGED <<handleMap, countVars, liveObj>>

(* Any error: reported, and the loop goes on with the table as it was.     *)
COpenError == ReplayOpenError

(* A record of another type is passed over.                                *)
CIgnoreClose ==
    /\ AtRecord
    /\ event.type = "close"
    /\ Replayed(Failure)
    /\ UNCHANGED <<mapVars, countVars, liveVars>>

CSkip ==
    /\ AtRecord
    /\ IsIoctl(event) /\ fd_map(event.fd) = None
    /\ total' = total + 1
    /\ skipped' = skipped + 1
    /\ Replayed(Failure)
    /\ UNCHANGED <<ok, failed, mapVars, liveVars>>

CIoctl ==
    /\ AtRecord
    /\ IsIoctl(event) /\ fd_map(event.fd) # None
    /\ LET f == fd_map(event.fd)
       IN /\ Accepts(liveFile, liveObj, f, event.req, work)
          /\ \E result \in Results(liveObj, event.req, work) :
                /\ liveObj' = ObjectsAfter(liveObj, event.req, work, result, pos)
                /\ handleMap' = Learn(event.after, result, find_schema(event.req))
          /\ Replayed(Effect(liveFile, liveObj, f, event.req, work, TRUE))
    /\ total' = total + 1
    /\ ok' = ok + 1
    /\ UNCHANGED <<fdMap, failed, skipped, liveFile>>

(* The output handle is looked for after a failed call too: the driver has *)
(* left the argument as it was.                                            *)
CIoctlFails ==
    /\ AtRecord
    /\ IsIoctl(event) /\ fd_map(event.fd) # None
    /\ handleMap' = Learn(event.after, work, find_schema(event.req))
    /\ Replayed(Effect(liveFile, liveObj, fd_map(event.fd), event.req, work, FALSE))
    /\ total' = total + 1
    /\ failed' = failed + 1
    /\ UNCHANGED <<fdMap, ok, skipped, liveVars>>

(* A torn last line: passed over, skipped, failed for its before buffer,   *)
(* or issued with what there is of it.  Nothing is replayed after it.      *)
CTornLine ==
    /\ phase = "replay" /\ pos > Len(trace) /\ torn
    /\ torn' = FALSE
    /\ \/ UNCHANGED countVars
       \/ total' = total + 1 /\ ok' = ok + 1 /\ UNCHANGED <<failed, skipped>>
       \/ total' = total + 1 /\ failed' = failed + 1 /\ UNCHANGED <<ok, skipped>>
       \/ total' = total + 1 /\ skipped' = skipped + 1 /\ UNCHANGED <<ok, failed>>
    /\ UNCHANGED <<phase, trace, meant, capFile, capObj, pos, mapVars, exitCode,
                   liveVars, reached>>

CFinish == ~torn /\ Finish

CStep ==
    \/ CLoad \/ ReplayFailedOpen \/ COpen \/ COpenError \/ CIgnoreClose
    \/ CSkip \/ CIoctl \/ CIoctlFails \/ CTornLine \/ CFinish

CNext == Capture \/ CStep \/ Terminated

CSpec == Init /\ [][CNext]_vars
-----------------------------------------------------------------------------
(* The tables are large enough for the ioctls up to record i: they have    *)
(* the schemas, the offsets the requests use and the fds, and each         *)
(* captured handle an ioctl names was among the first HandleCapacity of    *)
(* them.                                                                   *)
OutputsBy(k) ==
    {OutputOf(trace[j].after, SchemaOf(trace[j].req)) :
       j \in {n \in 1..k : IsIoctl(trace[n])}} \ {None}
Fits(h, i) == \E k \in 1..(i - 1) :
    h \in OutputsBy(k) /\ Cardinality(OutputsBy(k)) <= HandleCapacity
TablesSuffice(i) ==
    \A k \in {n \in 1..i : IsIoctl(trace[n])} :
        LET use == Layout[trace[k].req]
            listed == SchemaOf(trace[k].req)
        IN /\ trace[k].req \in DOMAIN Schema => trace[k].req \in Loaded
           /\ use.in \subseteq Kept(listed.in) /\ use.fds \subseteq Kept(listed.fds)
           /\ {trace[k].fd} \cup {trace[k].before[o] : o \in use.fds} \subseteq MappedFd
           /\ \A o \in use.in : trace[k].before[o] # None => Fits(trace[k].before[o], k)

(* As CounterpartUntilDivergence, for the ioctls: it needs neither the     *)
(* closes the C replayer ignores nor more room than the handles in use     *)
(* take.                                                                   *)
SameIoctlOutcomes(i) ==
    \A k \in 1..(i - 1) : trace[k].type # "close" => reached[k].ok = meant[k].ok
IoctlsReachCounterparts ==
    \A i \in 1..Len(reached) :
        IsIoctl(trace[i]) /\ SameIoctlOutcomes(i) /\ TablesSuffice(i) =>
            /\ reached[i].file = meant[i].file
            /\ reached[i].ref = meant[i].ref

(* replay.c:406, of an open that fails in the replay: "downstream ioctls   *)
(* on this fd will fail too".                                              *)
LatestOpen(i) ==
    {j \in 1..(i - 1) :
        /\ IsOpen(trace[j]) /\ trace[j].ret = trace[i].fd
        /\ \A k \in (j + 1)..(i - 1) : IsOpen(trace[k]) => trace[k].ret # trace[i].fd}
DownstreamIoctlsFail ==
    \A i \in 1..Len(reached) : IsIoctl(trace[i]) =>
        \A j \in LatestOpen(i) : ~reached[j].ok => ~reached[i].ok
=============================================================================
