------------------------------- MODULE Replay -------------------------------
(***************************************************************************)
(* replay/replay.py with replay/handle_map.py: the replayer reads the      *)
(* trace of TraceCapture and reissues its calls, in order, against a live  *)
(* driver that chooses its own fds and its own handles.  FdMap and         *)
(* HandleMap translate the captured numbers into the live ones.            *)
(***************************************************************************)
EXTENDS TraceCapture, FiniteSets

CONSTANT Schema   \* handle_offsets.json: request -> [in, fds, out]

SchemaType == [in : SUBSET Offset, fds : SUBSET Offset, out : Offset \cup {None}]

ASSUME SchemaAssumption ==
    /\ DOMAIN Schema \subseteq Req
    /\ \A r \in DOMAIN Schema : Schema[r] \in SchemaType

VARIABLES
    pos,        \* the record the loop looks at next
    fdMap,      \* FdMap._map: captured fd -> live fd, or None
    handleMap,  \* HandleMap._map: captured handle -> live handle, or None
    total, ok, failed, skipped,
    exitCode,   \* meaningful once phase = "exited"
    liveFile,   \* the live process's open files, as capFile
    liveObj,    \* the live driver's objects, as capObj
    reached     \* beside each record replayed so far, what it reached

liveVars   == <<liveFile, liveObj>>
mapVars    == <<fdMap, handleMap>>
countVars  == <<total, ok, failed, skipped>>
replayVars == <<pos, fdMap, handleMap, total, ok, failed, skipped, exitCode,
                liveFile, liveObj, reached>>
vars       == <<capVars, replayVars>>
-----------------------------------------------------------------------------
EmptySchema == [in |-> {}, fds |-> {}, out |-> None]
SchemaOf(r) == IF r \in DOMAIN Schema THEN Schema[r] ELSE EmptySchema

(* Offsets beyond the captured buffer are skipped, and so are zero         *)
(* handles; a handle or an fd that was never learned is left as it is.     *)
PatchInput(buf, s) ==
    [o \in DOMAIN buf |->
       IF o \in s.in /\ buf[o] \in Handle /\ handleMap[buf[o]] # None
       THEN handleMap[buf[o]] ELSE buf[o]]

PatchFds(buf, s) ==
    [o \in DOMAIN buf |->
       IF o \in s.fds /\ buf[o] \in Fd /\ fdMap[buf[o]] # None
       THEN fdMap[buf[o]] ELSE buf[o]]

Patched(rec) == PatchFds(PatchInput(rec.before, SchemaOf(rec.req)), SchemaOf(rec.req))

OutputOf(buf, s) == IF s.out \in DOMAIN buf THEN buf[s.out] ELSE None

(* Mutant: the first mapping of a captured handle is kept.                 *)
LearnOutputFirstWins(captured, live, s) ==
    IF OutputOf(captured, s) \in Handle /\ OutputOf(live, s) \in Handle
    THEN [handleMap EXCEPT ![OutputOf(captured, s)] =
            IF @ = None THEN OutputOf(live, s) ELSE @]
    ELSE handleMap

(* The latest mapping of a captured handle wins.                           *)
LearnOutput(captured, live, s) ==
    IF OutputOf(captured, s) \in Handle /\ OutputOf(live, s) \in Handle
    THEN [handleMap EXCEPT ![OutputOf(captured, s)] = OutputOf(live, s)]
    ELSE handleMap
-----------------------------------------------------------------------------
Init ==
    /\ CaptureInit
    /\ pos = 1
    /\ fdMap = [f \in Fd |-> None]
    /\ handleMap = [h \in Handle |-> None]
    /\ total = 0 /\ ok = 0 /\ failed = 0 /\ skipped = 0
    /\ exitCode = 0
    /\ liveFile = [f \in Fd |-> 0]
    /\ liveObj = [h \in Handle |-> 0]
    /\ reached = <<>>

Capture == CaptureNext /\ UNCHANGED replayVars

Exit(code) == phase' = "exited" /\ exitCode' = code

(* load_jsonl reads the whole file first: one bad line ends the program    *)
(* before any call is made.                                                *)
Load ==
    /\ phase = "load"
    /\ IF torn THEN Exit(1) ELSE phase' = "replay" /\ UNCHANGED exitCode
    /\ UNCHANGED <<torn, trace, meant, capFile, capObj, pos, mapVars, countVars,
                   liveVars, reached>>

event == trace[pos]
AtRecord == phase = "replay" /\ pos <= Len(trace)

Replayed(effect) ==
    /\ pos' = pos + 1
    /\ reached' = Append(reached, effect)
    /\ UNCHANGED <<capVars, exitCode>>

(* A captured open that failed is attempted; an fd it yields is closed at  *)
(* once.                                                                   *)
ReplayFailedOpen ==
    /\ AtRecord
    /\ event.type = "open" /\ event.ret = None
    /\ Replayed(Nothing)
    /\ UNCHANGED <<mapVars, countVars, liveVars>>

(* Mutant: FdMap keeps the first live fd of a captured fd.                 *)
ReplayOpenFirstWins ==
    /\ AtRecord
    /\ IsOpen(event)
    /\ \E f \in Fd :
         /\ liveFile[f] = 0
         /\ liveFile' = [liveFile EXCEPT ![f] = pos]
         /\ fdMap' = [fdMap EXCEPT ![event.ret] = IF @ = None THEN f ELSE @]
    /\ Replayed(FileEffect(pos))
    /\ UNCHANGED <<handleMap, countVars, liveObj>>

ReplayOpen ==
    /\ AtRecord
    /\ IsOpen(event)
    /\ \E f \in Fd :
         /\ liveFile[f] = 0
         /\ liveFile' = [liveFile EXCEPT ![f] = pos]
         /\ fdMap' = [fdMap EXCEPT ![event.ret] = f]
    /\ Replayed(FileEffect(pos))
    /\ UNCHANGED <<handleMap, countVars, liveObj>>

(* Any OSError but EPERM/EACCES: reported, and the loop goes on with the   *)
(* fd map as it was.                                                       *)
ReplayOpenError ==
    /\ AtRecord
    /\ IsOpen(event)
    /\ Replayed(Failure)
    /\ UNCHANGED <<mapVars, countVars, liveVars>>

ReplayOpenDenied ==
    /\ AtRecord
    /\ IsOpen(event)
    /\ Exit(1)
    /\ UNCHANGED <<torn, trace, meant, capFile, capObj, pos, mapVars, countVars,
                   liveVars, reached>>

(* The live fd is closed if there is one; its entry in the map remains.    *)
ReplayClose ==
    /\ AtRecord
    /\ event.type = "close"
    /\ LET f == fdMap[event.fd]
       IN IF f # None /\ liveFile[f] # 0
          THEN /\ liveFile' = [liveFile EXCEPT ![f] = 0]
               /\ liveObj' = ObjectsOutliving(liveObj, reached, liveFile[f])
               /\ Replayed(FileEffect(liveFile[f]))
          ELSE Replayed(Failure) /\ UNCHANGED liveVars
    /\ UNCHANGED <<mapVars, countVars>>

(* Mutant: a skipped record is left out of the total.                      *)
ReplaySkipUncounted ==
    /\ AtRecord
    /\ IsIoctl(event) /\ fdMap[event.fd] = None
    /\ skipped' = skipped + 1
    /\ Replayed(Failure)
    /\ UNCHANGED <<total, ok, failed, mapVars, liveVars>>

ReplaySkip ==
    /\ AtRecord
    /\ IsIoctl(event) /\ fdMap[event.fd] = None
    /\ total' = total + 1
    /\ skipped' = skipped + 1
    /\ Replayed(Failure)
    /\ UNCHANGED <<ok, failed, mapVars, liveVars>>

ReplayIoctl ==
    /\ AtRecord
    /\ IsIoctl(event) /\ fdMap[event.fd] # None
    /\ LET f   == fdMap[event.fd]
           buf == Patched(event)
       IN /\ Accepts(liveFile, liveObj, f, event.req, buf)
          /\ \E result \in Results(liveObj, event.req, buf) :
                /\ liveObj' = ObjectsAfter(liveObj, event.req, buf, result, pos)
                /\ handleMap' = LearnOutput(event.after, result, SchemaOf(event.req))
          /\ Replayed(Effect(liveFile, liveObj, f, event.req, buf, TRUE))
    /\ total' = total + 1
    /\ ok' = ok + 1
    /\ UNCHANGED <<fdMap, failed, skipped, liveFile>>

(* The live driver may refuse any call.  Nothing is learned.               *)
ReplayIoctlFails ==
    /\ AtRecord
    /\ IsIoctl(event) /\ fdMap[event.fd] # None
    /\ Replayed(Effect(liveFile, liveObj, fdMap[event.fd], event.req, Patched(event), FALSE))
    /\ total' = total + 1
    /\ failed' = failed + 1
    /\ UNCHANGED <<ok, skipped, mapVars, liveVars>>

(* Mutants: the exit code is the number of failed ioctls, as replay()      *)
(* returns it; the exit code looks at the successes.                       *)
FinishWithCount ==
    /\ phase = "replay" /\ pos > Len(trace)
    /\ Exit(failed)
    /\ UNCHANGED <<torn, trace, meant, capFile, capObj, pos, mapVars, countVars,
                   liveVars, reached>>

FinishIfAnyOk ==
    /\ phase = "replay" /\ pos > Len(trace)
    /\ Exit(IF ok > 0 THEN 0 ELSE 1)
    /\ UNCHANGED <<torn, trace, meant, capFile, capObj, pos, mapVars, countVars,
                   liveVars, reached>>

Finish ==
    /\ phase = "replay" /\ pos > Len(trace)
    /\ Exit(IF failed = 0 THEN 0 ELSE 1)
    /\ UNCHANGED <<torn, trace, meant, capFile, capObj, pos, mapVars, countVars,
                   liveVars, reached>>

ReplayStep ==
    \/ Load
    \/ ReplayFailedOpen \/ ReplayOpen \/ ReplayOpenError \/ ReplayOpenDenied
    \/ ReplayClose
    \/ ReplaySkip \/ ReplayIoctl \/ ReplayIoctlFails
    \/ Finish

Terminated == phase = "exited" /\ UNCHANGED vars

Next == Capture \/ ReplayStep \/ Terminated

Spec == Init /\ [][Next]_vars
-----------------------------------------------------------------------------
TypeOK ==
    /\ phase \in {"capture", "load", "replay", "exited"}
    /\ torn \in BOOLEAN
    /\ trace \in Seq(Record)
    /\ meant \in Seq(Effects) /\ Len(meant) = Len(trace)
    /\ capFile \in [Fd -> 0..Len(trace)]
    /\ capObj \in [Handle -> 0..Len(trace)]
    /\ pos \in 1..Len(trace) + 1
    /\ fdMap \in [Fd -> Fd \cup {None}]
    /\ handleMap \in [Handle -> Handle \cup {None}]
    /\ total \in Nat /\ ok \in Nat /\ failed \in Nat /\ skipped \in Nat
    /\ exitCode \in {0, 1}
    /\ liveFile \in [Fd -> 0..Len(reached)]
    /\ liveObj \in [Handle -> 0..Len(reached)]
    /\ reached \in Seq(Effects) /\ Len(reached) = pos - 1

(* The offsets of handle_offsets.json are the ones the driver uses.        *)
SchemaComplete ==
    \A r \in Req : /\ SchemaOf(r).in \cap Layout[r].ext = Layout[r].in
                   /\ SchemaOf(r).fds \cap Layout[r].ext = Layout[r].fds
                   /\ (IF SchemaOf(r).out \in Layout[r].ext THEN SchemaOf(r).out ELSE None)
                        = Layout[r].out

(* Every open and ioctl before record i came out as it did in the capture. *)
SameOutcomes(i) == \A k \in 1..(i - 1) : reached[k].ok = meant[k].ok

(* With a complete schema, every ioctl and close is reissued on the live   *)
(* counterpart of its captured file and names the live counterparts of its *)
(* captured objects and files, until the first call whose outcome differs  *)
(* from the captured one.  It holds although fds and handles are reused in *)
(* the capture and the replayer may never hear of a close.                 *)
CounterpartUntilDivergence ==
    \A i \in 1..Len(reached) :
        trace[i].type \in {"ioctl", "close"} /\ SameOutcomes(i) =>
            /\ reached[i].file = meant[i].file
            /\ reached[i].ref = meant[i].ref

(* The numbers of the summary line: every ioctl record of the trace so far *)
(* is counted once, as what became of it.                                  *)
CountsAddUp ==
    LET Issued == {i \in 1..Len(reached) : IsIoctl(trace[i])}
    IN /\ total = Cardinality(Issued)
       /\ total = ok + failed + skipped
       /\ ok = Cardinality({i \in Issued : reached[i].ok})

(* What exit code 0 is worth: if nothing was skipped, no open failed and   *)
(* the capture itself had no failed call, the capture was complete to its  *)
(* last line and all of it was re-executed on its counterparts.            *)
CleanExitIsFaithful ==
    /\ phase = "exited" /\ exitCode = 0 /\ skipped = 0
    /\ \A i \in 1..Len(reached) : IsOpen(trace[i]) => reached[i].ok
    /\ \A i \in 1..Len(meant) : meant[i].ok
    => ~torn /\ reached = meant
=============================================================================
