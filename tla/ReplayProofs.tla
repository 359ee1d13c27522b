---------------------------- MODULE ReplayProofs ----------------------------
(***************************************************************************)
(* What a replay by replay.py is worth, for every set of fds, handles,     *)
(* offsets and requests, every driver layout and traces of every length.   *)
(* The types hold.  Every replayed call reaches the live counterpart of    *)
(* what the captured call reached, until the first call whose outcome      *)
(* differs: IInv of ReplayInv is inductive when the schema is complete.    *)
(* The counts of the summary line add up, and a clean exit means that all  *)
(* of a whole capture was re-executed on its counterparts.                 *)
(* Then the same of replay.c, for every schema file and every size of its  *)
(* tables: CInv of ReplayCInv is inductive when the schema is complete.    *)
(***************************************************************************)
EXTENDS ReplayCInv, FiniteSetTheorems, TLAPS

(* The capture's half of TypeOK and the replayer's.                        *)
CapTypeOK ==
    /\ phase \in {"capture", "load", "replay", "exited"}
    /\ torn \in BOOLEAN
    /\ trace \in Seq(Record)
    /\ meant \in Seq(Effects) /\ Len(meant) = Len(trace)
    /\ capFile \in [Fd -> 0..Len(trace)]
    /\ capObj \in [Handle -> 0..Len(trace)]

ReplayTypeOK ==
    /\ pos \in 1..Len(trace) + 1
    /\ fdMap \in [Fd -> Fd \cup {None}]
    /\ handleMap \in [Handle -> Handle \cup {None}]
    /\ total \in Nat /\ ok \in Nat /\ failed \in Nat /\ skipped \in Nat
    /\ exitCode \in {0, 1}
    /\ liveFile \in [Fd -> 0..Len(reached)]
    /\ liveObj \in [Handle -> 0..Len(reached)]
    /\ reached \in Seq(Effects) /\ Len(reached) = pos - 1

LEMMA TypeOKSplit ==
    /\ TypeOK <=> CapTypeOK /\ ReplayTypeOK
    /\ TypeOK' <=> CapTypeOK' /\ ReplayTypeOK'
BY DEF TypeOK, CapTypeOK, ReplayTypeOK

-----------------------------------------------------------------------------
(* The driver's operators keep their types.                                *)

(* A file effect, and so Nothing and Failure, is an effect.                *)
LEMMA FileEffectType ==
    /\ \A i \in Nat : FileEffect(i) \in Effects
    /\ Nothing \in Effects
    /\ Failure \in Effects
BY DEF FileEffect, Nothing, Failure, Effects

(* What a call on a typed buffer reaches is an effect.                     *)
LEMMA EffectType ==
    ASSUME NEW n \in Nat, NEW files \in [Fd -> 0..n], NEW objs \in [Handle -> 0..n],
           NEW f \in Fd, NEW r \in Req, NEW buf, NEW b \in BOOLEAN
    PROVE  Effect(files, objs, f, r, buf, b) \in Effects
<1>1. \A o \in Offset : Referent(files, objs, r, buf, o) \in Nat
  BY DEF Referent
<1>2. files[f] \in Nat
  OBVIOUS
<1> QED
  BY <1>1, <1>2 DEF Effect, Effects

(* A result of a call is a buffer of the same request, with a fresh handle *)
(* at the output offset if there is one.                                   *)
LEMMA ResultsType ==
    ASSUME NEW objs, NEW r \in Req, NEW buf \in [Layout[r].ext -> Value],
           NEW result \in Results(objs, r, buf)
    PROVE  /\ result \in [Layout[r].ext -> Value]
           /\ Layout[r].out = None => result = buf
           /\ Layout[r].out # None =>
                /\ result[Layout[r].out] \in Handle
                /\ objs[result[Layout[r].out]] = 0
<1>1. CASE Layout[r].out = None
  BY <1>1 DEF Results
<1>2. CASE Layout[r].out # None
  <2>1. Layout[r].out \in Layout[r].ext
    BY <1>2, LayoutAssumption
  <2>2. PICK h \in Handle : objs[h] = 0 /\ result = [buf EXCEPT ![Layout[r].out] = h]
    BY <1>2 DEF Results
  <2> QED
    BY <1>2, <2>1, <2>2 DEF Value
<1> QED
  BY <1>1, <1>2

LEMMA ObjectsAfterType ==
    ASSUME NEW n \in Nat, NEW m \in Nat, n <= m, NEW i \in 0..m,
           NEW objs \in [Handle -> 0..n], NEW r, NEW buf, NEW result
    PROVE  ObjectsAfter(objs, r, buf, result, i) \in [Handle -> 0..m]
BY DEF ObjectsAfter

LEMMA ObjectsOutlivingType ==
    ASSUME NEW n \in Nat, NEW objs \in [Handle -> 0..n], NEW history, NEW file
    PROVE  ObjectsOutliving(objs, history, file) \in [Handle -> 0..n]
BY DEF ObjectsOutliving

(* Patching maps buffers of a request to buffers of that request.          *)
LEMMA PatchedType ==
    ASSUME ReplayTypeOK, NEW r \in Req, NEW rec, rec.req = r,
           rec.before \in [Layout[r].ext -> Value]
    PROVE  Patched(rec) \in [Layout[r].ext -> Value]
<1> DEFINE in == PatchInput(rec.before, SchemaOf(rec.req))
<1>1. in \in [Layout[r].ext -> Value]
  BY DEF PatchInput, ReplayTypeOK, Value
<1> HIDE DEF in
<1>2. PatchFds(in, SchemaOf(rec.req)) \in [Layout[r].ext -> Value]
  BY <1>1 DEF PatchFds, ReplayTypeOK, Value
<1> QED
  BY <1>2 DEF Patched, in

LEMMA LearnOutputType ==
    ASSUME ReplayTypeOK, NEW captured, NEW live, NEW s
    PROVE  LearnOutput(captured, live, s) \in [Handle -> Handle \cup {None}]
BY DEF LearnOutput, ReplayTypeOK

(* What the records of each kind are made of.                              *)
LEMMA RecordFields ==
    ASSUME NEW rec \in Record
    PROVE  /\ rec.type = "open"  => rec.ret \in Fd \cup {None}
           /\ rec.type = "close" => rec.fd \in Fd
           /\ rec.type = "ioctl" =>
                /\ rec.fd \in Fd /\ rec.req \in Req /\ rec.ok \in BOOLEAN
                /\ rec.before \in [Layout[rec.req].ext -> Value]
                /\ rec.after \in [Layout[rec.req].ext -> Value]
           /\ rec.type \in {"open", "close", "ioctl"}
BY DEF Record, OpenRec, CloseRec, IoctlRec

-----------------------------------------------------------------------------
LEMMA InitType == Init => TypeOK
<1> SUFFICES ASSUME Init PROVE TypeOK
  OBVIOUS
<1>1. CapTypeOK
  <2>1. trace = <<>> /\ meant = <<>> /\ Len(trace) = 0 /\ Len(meant) = 0
    BY DEF Init, CaptureInit
  <2>2. capFile \in [Fd -> 0..Len(trace)] /\ capObj \in [Handle -> 0..Len(trace)]
    BY <2>1 DEF Init, CaptureInit
  <2>3. phase = "capture" /\ torn = FALSE
    BY DEF Init, CaptureInit
  <2>4. trace \in Seq(Record) /\ meant \in Seq(Effects)
    BY <2>1
  <2> QED
    BY <2>1, <2>2, <2>3, <2>4 DEF CapTypeOK
<1>2. ReplayTypeOK
  BY DEF Init, CaptureInit, ReplayTypeOK
<1> QED
  BY <1>1, <1>2, TypeOKSplit

(* A logged record extends the trace.                                      *)
LEMMA LoggedType ==
    ASSUME CapTypeOK, NEW rec \in Record, NEW e \in Effects, Logged(rec, e)
    PROVE  /\ phase' \in {"capture", "load", "replay", "exited"}
           /\ torn' \in BOOLEAN
           /\ trace' \in Seq(Record) /\ Len(trace') = Len(trace) + 1
           /\ meant' \in Seq(Effects) /\ Len(meant') = Len(trace')
BY DEF CapTypeOK, Logged

LEMMA IoctlRecType ==
    ASSUME NEW f \in Fd, NEW r \in Req, NEW b \in BOOLEAN,
           NEW before \in [Layout[r].ext -> Value], NEW after \in [Layout[r].ext -> Value]
    PROVE  [type |-> "ioctl", fd |-> f, req |-> r,
            before |-> before, after |-> after, ok |-> b] \in Record
BY DEF Record, IoctlRec

(* The capture keeps its variables' types.                                 *)
LEMMA CaptureType ==
    ASSUME TypeOK, CaptureNext
    PROVE  CapTypeOK' /\ Len(trace') >= Len(trace)
<1> USE TypeOKSplit
<1>0. CapTypeOK /\ Len(trace) \in Nat
  BY DEF CapTypeOK
<1>1. ASSUME NEW f \in Fd, CapOpen(f) PROVE CapTypeOK' /\ Len(trace') >= Len(trace)
  <2>1. [type |-> "open", ret |-> f] \in Record
    BY DEF Record, OpenRec
  <2>2. FileEffect(Len(trace) + 1) \in Effects
    BY <1>0, FileEffectType
  <2> QED
    BY <1>0, <1>1, <2>1, <2>2, LoggedType DEF CapOpen, CapTypeOK
<1>2. ASSUME NEW f \in Fd, CapClose(f) PROVE CapTypeOK' /\ Len(trace') >= Len(trace)
  <2>1. [type |-> "close", fd |-> f] \in Record
    BY DEF Record, CloseRec
  <2>2. FileEffect(capFile[f]) \in Effects
    BY <1>0, FileEffectType DEF CapTypeOK
  <2>3. ObjectsOutliving(capObj, meant, capFile[f]) \in [Handle -> 0..Len(trace)]
    BY <1>0, ObjectsOutlivingType DEF CapTypeOK
  <2>4. CASE Logged([type |-> "close", fd |-> f], FileEffect(capFile[f]))
    BY <1>0, <1>2, <2>1, <2>2, <2>3, <2>4, LoggedType DEF CapClose, CapTypeOK
  <2>5. CASE UNCHANGED <<phase, torn, trace, meant>>
    BY <1>0, <1>2, <2>3, <2>5 DEF CapClose, CapTypeOK
  <2> QED
    BY <1>2, <2>4, <2>5 DEF CapClose
<1>3. ASSUME CapOpenFails PROVE CapTypeOK' /\ Len(trace') >= Len(trace)
  <2>1. [type |-> "open", ret |-> None] \in Record
    BY DEF Record, OpenRec
  <2> QED
    BY <1>0, <1>3, <2>1, FileEffectType, LoggedType DEF CapOpenFails, CapTypeOK
<1>4. ASSUME NEW f \in Fd, NEW r \in Req, CapIoctl(f, r) PROVE CapTypeOK' /\ Len(trace') >= Len(trace)
  <2>1. PICK buf \in Arguments(r) : \E result \in Results(capObj, r, buf) :
            /\ Logged([type |-> "ioctl", fd |-> f, req |-> r,
                       before |-> buf, after |-> result, ok |-> TRUE],
                      Effect(capFile, capObj, f, r, buf, TRUE))
            /\ capObj' = ObjectsAfter(capObj, r, buf, result, Len(trace) + 1)
    BY <1>4 DEF CapIoctl
  <2>2. PICK result \in Results(capObj, r, buf) :
            /\ Logged([type |-> "ioctl", fd |-> f, req |-> r,
                       before |-> buf, after |-> result, ok |-> TRUE],
                      Effect(capFile, capObj, f, r, buf, TRUE))
            /\ capObj' = ObjectsAfter(capObj, r, buf, result, Len(trace) + 1)
    BY <2>1
  <2>3. buf \in [Layout[r].ext -> Value]
    BY DEF Arguments
  <2>4. result \in [Layout[r].ext -> Value]
    BY <2>3, ResultsType
  <2>5. [type |-> "ioctl", fd |-> f, req |-> r,
         before |-> buf, after |-> result, ok |-> TRUE] \in Record
    BY <2>3, <2>4, IoctlRecType
  <2>6. Effect(capFile, capObj, f, r, buf, TRUE) \in Effects
    BY <1>0, EffectType DEF CapTypeOK
  <2>7. capObj' \in [Handle -> 0..(Len(trace) + 1)]
    <3>1. capObj \in [Handle -> 0..Len(trace)] /\ Len(trace) <= Len(trace) + 1
          /\ Len(trace) + 1 \in 0..(Len(trace) + 1)
      BY <1>0 DEF CapTypeOK
    <3> QED
      BY <1>0, <2>2, <3>1, ObjectsAfterType
  <2>8. /\ phase' \in {"capture", "load", "replay", "exited"}
         /\ torn' \in BOOLEAN
         /\ trace' \in Seq(Record) /\ Len(trace') = Len(trace) + 1
         /\ meant' \in Seq(Effects) /\ Len(meant') = Len(trace')
    BY <1>0, <2>2, <2>5, <2>6, LoggedType
  <2>9. capFile' = capFile
    BY <1>4 DEF CapIoctl
  <2> QED
    BY <1>0, <2>7, <2>8, <2>9 DEF CapTypeOK
<1>5. ASSUME NEW f \in Fd, NEW r \in Req, CapIoctlFails(f, r) PROVE CapTypeOK' /\ Len(trace') >= Len(trace)
  <2>1. PICK buf \in Arguments(r) :
          Logged([type |-> "ioctl", fd |-> f, req |-> r,
                  before |-> buf, after |-> buf, ok |-> FALSE],
                 Effect(capFile, capObj, f, r, buf, FALSE))
    BY <1>5 DEF CapIoctlFails
  <2>2. [type |-> "ioctl", fd |-> f, req |-> r,
         before |-> buf, after |-> buf, ok |-> FALSE] \in Record
    BY IoctlRecType DEF Arguments
  <2>3. Effect(capFile, capObj, f, r, buf, FALSE) \in Effects
    BY <1>0, EffectType DEF CapTypeOK
  <2>4. /\ phase' \in {"capture", "load", "replay", "exited"}
         /\ torn' \in BOOLEAN
         /\ trace' \in Seq(Record) /\ Len(trace') = Len(trace) + 1
         /\ meant' \in Seq(Effects) /\ Len(meant') = Len(trace')
    BY <1>0, <2>1, <2>2, <2>3, LoggedType
  <2>5. capFile' = capFile /\ capObj' = capObj
    BY <1>5 DEF CapIoctlFails
  <2> QED
    BY <1>0, <2>4, <2>5 DEF CapTypeOK
<1>6. ASSUME CapEnd PROVE CapTypeOK' /\ Len(trace') >= Len(trace)
  BY <1>0, <1>6 DEF CapEnd, CapTypeOK
<1> QED
  BY <1>1, <1>2, <1>3, <1>4, <1>5, <1>6 DEF CaptureNext

-----------------------------------------------------------------------------
(* A replayed record adds one effect.                                      *)
LEMMA ReplayedType ==
    ASSUME TypeOK, AtRecord, NEW e \in Effects, Replayed(e)
    PROVE  /\ CapTypeOK'
           /\ pos' \in 1..(Len(trace') + 1) /\ exitCode' \in {0, 1}
           /\ reached' \in Seq(Effects) /\ Len(reached') = pos' - 1
           /\ Len(reached') = Len(reached) + 1 /\ Len(reached) \in Nat
           /\ pos = Len(reached')
           /\ liveFile \in [Fd -> 0..Len(reached')]
           /\ liveObj \in [Handle -> 0..Len(reached')]
<1>1. CapTypeOK'
  BY DEF TypeOK, CapTypeOK, Replayed, capVars
<1>2. pos \in Nat /\ pos <= Len(trace) /\ Len(trace) \in Nat
  BY DEF TypeOK, AtRecord
<1>3. reached' \in Seq(Effects) /\ Len(reached') = Len(reached) + 1
      /\ Len(reached) \in Nat /\ Len(reached) = pos - 1
  BY DEF TypeOK, Replayed
<1> QED
  BY <1>1, <1>2, <1>3 DEF TypeOK, Replayed, capVars

(* Every step keeps the replayer's variables' types.                       *)
LEMMA ReplayType ==
    ASSUME TypeOK, ReplayStep
    PROVE  TypeOK'
<1> USE TypeOKSplit
<1>0. /\ Len(trace) \in Nat /\ Len(reached) \in Nat /\ pos \in Nat
      /\ liveFile \in [Fd -> 0..Len(reached)] /\ liveObj \in [Handle -> 0..Len(reached)]
  BY DEF TypeOK
<1>ev. ASSUME AtRecord PROVE event \in Record
  BY <1>ev DEF AtRecord, TypeOK, event
<1>1. CASE Load
  BY <1>1 DEF Load, Exit, TypeOK, mapVars, countVars, liveVars
<1>2. CASE ReplayFailedOpen
  <2>1. AtRecord /\ Replayed(Nothing) /\ UNCHANGED <<mapVars, countVars, liveVars>>
    BY <1>2 DEF ReplayFailedOpen
  <2> QED
    BY <2>1, FileEffectType, ReplayedType
       DEF ReplayTypeOK, mapVars, countVars, liveVars
<1>3. CASE ReplayOpen
  <2>1. AtRecord /\ IsOpen(event) /\ Replayed(FileEffect(pos))
        /\ UNCHANGED <<handleMap, countVars, liveObj>>
    BY <1>3 DEF ReplayOpen
  <2>2. event.ret \in Fd
    BY <2>1, <1>ev, RecordFields DEF IsOpen
  <2>3. PICK f \in Fd : /\ liveFile' = [liveFile EXCEPT ![f] = pos]
                        /\ fdMap' = [fdMap EXCEPT ![event.ret] = f]
    BY <1>3 DEF ReplayOpen
  <2>4. FileEffect(pos) \in Effects
    BY <1>0, FileEffectType
  <2> QED
    BY <1>0, <2>1, <2>2, <2>3, <2>4, ReplayedType
       DEF ReplayTypeOK, countVars
<1>4. CASE ReplayOpenError
  <2>1. AtRecord /\ Replayed(Failure) /\ UNCHANGED <<mapVars, countVars, liveVars>>
    BY <1>4 DEF ReplayOpenError
  <2> QED
    BY <2>1, FileEffectType, ReplayedType
       DEF ReplayTypeOK, mapVars, countVars, liveVars
<1>5. CASE ReplayOpenDenied
  BY <1>5 DEF ReplayOpenDenied, Exit, TypeOK, mapVars, countVars, liveVars
<1>6. CASE ReplayClose
  <2>1. AtRecord /\ event.type = "close" /\ UNCHANGED <<mapVars, countVars>>
    BY <1>6 DEF ReplayClose
  <2>2. event.fd \in Fd
    BY <2>1, <1>ev, RecordFields
  <2>3. CASE fdMap[event.fd] # None /\ liveFile[fdMap[event.fd]] # 0
    <3>1. fdMap[event.fd] \in Fd
      BY <2>2, <2>3 DEF TypeOK
    <3>2. /\ liveFile' = [liveFile EXCEPT ![fdMap[event.fd]] = 0]
          /\ liveObj' = ObjectsOutliving(liveObj, reached, liveFile[fdMap[event.fd]])
          /\ Replayed(FileEffect(liveFile[fdMap[event.fd]]))
      BY <1>6, <2>3 DEF ReplayClose
    <3>3. FileEffect(liveFile[fdMap[event.fd]]) \in Effects
      BY <1>0, <3>1, FileEffectType
    <3>4. Len(reached') = Len(reached) + 1
      BY <2>1, <3>2, <3>3, ReplayedType
    <3>5. liveObj' \in [Handle -> 0..Len(reached)]
      BY <1>0, <3>2, ObjectsOutlivingType
    <3> QED
      BY <1>0, <2>1, <3>1, <3>2, <3>3, <3>4, <3>5, ReplayedType
         DEF ReplayTypeOK, mapVars, countVars
  <2>4. CASE ~(fdMap[event.fd] # None /\ liveFile[fdMap[event.fd]] # 0)
    <3>1. Replayed(Failure) /\ UNCHANGED liveVars
      BY <1>6, <2>4 DEF ReplayClose
    <3> QED
      BY <2>1, <3>1, FileEffectType, ReplayedType
         DEF ReplayTypeOK, mapVars, countVars, liveVars
  <2> QED
    BY <2>3, <2>4
<1>7. CASE ReplaySkip
  <2>1. AtRecord /\ Replayed(Failure)
    BY <1>7 DEF ReplaySkip
  <2>2. /\ total' \in Nat /\ skipped' \in Nat /\ ok' \in Nat /\ failed' \in Nat
        /\ UNCHANGED <<fdMap, handleMap, liveFile, liveObj>>
    BY <1>7 DEF ReplaySkip, TypeOK, mapVars, liveVars
  <2> QED
    BY <2>1, <2>2, FileEffectType, ReplayedType DEF ReplayTypeOK
<1>fd. ASSUME AtRecord, IsIoctl(event), fdMap[event.fd] # None
       PROVE  /\ fdMap[event.fd] \in Fd /\ event.req \in Req
              /\ Patched(event) \in [Layout[event.req].ext -> Value]
  <2>1. /\ event.fd \in Fd /\ event.req \in Req
        /\ event.before \in [Layout[event.req].ext -> Value]
    BY <1>ev, <1>fd, RecordFields DEF IsIoctl
  <2>2. Patched(event) \in [Layout[event.req].ext -> Value]
    BY <2>1, PatchedType
  <2> QED
    BY <1>fd, <2>1, <2>2 DEF TypeOK
<1>8. CASE ReplayIoctl
  <2> DEFINE buf == Patched(event)
             e == Effect(liveFile, liveObj, fdMap[event.fd], event.req, buf, TRUE)
  <2>1. /\ AtRecord /\ IsIoctl(event) /\ fdMap[event.fd] # None
        /\ Replayed(e)
        /\ total' = total + 1 /\ ok' = ok + 1
        /\ UNCHANGED <<fdMap, failed, skipped, liveFile>>
    BY <1>8 DEF ReplayIoctl
  <2>2. PICK result \in Results(liveObj, event.req, buf) :
          /\ liveObj' = ObjectsAfter(liveObj, event.req, buf, result, pos)
          /\ handleMap' = LearnOutput(event.after, result, SchemaOf(event.req))
    BY <1>8 DEF ReplayIoctl
  <2>3. e \in Effects
    BY <1>0, <1>fd, <2>1, EffectType
  <2> HIDE DEF e, buf
  <2>4. liveObj' \in [Handle -> 0..Len(reached')]
    <3>1. pos \in 0..Len(reached') /\ Len(reached) <= Len(reached') /\ Len(reached') \in Nat
      BY <2>1, <2>3, ReplayedType
    <3> QED
      BY <1>0, <2>2, <3>1, ObjectsAfterType
  <2>5. handleMap' \in [Handle -> Handle \cup {None}]
    BY <2>2, LearnOutputType
  <2>6. total' \in Nat /\ skipped' \in Nat /\ ok' \in Nat /\ failed' \in Nat
    BY <2>1 DEF TypeOK
  <2> QED
    BY <2>1, <2>3, <2>4, <2>5, <2>6, ReplayedType DEF ReplayTypeOK
<1>9. CASE ReplayIoctlFails
  <2> DEFINE e == Effect(liveFile, liveObj, fdMap[event.fd], event.req, Patched(event), FALSE)
  <2>1. AtRecord /\ IsIoctl(event) /\ fdMap[event.fd] # None /\ Replayed(e)
        /\ total' = total + 1 /\ failed' = failed + 1
        /\ UNCHANGED <<ok, skipped, mapVars, liveVars>>
    BY <1>9 DEF ReplayIoctlFails
  <2>2. e \in Effects
    BY <1>0, <1>fd, <2>1, EffectType
  <2> HIDE DEF e
  <2>3. /\ total' \in Nat /\ skipped' \in Nat /\ ok' \in Nat /\ failed' \in Nat
        /\ UNCHANGED <<fdMap, handleMap, liveFile, liveObj>>
    BY <2>1 DEF TypeOK, mapVars, liveVars
  <2> QED
    BY <2>1, <2>2, <2>3, ReplayedType DEF ReplayTypeOK
<1>10. CASE Finish
  BY <1>10 DEF Finish, Exit, TypeOK, mapVars, countVars, liveVars
<1> QED
  BY <1>1, <1>2, <1>3, <1>4, <1>5, <1>6, <1>7, <1>8, <1>9, <1>10 DEF ReplayStep

(* Every variable of the capture and the replayer keeps its type.          *)
LEMMA NextType == TypeOK /\ [Next]_vars => TypeOK'
<1> SUFFICES ASSUME TypeOK, [Next]_vars PROVE TypeOK'
  OBVIOUS
<1>1. CASE Capture
  <2>1. CapTypeOK' /\ Len(trace') >= Len(trace) /\ UNCHANGED replayVars
    BY <1>1, CaptureType DEF Capture
  <2>2. Len(trace') \in Nat /\ Len(trace) \in Nat
    BY <2>1 DEF CapTypeOK, TypeOK
  <2>3. ReplayTypeOK'
    BY <2>1, <2>2 DEF TypeOK, ReplayTypeOK, replayVars
  <2> QED
    BY <2>1, <2>3, TypeOKSplit
<1>2. CASE ReplayStep
  BY <1>2, ReplayType
<1>3. CASE UNCHANGED vars
  BY <1>3 DEF vars, capVars, replayVars, TypeOK
<1> QED
  BY <1>1, <1>2, <1>3 DEF Next, Terminated

(* The type invariant of the replay, for every capture of every length.    *)
THEOREM TypeCorrect == Spec => []TypeOK
BY InitType, NextType, PTL DEF Spec
-----------------------------------------------------------------------------
(* What a number names before record p depends on the records before p     *)
(* only.                                                                   *)
LEMMA PrefixFile ==
    ASSUME NEW t, NEW u, NEW p \in Nat, \A k \in 1..(p - 1) : u[k] = t[k],
           NEW f, NEW i, NamesFile(t, f, i, p)
    PROVE  NamesFile(u, f, i, p)
BY DEF NamesFile, OpensAt, ClosesAt

LEMMA PrefixObject ==
    ASSUME NEW t, NEW u, NEW m, NEW n, NEW p \in Nat,
           \A k \in 1..(p - 1) : u[k] = t[k] /\ n[k] = m[k],
           NEW h, NEW i, NamesObject(t, m, h, i, p)
    PROVE  NamesObject(u, n, h, i, p)
<1>1. i \in 1..(p - 1) /\ AllocsAt(u, i, h)
  BY DEF NamesObject, AllocsAt, Allocates
<1>2. ASSUME NEW k \in (i + 1)..(p - 1)
      PROVE  ~AllocsAt(u, k, h) /\ ~DestroysAt(u, n, k, i)
  <2>1. k \in 1..(p - 1) /\ i \in 1..(p - 1)
    BY <1>1
  <2>2. u[k] = t[k] /\ n[k] = m[k] /\ n[i] = m[i]
    BY <2>1
  <2>3. ~AllocsAt(t, k, h) /\ ~DestroysAt(t, m, k, i)
    BY DEF NamesObject
  <2> QED
    BY <2>2, <2>3 DEF AllocsAt, Allocates, DestroysAt
<1> QED
  BY <1>1, <1>2 DEF NamesObject

LEMMA PrefixMeaning ==
    ASSUME NEW t, NEW u, NEW m, NEW n, NEW i \in Nat,
           i >= 1, \A k \in 1..i : u[k] = t[k] /\ n[k] = m[k],
           Meaning(t, m, i)
    PROVE  Meaning(u, n, i)
<1>1. u[i] = t[i] /\ n[i] = m[i]
  OBVIOUS
<1>2. \A f, j : NamesFile(t, f, j, i) => NamesFile(u, f, j, i)
  BY PrefixFile
<1>3. \A h, j : NamesObject(t, m, h, j, i) => NamesObject(u, n, h, j, i)
  <2> SUFFICES ASSUME NEW h, NEW j, NamesObject(t, m, h, j, i)
               PROVE  NamesObject(u, n, h, j, i)
    OBVIOUS
  <2>1. \A k \in 1..(i - 1) : u[k] = t[k] /\ n[k] = m[k]
    OBVIOUS
  <2> QED
    BY <2>1, PrefixObject
<1>4. ASSUME NEW o \in Offset, FieldMeaning(t, m, i, o)
      PROVE  FieldMeaning(u, n, i, o)
  BY <1>1, <1>2, <1>3, <1>4 DEF FieldMeaning
<1>5. u[i].type = "open" => n[i].ok
  BY <1>1 DEF Meaning
<1>6. u[i].type = "close" => /\ NamesFile(u, u[i].fd, n[i].file, i)
                             /\ n[i] = FileEffect(n[i].file)
  BY <1>1, <1>2 DEF Meaning
<1>7. u[i].type = "ioctl" =>
        /\ NamesFile(u, u[i].fd, n[i].file, i)
        /\ \A o \in Offset : FieldMeaning(u, n, i, o)
        /\ n[i].ok = u[i].ok
        /\ Allocates(u, i) => u[i].after[Layout[u[i].req].out] \in Handle
  BY <1>1, <1>2, <1>4 DEF Meaning, Allocates
<1> QED
  BY <1>5, <1>6, <1>7 DEF Meaning

(* Record p leaves alone what it neither opens nor closes, and neither     *)
(* allocates nor destroys.                                                 *)
LEMMA StepFile ==
    ASSUME NEW t, NEW p \in Nat, NEW f, NEW i
    PROVE  /\ NamesFile(t, f, i, p) /\ ~OpensAt(t, p, f) /\ ~ClosesAt(t, p, f)
                => NamesFile(t, f, i, p + 1)
           /\ p >= 1 /\ OpensAt(t, p, f) => NamesFile(t, f, p, p + 1)
           /\ NamesFile(t, f, i, p + 1) =>
                \/ i = p /\ OpensAt(t, p, f)
                \/ NamesFile(t, f, i, p) /\ ~OpensAt(t, p, f) /\ ~ClosesAt(t, p, f)
BY DEF NamesFile

LEMMA StepObject ==
    ASSUME NEW t, NEW m, NEW p \in Nat, NEW h, NEW i
    PROVE  /\ NamesObject(t, m, h, i, p) /\ ~AllocsAt(t, p, h) /\ ~DestroysAt(t, m, p, i)
                => NamesObject(t, m, h, i, p + 1)
           /\ p >= 1 /\ AllocsAt(t, p, h) => NamesObject(t, m, h, p, p + 1)
           /\ NamesObject(t, m, h, i, p + 1) =>
                \/ i = p /\ AllocsAt(t, p, h)
                \/ /\ NamesObject(t, m, h, i, p)
                   /\ ~AllocsAt(t, p, h) /\ ~DestroysAt(t, m, p, i)
BY DEF NamesObject

(* A number names one thing, and a thing has one number.                   *)
LEMMA UniqueFile ==
    ASSUME NEW t, NEW p \in Nat, NEW f, NEW i, NEW j,
           NamesFile(t, f, i, p), NamesFile(t, f, j, p)
    PROVE  i = j
BY DEF NamesFile

LEMMA UniqueHandle ==
    ASSUME NEW t, NEW m, NEW p, NEW g, NEW h, NEW i,
           NamesObject(t, m, g, i, p), NamesObject(t, m, h, i, p)
    PROVE  g = h
BY DEF NamesObject, AllocsAt

-----------------------------------------------------------------------------
(* The capture.                                                            *)

LEMMA LoggedFacts ==
    ASSUME TypeOK, NEW rec, NEW e, Logged(rec, e), rec \in Record, e \in Effects
    PROVE  /\ Len(trace) \in Nat /\ Len(trace') = Len(trace) + 1
           /\ \A k \in 1..Len(trace) : trace'[k] = trace[k] /\ meant'[k] = meant[k]
           /\ trace'[Len(trace) + 1] = rec
           /\ meant'[Len(trace) + 1] = e
           /\ phase' = phase
BY DEF TypeOK, Logged

(* A logged record keeps CaptureInv if it accounts for every change to the *)
(* open files and the objects, and its meaning is right.                   *)
LEMMA LoggedInv ==
    ASSUME TypeOK, CaptureInv, NEW rec \in Record, NEW e \in Effects, Logged(rec, e),
           UNCHANGED pos,
           NEW n, n = Len(trace) + 1,
           \A f \in Fd : capFile'[f] # 0 =>
              \/ capFile'[f] = n /\ OpensAt(trace', n, f)
              \/ /\ capFile'[f] = capFile[f]
                 /\ ~OpensAt(trace', n, f) /\ ~ClosesAt(trace', n, f),
           \A h \in Handle : capObj'[h] # 0 =>
              \/ capObj'[h] = n /\ AllocsAt(trace', n, h)
              \/ /\ capObj'[h] = capObj[h]
                 /\ ~AllocsAt(trace', n, h) /\ ~DestroysAt(trace', meant', n, capObj[h]),
           Meaning(trace', meant', n)
    PROVE  CaptureInv'
<1>1. /\ n \in Nat /\ n >= 1 /\ Len(trace') = n
      /\ \A k \in 1..(n - 1) : trace'[k] = trace[k] /\ meant'[k] = meant[k]
      /\ phase' = phase
  BY LoggedFacts
<1>2. \A f, i : NamesFile(trace, f, i, n) => NamesFile(trace', f, i, n)
  BY <1>1, PrefixFile
<1>3. \A h, i : NamesObject(trace, meant, h, i, n) => NamesObject(trace', meant', h, i, n)
  BY <1>1, PrefixObject
<1>4. ASSUME NEW f \in Fd, capFile'[f] # 0
      PROVE  NamesFile(trace', f, capFile'[f], n + 1)
  <2>1. CASE capFile'[f] = n /\ OpensAt(trace', n, f)
    BY <1>1, <2>1, StepFile
  <2>2. CASE /\ capFile'[f] = capFile[f]
             /\ ~OpensAt(trace', n, f) /\ ~ClosesAt(trace', n, f)
    <3>1. NamesFile(trace', f, capFile[f], n)
      BY <1>2, <1>4, <2>2 DEF CaptureInv
    <3> QED
      BY <1>1, <2>2, <3>1, StepFile
  <2> QED
    BY <1>4, <2>1, <2>2
<1>5. ASSUME NEW h \in Handle, capObj'[h] # 0
      PROVE  NamesObject(trace', meant', h, capObj'[h], n + 1)
  <2>1. CASE capObj'[h] = n /\ AllocsAt(trace', n, h)
    BY <1>1, <2>1, StepObject
  <2>2. CASE /\ capObj'[h] = capObj[h]
             /\ ~AllocsAt(trace', n, h) /\ ~DestroysAt(trace', meant', n, capObj[h])
    <3>1. NamesObject(trace', meant', h, capObj[h], n)
      BY <1>3, <1>5, <2>2 DEF CaptureInv
    <3> QED
      BY <1>1, <2>2, <3>1, StepObject
  <2> QED
    BY <1>5, <2>1, <2>2
<1>6. ASSUME NEW i \in 1..n PROVE Meaning(trace', meant', i)
  <2>1. CASE i = n
    BY <2>1
  <2>2. CASE i # n
    <3>1. i \in Nat /\ i >= 1 /\ i \in 1..Len(trace)
      BY <1>1, <2>2
    <3>2. Meaning(trace, meant, i)
      BY <3>1 DEF CaptureInv
    <3>3. \A k \in 1..i : trace'[k] = trace[k] /\ meant'[k] = meant[k]
      BY <1>1, <3>1
    <3> QED
      BY <3>1, <3>2, <3>3, PrefixMeaning
  <2> QED
    BY <2>1, <2>2
<1>7. phase' = "capture" => pos' = 1
  BY <1>1 DEF CaptureInv
<1> QED
  BY <1>1, <1>4, <1>5, <1>6, <1>7 DEF CaptureInv

(* The words of an argument mean what the driver resolves them to.         *)
LEMMA ArgumentMeaning ==
    ASSUME TypeOK, CaptureInv, NEW r \in Req, NEW f \in Fd, NEW buf \in Arguments(r),
           NEW b \in BOOLEAN, capFile[f] # 0,
           NEW t, NEW m, NEW n \in Nat, n = Len(trace) + 1,
           \A k \in 1..(n - 1) : t[k] = trace[k] /\ m[k] = meant[k],
           t[n].fd = f, t[n].req = r, t[n].before = buf,
           m[n] = Effect(capFile, capObj, f, r, buf, b)
    PROVE  /\ NamesFile(t, f, m[n].file, n)
           /\ \A o \in Offset : FieldMeaning(t, m, n, o)
<1>1. \A g, i : NamesFile(trace, g, i, n) => NamesFile(t, g, i, n)
  BY PrefixFile
<1>2. \A h, i : NamesObject(trace, meant, h, i, n) => NamesObject(t, m, h, i, n)
  BY PrefixObject
<1>3. /\ m[n].file = capFile[f]
      /\ \A o \in Offset : m[n].ref[o] = Referent(capFile, capObj, r, buf, o)
  BY DEF Effect
<1>4. NamesFile(t, f, m[n].file, n)
  BY <1>1, <1>3 DEF CaptureInv
<1>5. ASSUME NEW o \in Offset PROVE FieldMeaning(t, m, n, o)
  <2>1. Layout[r].in \cap Layout[r].fds = {} /\ Layout[r].in \cup Layout[r].fds \subseteq Layout[r].ext
    BY LayoutAssumption
  <2>2. CASE o \in Layout[r].in
    <3>1. \/ buf[o] \in Handle /\ capObj[buf[o]] # 0
          \/ buf[o] = None
      BY <2>1, <2>2 DEF Arguments
    <3>2. CASE buf[o] \in Handle /\ capObj[buf[o]] # 0
      <4>1. m[n].ref[o] = capObj[buf[o]]
        BY <1>3, <2>1, <2>2, <3>2 DEF Referent
      <4>2. NamesObject(t, m, buf[o], m[n].ref[o], n)
        BY <1>2, <3>2, <4>1 DEF CaptureInv
      <4> QED
        BY <2>1, <2>2, <3>2, <4>2, ValueAssumption DEF FieldMeaning
    <3>3. CASE buf[o] = None
      <4>1. m[n].ref[o] = 0
        BY <1>3, <2>1, <2>2, <3>3, ValueAssumption DEF Referent
      <4> QED
        BY <2>1, <2>2, <3>3, <4>1 DEF FieldMeaning
    <3> QED
      BY <3>1, <3>2, <3>3
  <2>3. CASE o \in Layout[r].fds
    <3>1. buf[o] \in Fd /\ capFile[buf[o]] # 0 /\ o \notin Layout[r].in
      BY <2>1, <2>3 DEF Arguments
    <3>2. m[n].ref[o] = capFile[buf[o]]
      BY <1>3, <2>3, <3>1 DEF Referent
    <3>3. NamesFile(t, buf[o], m[n].ref[o], n)
      BY <1>1, <3>1, <3>2 DEF CaptureInv
    <3> QED
      BY <2>3, <3>1, <3>3 DEF FieldMeaning
  <2>4. CASE o \notin Layout[r].in \cup Layout[r].fds
    BY <1>3, <2>4 DEF FieldMeaning, Referent
  <2> QED
    BY <2>2, <2>3, <2>4
<1> QED
  BY <1>3, <1>4, <1>5

(* Distinct handles name distinct objects.                                 *)
LEMMA CapObjInjective ==
    ASSUME CaptureInv, NEW g \in Handle, NEW h \in Handle,
           capObj[g] # 0, capObj[g] = capObj[h]
    PROVE  g = h
BY UniqueHandle DEF CaptureInv

(* Every action of the capture keeps CaptureInv.                           *)
LEMMA CaptureStep ==
    ASSUME TypeOK, CaptureInv, CaptureNext, UNCHANGED pos
    PROVE  CaptureInv'
<1> DEFINE n == Len(trace) + 1
<1>0. /\ n \in Nat /\ Len(trace) \in Nat
      /\ capFile \in [Fd -> 0..Len(trace)] /\ capObj \in [Handle -> 0..Len(trace)]
  BY DEF TypeOK
<1>t. TypeOK
  OBVIOUS
<1>1. ASSUME NEW f \in Fd, CapOpen(f) PROVE CaptureInv'
  <2> DEFINE rec == [type |-> "open", ret |-> f]
  <2>1. rec \in Record /\ FileEffect(n) \in Effects
    BY <1>0, FileEffectType DEF Record, OpenRec
  <2>2. Logged(rec, FileEffect(n)) /\ UNCHANGED capObj
        /\ capFile' = [capFile EXCEPT ![f] = n]
    BY <1>1 DEF CapOpen
  <2>3. trace'[n] = rec /\ meant'[n] = FileEffect(n)
    BY <2>1, <2>2, LoggedFacts
  <2>4. \A g \in Fd : capFile'[g] # 0 =>
              \/ capFile'[g] = n /\ OpensAt(trace', n, g)
              \/ /\ capFile'[g] = capFile[g]
                 /\ ~OpensAt(trace', n, g) /\ ~ClosesAt(trace', n, g)
    BY <1>0, <2>2, <2>3 DEF OpensAt, ClosesAt
  <2>5. \A h \in Handle : /\ capObj'[h] = capObj[h]
                          /\ ~AllocsAt(trace', n, h)
                          /\ ~DestroysAt(trace', meant', n, capObj[h])
    BY <2>2, <2>3 DEF AllocsAt, Allocates, DestroysAt, IsIoctl
  <2>6. Meaning(trace', meant', n)
    BY <2>3 DEF Meaning, FileEffect
  <2> HIDE DEF rec
  <2> QED
    BY <2>1, <2>2, <2>4, <2>5, <2>6, LoggedInv
<1>2. ASSUME CapOpenFails PROVE CaptureInv'
  <2> DEFINE rec == [type |-> "open", ret |-> None]
  <2>1. rec \in Record /\ Nothing \in Effects
    BY FileEffectType DEF Record, OpenRec
  <2>2. Logged(rec, Nothing) /\ UNCHANGED <<capFile, capObj>>
    BY <1>2 DEF CapOpenFails
  <2>3. trace'[n] = rec /\ meant'[n] = Nothing
    BY <2>1, <2>2, LoggedFacts
  <2>4. \A g \in Fd : /\ capFile'[g] = capFile[g]
                      /\ ~OpensAt(trace', n, g) /\ ~ClosesAt(trace', n, g)
    BY <2>2, <2>3, ValueAssumption DEF OpensAt, ClosesAt
  <2>5. \A h \in Handle : /\ capObj'[h] = capObj[h]
                          /\ ~AllocsAt(trace', n, h)
                          /\ ~DestroysAt(trace', meant', n, capObj[h])
    BY <2>2, <2>3 DEF AllocsAt, Allocates, DestroysAt, IsIoctl
  <2>6. Meaning(trace', meant', n)
    BY <2>3 DEF Meaning, FileEffect, Nothing
  <2> HIDE DEF rec
  <2> QED
    BY <2>1, <2>2, <2>4, <2>5, <2>6, LoggedInv
<1>3. ASSUME NEW f \in Fd, CapClose(f) PROVE CaptureInv'
  <2>1. /\ capFile[f] # 0 /\ phase = "capture"
        /\ capFile' = [capFile EXCEPT ![f] = 0]
        /\ capObj' = ObjectsOutliving(capObj, meant, capFile[f])
    BY <1>3 DEF CapClose
  <2>2. \A h \in Handle : capObj'[h] # 0 =>
            capObj'[h] = capObj[h] /\ meant[capObj[h]].file # capFile[f]
    BY <2>1 DEF ObjectsOutliving
  <2>3. CASE Logged([type |-> "close", fd |-> f], FileEffect(capFile[f]))
    <3> DEFINE rec == [type |-> "close", fd |-> f]
    <3>1. rec \in Record /\ FileEffect(capFile[f]) \in Effects
      BY <1>0, FileEffectType DEF Record, CloseRec
    <3>2. Logged(rec, FileEffect(capFile[f]))
      BY <2>3
    <3>3. /\ trace'[n] = rec /\ meant'[n] = FileEffect(capFile[f])
          /\ \A k \in 1..(n - 1) : trace'[k] = trace[k] /\ meant'[k] = meant[k]
      BY <3>1, <3>2, LoggedFacts
    <3>4. \A g \in Fd : capFile'[g] # 0 =>
                /\ capFile'[g] = capFile[g]
                /\ ~OpensAt(trace', n, g) /\ ~ClosesAt(trace', n, g)
      BY <1>0, <2>1, <3>3 DEF OpensAt, ClosesAt
    <3>5. \A h \in Handle : capObj'[h] # 0 =>
                /\ capObj'[h] = capObj[h]
                /\ ~AllocsAt(trace', n, h)
                /\ ~DestroysAt(trace', meant', n, capObj[h])
      <4>1. ASSUME NEW h \in Handle, capObj'[h] # 0
            PROVE  /\ meant'[capObj[h]].file = meant[capObj[h]].file
                   /\ meant'[n].file = capFile[f]
        <5>1. capObj[h] \in 1..(n - 1)
          BY <1>0, <2>2, <4>1
        <5> QED
          BY <3>3, <5>1 DEF FileEffect
      <4> QED
        BY <2>2, <3>3, <4>1 DEF AllocsAt, Allocates, DestroysAt, IsIoctl
    <3>6. Meaning(trace', meant', n)
      <4>1. NamesFile(trace', f, capFile[f], n)
        BY <1>0, <2>1, <3>3, PrefixFile DEF CaptureInv
      <4> QED
        BY <3>3, <4>1 DEF Meaning, FileEffect
    <3> HIDE DEF rec
    <3> QED
      BY <3>1, <3>2, <3>4, <3>5, <3>6, LoggedInv
  <2>4. CASE UNCHANGED <<phase, torn, trace, meant>>
    BY <1>0, <2>1, <2>2, <2>4 DEF CaptureInv
  <2> QED
    BY <1>3, <2>3, <2>4 DEF CapClose
<1>4. ASSUME NEW f \in Fd, NEW r \in Req, CapIoctl(f, r) PROVE CaptureInv'
  <2>1. capFile[f] # 0 /\ UNCHANGED capFile
    BY <1>4 DEF CapIoctl
  <2>b. PICK buf \in Arguments(r) : \E result \in Results(capObj, r, buf) :
            /\ Logged([type |-> "ioctl", fd |-> f, req |-> r,
                       before |-> buf, after |-> result, ok |-> TRUE],
                      Effect(capFile, capObj, f, r, buf, TRUE))
            /\ capObj' = ObjectsAfter(capObj, r, buf, result, n)
    BY <1>4 DEF CapIoctl
  <2>c. PICK result \in Results(capObj, r, buf) :
            /\ Logged([type |-> "ioctl", fd |-> f, req |-> r,
                       before |-> buf, after |-> result, ok |-> TRUE],
                      Effect(capFile, capObj, f, r, buf, TRUE))
            /\ capObj' = ObjectsAfter(capObj, r, buf, result, n)
    BY <2>b
  <2> DEFINE rec == [type |-> "ioctl", fd |-> f, req |-> r,
                     before |-> buf, after |-> result, ok |-> TRUE]
             e == Effect(capFile, capObj, f, r, buf, TRUE)
  <2>2. Logged(rec, e)
    BY <2>c
  <2>d. buf \in [Layout[r].ext -> Value]
    BY DEF Arguments
  <2>e. /\ result \in [Layout[r].ext -> Value]
        /\ Layout[r].out # None => result[Layout[r].out] \in Handle
    BY <2>d, ResultsType
  <2>3. rec \in Record /\ e \in Effects
    BY <1>0, <2>d, <2>e, IoctlRecType, EffectType
  <2>r. /\ rec.type = "ioctl" /\ rec.fd = f /\ rec.req = r
        /\ rec.before = buf /\ rec.after = result /\ rec.ok = TRUE
        /\ e = Effect(capFile, capObj, f, r, buf, TRUE)
    OBVIOUS
  <2> HIDE DEF rec, e
  <2>4. /\ trace'[n] = rec /\ meant'[n] = e
        /\ \A k \in 1..(n - 1) : trace'[k] = trace[k] /\ meant'[k] = meant[k]
    BY <2>2, <2>3, LoggedFacts
  <2>5. \A g \in Fd : ~OpensAt(trace', n, g) /\ ~ClosesAt(trace', n, g)
    BY <2>4, <2>r DEF OpensAt, ClosesAt
  <2>6. ASSUME NEW h \in Handle, capObj'[h] # 0
        PROVE  \/ capObj'[h] = n /\ AllocsAt(trace', n, h)
               \/ /\ capObj'[h] = capObj[h]
                  /\ ~AllocsAt(trace', n, h) /\ ~DestroysAt(trace', meant', n, capObj[h])
    <3>1. CASE Layout[r].out # None /\ result[Layout[r].out] = h
      BY <2>4, <2>c, <2>r, <3>1 DEF ObjectsAfter, AllocsAt, Allocates, IsIoctl
    <3>2. CASE ~(Layout[r].out # None /\ result[Layout[r].out] = h)
      <4>1. capObj'[h] = capObj[h] /\ h \notin Freed(r, buf)
        BY <2>6, <2>c, <3>2 DEF ObjectsAfter
      <4>2. ~AllocsAt(trace', n, h)
        BY <2>4, <2>r, <3>2 DEF AllocsAt, Allocates
      <4>3. ASSUME NEW o \in Layout[r].in, r \in Frees, buf[o] # None,
                   meant'[n].ref[o] = capObj[h]
            PROVE  FALSE
        <5>1. o \in Offset /\ o \in Layout[r].ext /\ o \notin Layout[r].fds
          BY LayoutAssumption DEF LayoutType
        <5>2. buf[o] \in Handle /\ capObj[buf[o]] # 0
          BY <4>3, <5>1 DEF Arguments
        <5>3. meant'[n].ref[o] = capObj[buf[o]]
          BY <2>4, <2>r, <5>1, <5>2 DEF Effect, Referent
        <5>4. buf[o] = h
          BY <4>3, <5>2, <5>3, CapObjInjective
        <5> QED
          BY <4>1, <4>3, <5>4 DEF Freed
      <4>4. ~DestroysAt(trace', meant', n, capObj[h])
        BY <2>4, <2>r, <4>3 DEF DestroysAt
      <4> QED
        BY <4>1, <4>2, <4>4
    <3> QED
      BY <3>1, <3>2
  <2>7. Meaning(trace', meant', n)
    <3>0. /\ trace'[n].fd = f /\ trace'[n].req = r /\ trace'[n].before = buf
          /\ meant'[n] = Effect(capFile, capObj, f, r, buf, TRUE)
      BY <2>4, <2>r
    <3>1. /\ NamesFile(trace', f, meant'[n].file, n)
          /\ \A o \in Offset : FieldMeaning(trace', meant', n, o)
      BY <1>0, <2>1, <2>4, <3>0, ArgumentMeaning
    <3>2. meant'[n].ok = trace'[n].ok
      <4>1. e.ok = rec.ok
        BY <2>r, Zenon DEF Effect
      <4> QED
        BY <2>4, <4>1
    <3> QED
      BY <2>4, <2>e, <2>r, <3>1, <3>2 DEF Meaning, Allocates
  <2>8. \A g \in Fd : capFile'[g] = capFile[g]
    BY <2>1
  <2> QED
    BY <2>2, <2>3, <2>5, <2>6, <2>7, <2>8, LoggedInv
<1>5. ASSUME NEW f \in Fd, NEW r \in Req, CapIoctlFails(f, r) PROVE CaptureInv'
  <2>1. capFile[f] # 0 /\ UNCHANGED <<capFile, capObj>>
    BY <1>5 DEF CapIoctlFails
  <2>b. PICK buf \in Arguments(r) :
          Logged([type |-> "ioctl", fd |-> f, req |-> r,
                  before |-> buf, after |-> buf, ok |-> FALSE],
                 Effect(capFile, capObj, f, r, buf, FALSE))
    BY <1>5 DEF CapIoctlFails
  <2> DEFINE rec == [type |-> "ioctl", fd |-> f, req |-> r,
                     before |-> buf, after |-> buf, ok |-> FALSE]
             e == Effect(capFile, capObj, f, r, buf, FALSE)
  <2>2. Logged(rec, e)
    BY <2>b
  <2>3. rec \in Record /\ e \in Effects
    BY <1>0, IoctlRecType, EffectType DEF Arguments
  <2>r. /\ rec.type = "ioctl" /\ rec.fd = f /\ rec.req = r
        /\ rec.before = buf /\ rec.after = buf /\ rec.ok = FALSE
        /\ e = Effect(capFile, capObj, f, r, buf, FALSE)
    OBVIOUS
  <2> HIDE DEF rec, e
  <2>4. /\ trace'[n] = rec /\ meant'[n] = e
        /\ \A k \in 1..(n - 1) : trace'[k] = trace[k] /\ meant'[k] = meant[k]
    BY <2>2, <2>3, LoggedFacts
  <2>5. \A g \in Fd : ~OpensAt(trace', n, g) /\ ~ClosesAt(trace', n, g)
    BY <2>4, <2>r DEF OpensAt, ClosesAt
  <2>6. \A h \in Handle : /\ ~AllocsAt(trace', n, h)
                          /\ ~DestroysAt(trace', meant', n, capObj[h])
    BY <2>4, <2>r DEF AllocsAt, Allocates, DestroysAt
  <2>7. Meaning(trace', meant', n)
    <3>0. /\ trace'[n].fd = f /\ trace'[n].req = r /\ trace'[n].before = buf
          /\ meant'[n] = Effect(capFile, capObj, f, r, buf, FALSE)
      BY <2>4, <2>r
    <3>1. /\ NamesFile(trace', f, meant'[n].file, n)
          /\ \A o \in Offset : FieldMeaning(trace', meant', n, o)
      BY <1>0, <2>1, <2>4, <3>0, ArgumentMeaning
    <3>2. meant'[n].ok = trace'[n].ok
      <4>1. e.ok = rec.ok
        BY <2>r, Zenon DEF Effect
      <4> QED
        BY <2>4, <4>1
    <3> QED
      BY <2>4, <2>r, <3>1, <3>2 DEF Meaning, Allocates
  <2>8. (\A g \in Fd : capFile'[g] = capFile[g]) /\ (\A h \in Handle : capObj'[h] = capObj[h])
    BY <2>1
  <2> QED
    BY <2>2, <2>3, <2>5, <2>6, <2>7, <2>8, LoggedInv
<1>6. ASSUME CapEnd PROVE CaptureInv'
  BY <1>0, <1>6 DEF CapEnd, CaptureInv
<1> QED
  BY <1>1, <1>2, <1>3, <1>4, <1>5, <1>6 DEF CaptureNext

-----------------------------------------------------------------------------
(* The replay.                                                             *)

LEMMA ReplayedFacts ==
    ASSUME TypeOK, AtRecord, NEW e \in Effects, Replayed(e)
    PROVE  /\ pos \in Nat /\ pos >= 1 /\ pos <= Len(trace) /\ Len(trace) \in Nat
           /\ pos' = pos + 1 /\ Len(reached') = pos /\ Len(reached) = pos - 1
           /\ \A k \in 1..(pos - 1) : reached'[k] = reached[k]
           /\ reached'[pos] = e
           /\ UNCHANGED capVars
BY DEF TypeOK, AtRecord, Replayed

(* A record that reached its counterpart keeps the property.               *)
LEMMA CounterpartStep ==
    ASSUME TypeOK, AtRecord, CounterpartUntilDivergence,
           NEW e \in Effects, Replayed(e),
           event.type \in {"ioctl", "close"} /\ SameOutcomes(pos) =>
              e.file = meant[pos].file /\ e.ref = meant[pos].ref
    PROVE  CounterpartUntilDivergence'
<1>1. /\ pos \in Nat /\ pos >= 1 /\ Len(reached') = pos /\ Len(reached) = pos - 1
      /\ \A k \in 1..(pos - 1) : reached'[k] = reached[k]
      /\ reached'[pos] = e /\ trace' = trace /\ meant' = meant
  BY ReplayedFacts DEF capVars
<1> SUFFICES ASSUME NEW i \in 1..pos, trace[i].type \in {"ioctl", "close"},
                    \A k \in 1..(i - 1) : reached'[k].ok = meant[k].ok
             PROVE  reached'[i].file = meant[i].file /\ reached'[i].ref = meant[i].ref
  BY <1>1 DEF CounterpartUntilDivergence, SameOutcomes
<1>2. SameOutcomes(i)
  BY <1>1 DEF SameOutcomes
<1>3. CASE i = pos
  BY <1>1, <1>2, <1>3 DEF event
<1>4. CASE i # pos
  BY <1>1, <1>2, <1>4 DEF CounterpartUntilDivergence
<1> QED
  BY <1>3, <1>4

(* The maps follow the trace if they keep what record pos leaves alone and *)
(* take up what it opens or allocates.                                     *)
LEMMA MapsStep ==
    ASSUME TypeOK, MapsInv, AtRecord, NEW e \in Effects, Replayed(e),
           SameOutcomes(pos) /\ e.ok = meant[pos].ok =>
             /\ \A f \in Fd : \A i \in 1..(pos - 1) :
                  /\ NamesFile(trace, f, i, pos)
                  /\ ~OpensAt(trace, pos, f) /\ ~ClosesAt(trace, pos, f)
                  /\ fdMap[f] # None /\ liveFile[fdMap[f]] = i
                  => fdMap'[f] # None /\ liveFile'[fdMap'[f]] = i
             /\ \A f \in Fd : OpensAt(trace, pos, f)
                  => fdMap'[f] # None /\ liveFile'[fdMap'[f]] = pos
             /\ \A h \in Handle : \A i \in 1..(pos - 1) :
                  /\ NamesObject(trace, meant, h, i, pos)
                  /\ ~AllocsAt(trace, pos, h) /\ ~DestroysAt(trace, meant, pos, i)
                  /\ handleMap[h] # None /\ liveObj[handleMap[h]] = i
                  => handleMap'[h] # None /\ liveObj'[handleMap'[h]] = i
             /\ \A h \in Handle : AllocsAt(trace, pos, h)
                  => handleMap'[h] # None /\ liveObj'[handleMap'[h]] = pos
    PROVE  MapsInv'
<1>1. /\ pos \in Nat /\ pos >= 1 /\ pos' = pos + 1
      /\ \A k \in 1..(pos - 1) : reached'[k] = reached[k]
      /\ reached'[pos] = e /\ trace' = trace /\ meant' = meant
  BY ReplayedFacts DEF capVars
<1> SUFFICES ASSUME \A k \in 1..pos : reached'[k].ok = meant[k].ok
             PROVE  /\ \A f \in Fd : \A i \in 1..pos : NamesFile(trace, f, i, pos + 1) =>
                           fdMap'[f] # None /\ liveFile'[fdMap'[f]] = i
                    /\ \A h \in Handle : \A i \in 1..pos :
                          NamesObject(trace, meant, h, i, pos + 1) =>
                             handleMap'[h] # None /\ liveObj'[handleMap'[h]] = i
  BY <1>1 DEF MapsInv, SameOutcomes
<1>2. SameOutcomes(pos) /\ e.ok = meant[pos].ok
  BY <1>1 DEF SameOutcomes
<1>3. ASSUME NEW f \in Fd, NEW i \in 1..pos, NamesFile(trace, f, i, pos + 1)
      PROVE  fdMap'[f] # None /\ liveFile'[fdMap'[f]] = i
  <2>1. \/ i = pos /\ OpensAt(trace, pos, f)
        \/ NamesFile(trace, f, i, pos) /\ ~OpensAt(trace, pos, f) /\ ~ClosesAt(trace, pos, f)
    BY <1>1, <1>3, StepFile
  <2>2. CASE i = pos /\ OpensAt(trace, pos, f)
    BY <1>2, <2>2
  <2>3. CASE /\ NamesFile(trace, f, i, pos)
             /\ ~OpensAt(trace, pos, f) /\ ~ClosesAt(trace, pos, f)
    <3>1. i \in 1..(pos - 1)
      BY <2>3 DEF NamesFile
    <3> QED
      BY <1>2, <2>3, <3>1 DEF MapsInv
  <2> QED
    BY <2>1, <2>2, <2>3
<1>4. ASSUME NEW h \in Handle, NEW i \in 1..pos, NamesObject(trace, meant, h, i, pos + 1)
      PROVE  handleMap'[h] # None /\ liveObj'[handleMap'[h]] = i
  <2>1. \/ i = pos /\ AllocsAt(trace, pos, h)
        \/ /\ NamesObject(trace, meant, h, i, pos)
           /\ ~AllocsAt(trace, pos, h) /\ ~DestroysAt(trace, meant, pos, i)
    BY <1>1, <1>4, StepObject
  <2>2. CASE i = pos /\ AllocsAt(trace, pos, h)
    BY <1>2, <2>2
  <2>3. CASE /\ NamesObject(trace, meant, h, i, pos)
             /\ ~AllocsAt(trace, pos, h) /\ ~DestroysAt(trace, meant, pos, i)
    <3>1. i \in 1..(pos - 1)
      BY <2>3 DEF NamesObject
    <3> QED
      BY <1>2, <2>3, <3>1 DEF MapsInv
  <2> QED
    BY <2>1, <2>2, <2>3
<1> QED
  BY <1>3, <1>4

(* With a complete schema, patching turns an argument into one that names  *)
(* the live counterparts.                                                  *)
LEMMA PatchedReaches ==
    ASSUME SchemaComplete, TypeOK, CaptureInv, MapsInv, SameOutcomes(pos),
           AtRecord, IsIoctl(event)
    PROVE  /\ fdMap[event.fd] # None
           /\ liveFile[fdMap[event.fd]] = meant[pos].file
           /\ \A o \in Offset :
                 Referent(liveFile, liveObj, event.req, Patched(event), o) = meant[pos].ref[o]
           /\ \A o \in Layout[event.req].in : event.before[o] \in Handle =>
                 /\ Patched(event)[o] = handleMap[event.before[o]]
                 /\ handleMap[event.before[o]] # None
           /\ \A o \in Layout[event.req].in : event.before[o] = None =>
                 Patched(event)[o] = None
<1> DEFINE r == event.req
           s == SchemaOf(r)
           before == event.before
           in == PatchInput(before, s)
           out == Patched(event)
<1>1. pos \in 1..Len(trace) /\ pos \in Nat
  BY DEF AtRecord, TypeOK
<1>2. event \in Record /\ event.type = "ioctl"
  BY <1>1 DEF TypeOK, event, IsIoctl
<1>3. event.fd \in Fd /\ r \in Req /\ before \in [Layout[r].ext -> Value]
  BY <1>2, RecordFields
<1>4. /\ NamesFile(trace, event.fd, meant[pos].file, pos)
      /\ \A o \in Offset : FieldMeaning(trace, meant, pos, o)
  BY <1>1, <1>2 DEF CaptureInv, Meaning, event
<1>5. fdMap[event.fd] # None /\ liveFile[fdMap[event.fd]] = meant[pos].file
  BY <1>3, <1>4 DEF MapsInv, NamesFile
<1>6. /\ s.in \cap Layout[r].ext = Layout[r].in
      /\ s.fds \cap Layout[r].ext = Layout[r].fds
      /\ Layout[r].in \cap Layout[r].fds = {}
      /\ Layout[r].in \subseteq Layout[r].ext /\ Layout[r].fds \subseteq Layout[r].ext
      /\ Layout[r].ext \subseteq Offset
  BY <1>3, LayoutAssumption DEF SchemaComplete, LayoutType
<1>7. \A o \in Layout[r].ext :
         in[o] = IF o \in s.in /\ before[o] \in Handle /\ handleMap[before[o]] # None
                 THEN handleMap[before[o]] ELSE before[o]
  BY <1>3 DEF PatchInput
<1>8. DOMAIN in = Layout[r].ext
  BY <1>3 DEF PatchInput
<1> HIDE DEF in
<1>9. \A o \in Layout[r].ext :
         out[o] = IF o \in s.fds /\ in[o] \in Fd /\ fdMap[in[o]] # None
                  THEN fdMap[in[o]] ELSE in[o]
  BY <1>8 DEF Patched, PatchFds, in
<1> HIDE DEF out, s
<1>10. ASSUME NEW o \in Layout[r].in, before[o] \in Handle
       PROVE  /\ handleMap[before[o]] # None /\ out[o] = handleMap[before[o]]
              /\ liveObj[handleMap[before[o]]] = meant[pos].ref[o]
  <2>1. NamesObject(trace, meant, before[o], meant[pos].ref[o], pos)
    BY <1>4, <1>6, <1>10, ValueAssumption DEF FieldMeaning, event
  <2>2. handleMap[before[o]] # None /\ liveObj[handleMap[before[o]]] = meant[pos].ref[o]
    BY <1>10, <2>1 DEF MapsInv, NamesObject
  <2>3. o \in Layout[r].ext /\ o \in s.in /\ o \notin s.fds
    BY <1>6
  <2> QED
    BY <1>7, <1>9, <1>10, <2>2, <2>3
<1>11. ASSUME NEW o \in Layout[r].in, before[o] = None
       PROVE  out[o] = None /\ meant[pos].ref[o] = 0
  <2>1. o \in Layout[r].ext /\ o \in s.in /\ o \notin s.fds
    BY <1>6
  <2>2. meant[pos].ref[o] = 0
    BY <1>4, <1>6, <1>11 DEF FieldMeaning, event
  <2> QED
    BY <1>7, <1>9, <1>11, <2>1, <2>2, ValueAssumption
<1>12. ASSUME NEW o \in Layout[r].fds
       PROVE  out[o] \in Fd /\ liveFile[out[o]] = meant[pos].ref[o]
  <2>1. before[o] \in Fd /\ NamesFile(trace, before[o], meant[pos].ref[o], pos)
    BY <1>4, <1>6 DEF FieldMeaning, event
  <2>2. fdMap[before[o]] # None /\ liveFile[fdMap[before[o]]] = meant[pos].ref[o]
    BY <2>1 DEF MapsInv, NamesFile
  <2>3. o \in Layout[r].ext /\ o \in s.fds /\ o \notin s.in
    BY <1>6
  <2>4. out[o] = fdMap[before[o]]
    BY <1>7, <1>9, <2>1, <2>2, <2>3
  <2> QED
    BY <2>1, <2>2, <2>4 DEF TypeOK
<1>13. ASSUME NEW o \in Offset
       PROVE  Referent(liveFile, liveObj, r, out, o) = meant[pos].ref[o]
  <2>1. CASE o \in Layout[r].in
    <3>1. o \notin Layout[r].fds
      BY <1>6, <2>1
    <3>2. before[o] \in Handle \/ before[o] = None
      BY <1>4, <1>6, <2>1 DEF FieldMeaning, event
    <3>3. CASE before[o] \in Handle
      <4>1. out[o] \in Handle /\ liveObj[out[o]] = meant[pos].ref[o]
        BY <1>10, <2>1, <3>3 DEF TypeOK
      <4> QED
        BY <2>1, <3>1, <4>1 DEF Referent
    <3>4. CASE before[o] = None
      BY <1>11, <2>1, <3>1, <3>4, ValueAssumption DEF Referent
    <3> QED
      BY <3>2, <3>3, <3>4
  <2>2. CASE o \in Layout[r].fds
    BY <1>6, <1>12, <2>2 DEF Referent
  <2>3. CASE o \notin Layout[r].in /\ o \notin Layout[r].fds
    BY <1>4, <2>3 DEF Referent, FieldMeaning, event
  <2> QED
    BY <2>1, <2>2, <2>3
<1> QED
  BY <1>5, <1>10, <1>11, <1>13 DEF out

(* A record that is neither an ioctl nor a close, and opens nothing, or    *)
(* one whose outcome differs, may leave the maps as they are.              *)
LEMMA UnchangedMapsStep ==
    ASSUME TypeOK, MapsInv, AtRecord, NEW e \in Effects, Replayed(e),
           UNCHANGED <<fdMap, handleMap, liveFile, liveObj>>,
           SameOutcomes(pos) /\ e.ok = meant[pos].ok =>
             /\ \A f \in Fd : ~OpensAt(trace, pos, f)
             /\ \A h \in Handle : ~AllocsAt(trace, pos, h)
    PROVE  MapsInv'
BY MapsStep

(* A successful ioctl keeps the objects of the capture mapped, and maps    *)
(* the object it creates.                                                  *)
LEMMA IoctlStep ==
    ASSUME SchemaComplete, TypeOK, CaptureInv, MapsInv, CounterpartUntilDivergence,
           ReplayIoctl
    PROVE  MapsInv' /\ CounterpartUntilDivergence'
<1> DEFINE f == fdMap[event.fd]
           r == event.req
           buf == Patched(event)
           e == Effect(liveFile, liveObj, f, r, buf, TRUE)
<1>1. /\ AtRecord /\ IsIoctl(event) /\ f # None /\ Replayed(e)
      /\ UNCHANGED <<fdMap, liveFile>>
  BY DEF ReplayIoctl
<1>2. PICK result \in Results(liveObj, r, buf) :
        /\ liveObj' = ObjectsAfter(liveObj, r, buf, result, pos)
        /\ handleMap' = LearnOutput(event.after, result, SchemaOf(r))
  BY DEF ReplayIoctl
<1>3. pos \in 1..Len(trace) /\ pos \in Nat /\ event \in Record /\ event.type = "ioctl"
  BY <1>1 DEF AtRecord, TypeOK, event, IsIoctl
<1>4. /\ event.fd \in Fd /\ r \in Req
      /\ event.before \in [Layout[r].ext -> Value]
      /\ event.after \in [Layout[r].ext -> Value]
  BY <1>3, RecordFields
<1>5. f \in Fd
  BY <1>1, <1>4 DEF TypeOK
<1>6. /\ \E n \in Nat : liveFile \in [Fd -> 0..n] /\ liveObj \in [Handle -> 0..n]
      /\ liveObj \in [Handle -> Nat]
  BY DEF TypeOK
<1>7. e \in Effects
  BY <1>4, <1>5, <1>6, EffectType
<1>8. buf \in [Layout[r].ext -> Value] /\ result \in Results(liveObj, r, buf)
  BY <1>4, PatchedType, TypeOKSplit
<1> HIDE DEF buf
<1>9. /\ result \in [Layout[r].ext -> Value]
      /\ Layout[r].out # None => /\ result[Layout[r].out] \in Handle
                                 /\ liveObj[result[Layout[r].out]] = 0
  <2>1. ASSUME NEW q \in Req, NEW b \in [Layout[q].ext -> Value],
               NEW res \in Results(liveObj, q, b)
        PROVE  /\ res \in [Layout[q].ext -> Value]
               /\ Layout[q].out # None => /\ res[Layout[q].out] \in Handle
                                          /\ liveObj[res[Layout[q].out]] = 0
    BY ResultsType
  <2> QED
    BY <1>4, <1>8, <2>1
<1>10. /\ e.file = liveFile[f]
       /\ e.ref = [o \in Offset |-> Referent(liveFile, liveObj, r, buf, o)]
  BY DEF Effect
<1>11. meant[pos] \in Effects /\ (meant[pos].ok = trace[pos].ok)
       /\ (Allocates(trace, pos) => trace[pos].after[Layout[r].out] \in Handle)
  BY <1>3 DEF TypeOK, CaptureInv, Meaning, event
<1>12. e.ok = TRUE
  BY DEF Effect
<1> HIDE DEF e, buf
<1>13. ASSUME SameOutcomes(pos)
       PROVE  e.file = meant[pos].file /\ e.ref = meant[pos].ref
  <2>1. /\ liveFile[f] = meant[pos].file
        /\ \A o \in Offset : Referent(liveFile, liveObj, r, buf, o) = meant[pos].ref[o]
    BY <1>1, <1>13, PatchedReaches DEF buf
  <2>2. meant[pos].ref \in [Offset -> Nat]
    BY <1>11 DEF Effects
  <2> QED
    BY <1>10, <2>1, <2>2
<1>14. CounterpartUntilDivergence'
  BY <1>1, <1>7, <1>13, CounterpartStep
<1>15. /\ Layout[r].out = None => SchemaOf(r).out \notin Layout[r].ext
       /\ Layout[r].out # None => SchemaOf(r).out = Layout[r].out
       /\ Layout[r].out \in Layout[r].ext \cup {None}
  BY <1>4, LayoutAssumption, ValueAssumption DEF SchemaComplete, LayoutType
<1>16. /\ Layout[r].out = None => handleMap' = handleMap
       /\ Layout[r].out # None /\ event.after[Layout[r].out] \in Handle =>
            handleMap' = [handleMap EXCEPT ![event.after[Layout[r].out]]
                                              = result[Layout[r].out]]
       /\ Layout[r].out # None /\ event.after[Layout[r].out] \notin Handle =>
            handleMap' = handleMap
  <2>1. DOMAIN event.after = Layout[r].ext /\ DOMAIN result = Layout[r].ext
    BY <1>4, <1>9
  <2>2. /\ Layout[r].out = None => OutputOf(event.after, SchemaOf(r)) = None
        /\ Layout[r].out # None =>
              /\ OutputOf(event.after, SchemaOf(r)) = event.after[Layout[r].out]
              /\ OutputOf(result, SchemaOf(r)) = result[Layout[r].out]
    BY <1>15, <2>1 DEF OutputOf
  <2> QED
    BY <1>2, <1>9, <2>2, ValueAssumption DEF LearnOutput
<1>17. ASSUME SameOutcomes(pos), e.ok = meant[pos].ok
       PROVE  /\ \A h \in Handle : \A i \in 1..(pos - 1) :
                  /\ NamesObject(trace, meant, h, i, pos)
                  /\ ~AllocsAt(trace, pos, h) /\ ~DestroysAt(trace, meant, pos, i)
                  /\ handleMap[h] # None /\ liveObj[handleMap[h]] = i
                  => handleMap'[h] # None /\ liveObj'[handleMap'[h]] = i
              /\ \A h \in Handle : AllocsAt(trace, pos, h)
                  => handleMap'[h] # None /\ liveObj'[handleMap'[h]] = pos
  <2>0. trace[pos].ok /\ trace[pos] = event /\ trace[pos].req = r /\ IsIoctl(trace[pos])
    BY <1>1, <1>11, <1>12, <1>17 DEF event
  <2>1. ASSUME NEW h \in Handle, NEW i \in 1..(pos - 1),
               ~AllocsAt(trace, pos, h), ~DestroysAt(trace, meant, pos, i),
               handleMap[h] # None, liveObj[handleMap[h]] = i
        PROVE  handleMap'[h] # None /\ liveObj'[handleMap'[h]] = i
    <3>1. handleMap'[h] = handleMap[h] /\ handleMap[h] \in Handle
      <4>1. handleMap \in [Handle -> Handle \cup {None}]
        BY DEF TypeOK
      <4>2. ~(Layout[r].out # None /\ event.after[Layout[r].out] = h)
        BY <2>0, <2>1 DEF AllocsAt, Allocates
      <4> QED
        BY <1>16, <2>1, <4>1, <4>2
    <3>2. ~(Layout[r].out # None /\ result[Layout[r].out] = handleMap[h])
      BY <1>3, <1>9, <2>1
    <3>3. handleMap[h] \notin Freed(r, buf)
      <4>1. SUFFICES ASSUME r \in Frees, NEW o \in Layout[r].in, buf[o] = handleMap[h]
                     PROVE  FALSE
        BY DEF Freed
      <4>2. o \in Offset /\ o \in Layout[r].ext
        BY <1>4, LayoutAssumption DEF LayoutType
      <4>3. event.before[o] # None
        BY <1>1, <1>17, <2>1, <4>1, PatchedReaches DEF buf
      <4>4. meant[pos].ref[o] = Referent(liveFile, liveObj, r, buf, o)
        BY <1>1, <1>17, <4>2, PatchedReaches DEF buf
      <4>5. o \notin Layout[r].fds
        BY <1>4, LayoutAssumption
      <4>6. meant[pos].ref[o] = i
        BY <2>1, <3>1, <4>1, <4>4, <4>5 DEF Referent
      <4> QED
        BY <2>0, <2>1, <4>1, <4>3, <4>6 DEF DestroysAt
    <3>4. liveObj'[handleMap[h]] = liveObj[handleMap[h]]
      BY <1>2, <3>1, <3>2, <3>3 DEF ObjectsAfter
    <3> QED
      BY <2>1, <3>1, <3>4
  <2>2. ASSUME NEW h \in Handle, AllocsAt(trace, pos, h)
        PROVE  handleMap'[h] # None /\ liveObj'[handleMap'[h]] = pos
    <3>1. Layout[r].out # None /\ event.after[Layout[r].out] = h
      BY <2>0, <2>2 DEF AllocsAt, Allocates
    <3>2. handleMap'[h] = result[Layout[r].out] /\ result[Layout[r].out] \in Handle
      BY <1>9, <1>16, <3>1 DEF TypeOK
    <3>3. liveObj'[result[Layout[r].out]] = pos
      BY <1>2, <3>1, <3>2 DEF ObjectsAfter
    <3> QED
      BY <3>2, <3>3, ValueAssumption
  <2> QED
    BY <2>1, <2>2
<1>18. \A g \in Fd : ~OpensAt(trace, pos, g)
  BY <1>3 DEF OpensAt, event
<1>19. MapsInv'
  BY <1>1, <1>7, <1>17, <1>18, MapsStep
<1> QED
  BY <1>14, <1>19

(* A close reaches the counterpart and keeps the rest mapped.              *)
LEMMA CloseStep ==
    ASSUME TypeOK, CaptureInv, MapsInv, CounterpartUntilDivergence, ReplayClose
    PROVE  MapsInv' /\ CounterpartUntilDivergence'
<1> DEFINE f == fdMap[event.fd]
<1>1. AtRecord /\ event.type = "close" /\ UNCHANGED <<fdMap, handleMap>>
  BY DEF ReplayClose, mapVars
<1>2. pos \in 1..Len(trace) /\ pos \in Nat /\ event \in Record
  BY <1>1 DEF AtRecord, TypeOK, event
<1>3. event.fd \in Fd
  BY <1>1, <1>2, RecordFields
<1>4. /\ NamesFile(trace, event.fd, meant[pos].file, pos)
      /\ meant[pos] = FileEffect(meant[pos].file)
  BY <1>1, <1>2 DEF CaptureInv, Meaning, event
<1>5. meant[pos].file \in 1..(pos - 1)
  BY <1>4 DEF NamesFile
<1>6. SameOutcomes(pos) => f # None /\ liveFile[f] = meant[pos].file
  BY <1>3, <1>4, <1>5 DEF MapsInv
<1>7. \A g : ~OpensAt(trace, pos, g) /\ ~AllocsAt(trace, pos, g)
  BY <1>1 DEF OpensAt, AllocsAt, Allocates, IsIoctl, event
<1>8. CASE f # None /\ liveFile[f] # 0
  <2>1. /\ liveFile' = [liveFile EXCEPT ![f] = 0]
        /\ liveObj' = ObjectsOutliving(liveObj, reached, liveFile[f])
        /\ Replayed(FileEffect(liveFile[f]))
    BY <1>8 DEF ReplayClose
  <2>2. f \in Fd /\ liveFile[f] \in Nat /\ liveFile \in [Fd -> Nat]
    BY <1>3, <1>8 DEF TypeOK
  <2>3. FileEffect(liveFile[f]) \in Effects
    BY <2>2, FileEffectType
  <2>4. SameOutcomes(pos) => FileEffect(liveFile[f]) = meant[pos]
    BY <1>4, <1>6
  <2>5. CounterpartUntilDivergence'
    BY <1>1, <2>1, <2>3, <2>4, CounterpartStep
  <2>6. ASSUME SameOutcomes(pos), NEW g \in Fd, NEW i \in 1..(pos - 1),
               NamesFile(trace, g, i, pos), ~ClosesAt(trace, pos, g),
               fdMap[g] # None, liveFile[fdMap[g]] = i
        PROVE  fdMap'[g] # None /\ liveFile'[fdMap'[g]] = i
    <3>1. g # event.fd
      BY <1>1, <2>6 DEF ClosesAt, event
    <3>2. i # meant[pos].file
      BY <1>4, <2>6, <3>1 DEF NamesFile, OpensAt
    <3>3. fdMap[g] # f
      BY <1>6, <2>6, <3>2
    <3>4. fdMap[g] \in Fd
      BY <2>6 DEF TypeOK
    <3> QED
      BY <1>1, <2>1, <2>2, <2>6, <3>3, <3>4
  <2>7. ASSUME SameOutcomes(pos), NEW h \in Handle, NEW i \in 1..(pos - 1),
               NamesObject(trace, meant, h, i, pos), ~DestroysAt(trace, meant, pos, i),
               handleMap[h] # None, liveObj[handleMap[h]] = i
        PROVE  handleMap'[h] # None /\ liveObj'[handleMap'[h]] = i
    <3>1. trace[i].type = "ioctl"
      BY <2>7 DEF NamesObject, AllocsAt, Allocates, IsIoctl
    <3>2. SameOutcomes(i)
      BY <1>2, <2>7 DEF SameOutcomes
    <3>3. i \in 1..Len(reached)
      BY <1>2 DEF TypeOK
    <3>4. reached[i].file = meant[i].file
      BY <3>1, <3>2, <3>3 DEF CounterpartUntilDivergence
    <3>5. meant[i].file # meant[pos].file
      BY <1>1, <2>7 DEF DestroysAt, event
    <3>6. handleMap[h] \in Handle
      BY <2>7 DEF TypeOK
    <3> QED
      BY <1>1, <1>6, <2>1, <2>7, <3>4, <3>5, <3>6 DEF ObjectsOutliving
  <2>8. MapsInv'
    BY <1>1, <1>7, <2>1, <2>3, <2>6, <2>7, MapsStep
  <2> QED
    BY <2>5, <2>8
<1>9. CASE ~(f # None /\ liveFile[f] # 0)
  <2>1. Replayed(Failure) /\ UNCHANGED <<liveFile, liveObj>> /\ Failure \in Effects
    BY <1>9, FileEffectType DEF ReplayClose, liveVars
  <2>2. ~SameOutcomes(pos)
    BY <1>5, <1>6, <1>9
  <2>3. CounterpartUntilDivergence'
    BY <1>1, <2>1, <2>2, CounterpartStep
  <2>4. MapsInv'
    BY <1>1, <2>1, <2>2, UnchangedMapsStep
  <2> QED
    BY <2>3, <2>4
<1> QED
  BY <1>8, <1>9

(* Every step of the replayer keeps the two halves of the invariant.       *)
LEMMA ReplayInvStep ==
    ASSUME SchemaComplete, TypeOK, CaptureInv, MapsInv, CounterpartUntilDivergence,
           ReplayStep
    PROVE  MapsInv' /\ CounterpartUntilDivergence'
<1> USE DEF mapVars, countVars, liveVars
<1>0. AtRecord => pos \in 1..Len(trace)
  BY DEF AtRecord, TypeOK
<1>1. CASE Load
  BY <1>1 DEF Load, Exit, MapsInv, CounterpartUntilDivergence, SameOutcomes
<1>2. CASE ReplayFailedOpen
  <2>1. /\ AtRecord /\ Replayed(Nothing) /\ Nothing \in Effects
        /\ UNCHANGED <<fdMap, handleMap, liveFile, liveObj>>
        /\ event.type = "open" /\ event.ret = None
    BY <1>2, FileEffectType DEF ReplayFailedOpen
  <2>2. /\ \A f \in Fd : ~OpensAt(trace, pos, f)
        /\ \A h \in Handle : ~AllocsAt(trace, pos, h)
    BY <2>1, ValueAssumption DEF OpensAt, AllocsAt, Allocates, IsIoctl, event
  <2> QED
    BY <2>1, <2>2, UnchangedMapsStep, CounterpartStep
<1>3. CASE ReplayOpen
  <2>1. /\ AtRecord /\ Replayed(FileEffect(pos)) /\ event.type = "open"
        /\ UNCHANGED <<handleMap, liveObj>>
    BY <1>3 DEF ReplayOpen, IsOpen
  <2>2. FileEffect(pos) \in Effects /\ pos \in Nat /\ pos >= 1 /\ event \in Record
    BY <1>0, <2>1, FileEffectType DEF TypeOK, event
  <2>3. PICK f \in Fd : /\ liveFile[f] = 0
                        /\ liveFile' = [liveFile EXCEPT ![f] = pos]
                        /\ fdMap' = [fdMap EXCEPT ![event.ret] = f]
    BY <1>3 DEF ReplayOpen
  <2>4. event.ret \in Fd
    BY <1>3, <2>2, RecordFields DEF ReplayOpen, IsOpen
  <2>5. \A g \in Fd : OpensAt(trace, pos, g) <=> g = event.ret
    BY <2>1 DEF OpensAt, event
  <2>6. ASSUME NEW g \in Fd, NEW i \in 1..(pos - 1), ~OpensAt(trace, pos, g),
               fdMap[g] # None, liveFile[fdMap[g]] = i
        PROVE  fdMap'[g] # None /\ liveFile'[fdMap'[g]] = i
    BY <2>3, <2>5, <2>6 DEF TypeOK
  <2>7. \A g \in Fd : OpensAt(trace, pos, g)
            => fdMap'[g] # None /\ liveFile'[fdMap'[g]] = pos
    BY <2>3, <2>4, <2>5, ValueAssumption DEF TypeOK
  <2>8. \A h \in Handle : ~AllocsAt(trace, pos, h)
    BY <2>1 DEF AllocsAt, Allocates, IsIoctl, event
  <2>9. MapsInv'
    BY <2>1, <2>2, <2>6, <2>7, <2>8, MapsStep
  <2> QED
    BY <2>1, <2>2, <2>9, CounterpartStep
<1>4. CASE ReplayOpenError
  <2>1. /\ AtRecord /\ Replayed(Failure) /\ Failure \in Effects
        /\ UNCHANGED <<fdMap, handleMap, liveFile, liveObj>>
        /\ event.type = "open"
    BY <1>4, FileEffectType DEF ReplayOpenError, IsOpen
  <2>2. meant[pos].ok
    BY <1>0, <2>1 DEF CaptureInv, Meaning, event
  <2>3. Failure.ok = FALSE
    BY DEF Failure, Nothing, FileEffect
  <2> QED
    BY <2>1, <2>2, <2>3, UnchangedMapsStep, CounterpartStep
<1>5. CASE ReplayOpenDenied
  BY <1>5 DEF ReplayOpenDenied, Exit, MapsInv, CounterpartUntilDivergence, SameOutcomes
<1>6. CASE ReplayClose
  BY <1>6, CloseStep
<1>7. CASE ReplaySkip
  <2>1. /\ AtRecord /\ Replayed(Failure) /\ Failure \in Effects
        /\ UNCHANGED <<fdMap, handleMap, liveFile, liveObj>>
        /\ IsIoctl(event) /\ fdMap[event.fd] = None
    BY <1>7, FileEffectType DEF ReplaySkip
  <2>2. ~SameOutcomes(pos)
    BY <2>1, PatchedReaches
  <2> QED
    BY <2>1, <2>2, UnchangedMapsStep, CounterpartStep
<1>8. CASE ReplayIoctl
  BY <1>8, IoctlStep
<1>9. CASE ReplayIoctlFails
  <2> DEFINE f == fdMap[event.fd]
             e == Effect(liveFile, liveObj, f, event.req, Patched(event), FALSE)
  <2>1. /\ AtRecord /\ Replayed(e) /\ IsIoctl(event) /\ f # None
        /\ UNCHANGED <<fdMap, handleMap, liveFile, liveObj>>
    BY <1>9 DEF ReplayIoctlFails
  <2>2. event \in Record /\ event.type = "ioctl"
    BY <1>0, <2>1 DEF TypeOK, event, IsIoctl
  <2>3. event.fd \in Fd /\ event.req \in Req
    BY <2>2, RecordFields
  <2>4. e \in Effects
    <3>1. f \in Fd /\ Len(reached) \in Nat
          /\ liveFile \in [Fd -> 0..Len(reached)] /\ liveObj \in [Handle -> 0..Len(reached)]
      BY <2>1, <2>3 DEF TypeOK
    <3> QED
      BY <2>3, <3>1, EffectType
  <2>5. /\ e.file = liveFile[f] /\ e.ok = FALSE
        /\ e.ref = [o \in Offset |->
                       Referent(liveFile, liveObj, event.req, Patched(event), o)]
    BY DEF Effect
  <2> HIDE DEF e
  <2>6. ASSUME SameOutcomes(pos) PROVE e.file = meant[pos].file /\ e.ref = meant[pos].ref
    <3>1. meant[pos] \in Effects
      BY <1>0, <2>1 DEF TypeOK
    <3>2. meant[pos].ref \in [Offset -> Nat]
      BY <3>1 DEF Effects
    <3> QED
      BY <2>1, <2>5, <2>6, <3>2, PatchedReaches
  <2>7. CounterpartUntilDivergence'
    BY <2>1, <2>4, <2>6, CounterpartStep
  <2>8. e.ok = meant[pos].ok => \A h \in Handle : ~AllocsAt(trace, pos, h)
    <3>1. meant[pos].ok = trace[pos].ok
      BY <1>0, <2>1, <2>2 DEF CaptureInv, Meaning, event
    <3> QED
      BY <2>5, <3>1 DEF AllocsAt, Allocates
  <2>9. \A g \in Fd : ~OpensAt(trace, pos, g)
    BY <2>2 DEF OpensAt, event
  <2>10. MapsInv'
    BY <2>1, <2>4, <2>8, <2>9, UnchangedMapsStep
  <2> QED
    BY <2>7, <2>10
<1>10. CASE Finish
  BY <1>10 DEF Finish, Exit, MapsInv, CounterpartUntilDivergence, SameOutcomes
<1> QED
  BY <1>1, <1>2, <1>3, <1>4, <1>5, <1>6, <1>7, <1>8, <1>9, <1>10 DEF ReplayStep

LEMMA InitInv == Init => IInv
<1> SUFFICES ASSUME Init PROVE IInv
  OBVIOUS
<1>1. TypeOK
  BY InitType
<1>2. /\ trace = <<>> /\ reached = <<>> /\ pos = 1 /\ Len(trace) = 0 /\ Len(reached) = 0
      /\ \A f \in Fd : capFile[f] = 0
      /\ \A h \in Handle : capObj[h] = 0
  BY DEF Init, CaptureInit
<1>3. CaptureInv
  BY <1>2 DEF CaptureInv
<1>4. MapsInv /\ CounterpartUntilDivergence
  BY <1>2 DEF MapsInv, CounterpartUntilDivergence
<1> QED
  BY <1>1, <1>3, <1>4 DEF IInv

LEMMA NextInv == SchemaComplete /\ IInv /\ [Next]_vars => IInv'
<1> SUFFICES ASSUME SchemaComplete, IInv, [Next]_vars PROVE IInv'
  OBVIOUS
<1>0. TypeOK /\ CaptureInv /\ MapsInv /\ CounterpartUntilDivergence /\ TypeOK'
  BY NextType DEF IInv
<1>1. CASE Capture
  <2>0. CaptureNext /\ UNCHANGED <<pos, fdMap, handleMap, liveFile, liveObj, reached>>
    BY <1>1 DEF Capture, replayVars
  <2>a. phase = "capture"
    BY <2>0 DEF CaptureNext, CapOpen, CapClose, CapOpenFails, CapIoctl, CapIoctlFails,
                CapEnd, Capturing
  <2>1. CaptureNext /\ UNCHANGED pos /\ pos' = 1 /\ Len(reached') = 0
    BY <1>0, <2>0, <2>a DEF CaptureInv, TypeOK
  <2>2. CaptureInv'
    BY <1>0, <2>1, CaptureStep
  <2>3. MapsInv' /\ CounterpartUntilDivergence'
    BY <2>1 DEF MapsInv, CounterpartUntilDivergence
  <2> QED
    BY <1>0, <2>2, <2>3 DEF IInv
<1>2. CASE ReplayStep
  <2>1. MapsInv' /\ CounterpartUntilDivergence'
    BY <1>0, <1>2, ReplayInvStep
  <2>2. UNCHANGED <<trace, meant, capFile, capObj>> /\ phase' # "capture"
    BY <1>2 DEF ReplayStep, Load, ReplayFailedOpen, ReplayOpen, ReplayOpenError,
                ReplayOpenDenied, ReplayClose, ReplaySkip, ReplayIoctl, ReplayIoctlFails,
                Finish, Exit, Replayed, capVars, AtRecord
  <2>3. CaptureInv'
    BY <1>0, <2>2 DEF CaptureInv
  <2> QED
    BY <1>0, <2>1, <2>3 DEF IInv
<1>3. CASE UNCHANGED vars
  BY <1>0, <1>3 DEF vars, capVars, replayVars, IInv, CaptureInv, MapsInv,
                    CounterpartUntilDivergence, SameOutcomes
<1> QED
  BY <1>1, <1>2, <1>3 DEF Next, Terminated

(* With a complete schema, at each point of a capture and of its replay    *)
(* the records say what every fd and handle names, and replay.py's fd and  *)
(* handle maps follow them until an outcome differs.                       *)
THEOREM ReplayInvariant ==
    ASSUME SchemaComplete
    PROVE  Spec => []IInv
<1>1. Init => IInv
  BY InitInv
<1>2. IInv /\ [Next]_vars => IInv'
  BY NextInv
<1> QED
  BY <1>1, <1>2, PTL DEF Spec

(* With a complete schema, every replayed call reaches the live            *)
(* counterpart of what the captured call reached, until an outcome         *)
(* differs: for all fds, handles, requests, layouts and trace lengths.     *)
THEOREM ReplayFaithful ==
    ASSUME SchemaComplete
    PROVE  Spec => []CounterpartUntilDivergence
<1>1. IInv => CounterpartUntilDivergence
  BY DEF IInv
<1> QED
  BY <1>1, ReplayInvariant, PTL

-----------------------------------------------------------------------------
(* The counts.                                                             *)

(* The ioctl records replayed so far, and those that succeeded.            *)
Issued == {i \in 1..Len(reached) : IsIoctl(trace[i])}
Succeeded == {i \in Issued : reached[i].ok}

CountInv == TypeOK /\ CountsAddUp /\ (phase = "capture" => pos = 1)

(* The parts of the type invariant that the counts and the maps need.      *)
LEMMA Types ==
    ASSUME TypeOK
    PROVE  /\ fdMap \in [Fd -> Fd \cup {None}]
           /\ liveFile \in [Fd -> 0..Len(reached)]
           /\ liveObj \in [Handle -> 0..Len(reached)]
           /\ Len(reached) \in Nat /\ Len(reached) = pos - 1 /\ Len(meant) = Len(trace)
           /\ pos \in 1..Len(trace) + 1 /\ trace \in Seq(Record) /\ Len(trace) \in Nat
           /\ total \in Nat /\ ok \in Nat /\ failed \in Nat /\ skipped \in Nat
           /\ meant \in Seq(Effects) /\ reached \in Seq(Effects)
BY DEF TypeOK

(* The next record is a record of the trace.                               *)
LEMMA EventType ==
    ASSUME TypeOK, AtRecord
    PROVE  pos \in 1..Len(trace) /\ event \in Record
<1>1. pos \in 1..Len(trace)
  BY Types DEF AtRecord
<1> QED
  BY <1>1, Types DEF event

(* One more record adds one element at most to each set.                   *)
LEMMA OneMore ==
    ASSUME TypeOK, AtRecord, NEW e \in Effects, Replayed(e)
    PROVE  /\ Issued' = IF IsIoctl(event) THEN Issued \cup {pos} ELSE Issued
           /\ Succeeded' = IF IsIoctl(event) /\ e.ok THEN Succeeded \cup {pos} ELSE Succeeded
           /\ IsFiniteSet(Issued) /\ IsFiniteSet(Succeeded)
           /\ pos \notin Issued /\ pos \notin Succeeded
           /\ Cardinality(Issued \cup {pos}) = Cardinality(Issued) + 1
           /\ Cardinality(Succeeded \cup {pos}) = Cardinality(Succeeded) + 1
<1>1. /\ pos \in Nat /\ pos >= 1 /\ Len(reached') = pos /\ Len(reached) = pos - 1
      /\ \A k \in 1..(pos - 1) : reached'[k] = reached[k]
      /\ reached'[pos] = e /\ trace' = trace
  BY ReplayedFacts DEF capVars
<1>2. 1..Len(reached') = (1..Len(reached)) \cup {pos} /\ pos \notin 1..Len(reached)
  BY <1>1
<1>3. Issued' = IF IsIoctl(event) THEN Issued \cup {pos} ELSE Issued
  BY <1>1, <1>2 DEF Issued, IsIoctl, event
<1>4. Succeeded' = IF IsIoctl(event) /\ e.ok THEN Succeeded \cup {pos} ELSE Succeeded
  BY <1>1, <1>2 DEF Issued, Succeeded, IsIoctl, event
<1>5. IsFiniteSet(1..(pos - 1)) /\ Issued \subseteq 1..(pos - 1) /\ Succeeded \subseteq Issued
  <2>1. IsFiniteSet(1..(pos - 1))
    BY <1>1, FS_Interval
  <2> QED
    BY <1>1, <2>1 DEF Issued, Succeeded
<1>6. IsFiniteSet(Issued) /\ IsFiniteSet(Succeeded)
  BY <1>5, FS_Subset
<1>7. pos \notin Issued /\ pos \notin Succeeded
  BY <1>1, <1>5
<1> QED
  BY <1>3, <1>4, <1>6, <1>7, FS_AddElement

(* The counts in the words of the two sets.                                *)
LEMMA CountsOfSets ==
    /\ CountsAddUp <=> /\ total = Cardinality(Issued)
                       /\ total = ok + failed + skipped
                       /\ ok = Cardinality(Succeeded)
    /\ CountsAddUp' <=> /\ total' = Cardinality(Issued')
                        /\ total' = ok' + failed' + skipped'
                        /\ ok' = Cardinality(Succeeded')
BY DEF CountsAddUp, Issued, Succeeded

(* Nothing is counted before the replay starts.                            *)
LEMMA InitCounts == Init => CountInv
<1> SUFFICES ASSUME Init PROVE CountInv
  OBVIOUS
<1>1. Issued = {} /\ Succeeded = {} /\ pos = 1
  BY DEF Init, Issued, Succeeded
<1>2. total = 0 /\ ok = 0 /\ failed = 0 /\ skipped = 0
  BY DEF Init
<1>3. CountsAddUp
  BY <1>1, <1>2, FS_EmptySet, CountsOfSets
<1> QED
  BY <1>1, <1>3, InitType DEF CountInv

(* A record that is not an ioctl leaves the counts alone, a skipped one    *)
(* and a failed one add to the total and to their own.                     *)
LEMMA StepCounts == CountInv /\ [Next]_vars => CountInv'
<1> SUFFICES ASSUME CountInv, [Next]_vars PROVE CountInv'
  OBVIOUS
<1>0. TypeOK /\ TypeOK'
  BY NextType DEF CountInv
<1> DEFINE Counts(n) == /\ total' = total + n /\ total \in Nat
                        /\ ok \in Nat /\ failed \in Nat /\ skipped \in Nat
<1>a. /\ CountsAddUp /\ (phase = "capture" => pos = 1)
      /\ total \in Nat /\ ok \in Nat /\ failed \in Nat /\ skipped \in Nat
  BY <1>0 DEF CountInv, TypeOK
<1>1. CASE Capture
  <2>1. phase = "capture" /\ UNCHANGED <<pos, total, ok, failed, skipped, reached>>
    BY <1>1 DEF Capture, replayVars, CaptureNext, CapOpen, CapClose, CapOpenFails, CapIoctl,
                CapIoctlFails, CapEnd, Capturing
  <2>2. Len(reached) = 0
    BY <1>0, <1>a, <2>1, Types
  <2>3. Issued = {} /\ Issued' = {} /\ Succeeded = {} /\ Succeeded' = {}
    BY <2>1, <2>2 DEF Issued, Succeeded
  <2> QED
    BY <1>0, <1>a, <2>1, <2>3, CountsOfSets DEF CountInv
<1>2. ASSUME NEW e \in Effects, AtRecord, Replayed(e), ~IsIoctl(event),
             UNCHANGED <<total, ok, failed, skipped>>
      PROVE  CountInv'
  <2>1. phase' = "replay"
    BY <1>2 DEF Replayed, AtRecord, capVars
  <2> QED
    BY <1>0, <1>a, <1>2, <2>1, OneMore, CountsOfSets DEF CountInv
<1>3. ASSUME NEW e \in Effects, AtRecord, Replayed(e), IsIoctl(event), total' = total + 1,
             \/ e.ok /\ ok' = ok + 1 /\ UNCHANGED <<failed, skipped>>
             \/ ~e.ok /\ failed' = failed + 1 /\ UNCHANGED <<ok, skipped>>
             \/ ~e.ok /\ skipped' = skipped + 1 /\ UNCHANGED <<ok, failed>>
      PROVE  CountInv'
  <2>1. phase' = "replay"
    BY <1>3 DEF Replayed, AtRecord, capVars
  <2>2. total' = Cardinality(Issued') /\ ok' = Cardinality(Succeeded')
    BY <1>0, <1>a, <1>3, OneMore, CountsOfSets
  <2>3. total' = ok' + failed' + skipped'
    BY <1>a, <1>3, CountsOfSets
  <2> QED
    BY <1>0, <2>1, <2>2, <2>3, CountsOfSets DEF CountInv
<1>4. CASE Load \/ ReplayOpenDenied \/ Finish
  <2>1. /\ UNCHANGED <<trace, reached, total, ok, failed, skipped>>
        /\ phase' # "capture"
    BY <1>4 DEF Load, ReplayOpenDenied, Finish, Exit, countVars
  <2> QED
    BY <1>0, <1>a, <2>1 DEF CountInv, CountsAddUp
<1>5. CASE ReplayFailedOpen \/ ReplayOpenError \/ ReplayOpen \/ ReplayClose
  <2>1. AtRecord /\ ~IsIoctl(event) /\ UNCHANGED <<total, ok, failed, skipped>>
    BY <1>5 DEF ReplayFailedOpen, ReplayOpenError, ReplayOpen, ReplayClose, countVars,
                IsIoctl, IsOpen
  <2>2. \E e \in Effects : Replayed(e)
    <3>1. pos \in Nat /\ \A f \in Fd : liveFile[f] \in Nat
      BY <1>0, Types
    <3>2. event.type = "close" => fdMap[event.fd] \in Fd \cup {None}
      BY <1>0, <2>1, Types, EventType, RecordFields
    <3> QED
      BY <1>5, <3>1, <3>2, FileEffectType
         DEF ReplayFailedOpen, ReplayOpenError, ReplayOpen, ReplayClose
  <2> QED
    BY <1>2, <2>1, <2>2
<1>6. CASE ReplaySkip
  <2>1. Failure \in Effects /\ ~Failure.ok
    BY FileEffectType DEF Failure, Nothing, FileEffect
  <2> QED
    BY <1>3, <1>6, <2>1 DEF ReplaySkip
<1>7. CASE ReplayIoctl \/ ReplayIoctlFails
  <2> DEFINE e(b) == Effect(liveFile, liveObj, fdMap[event.fd], event.req, Patched(event), b)
  <2>1. AtRecord /\ IsIoctl(event) /\ fdMap[event.fd] # None
    BY <1>7 DEF ReplayIoctl, ReplayIoctlFails
  <2>2. fdMap[event.fd] \in Fd /\ event.req \in Req
    BY <1>0, <2>1, Types, EventType, RecordFields DEF IsIoctl
  <2>3. \A b \in BOOLEAN : e(b) \in Effects /\ (e(b).ok <=> b)
    <3>1. Len(reached) \in Nat /\ liveFile \in [Fd -> 0..Len(reached)]
          /\ liveObj \in [Handle -> 0..Len(reached)]
      BY <1>0, Types
    <3>2. \A b \in BOOLEAN : e(b).ok <=> b
      BY DEF Effect
    <3> QED
      BY <2>2, <3>1, <3>2, EffectType
  <2>4. CASE ReplayIoctl
    <3>1. Replayed(e(TRUE)) /\ total' = total + 1 /\ ok' = ok + 1 /\ UNCHANGED <<failed, skipped>>
      BY <2>4 DEF ReplayIoctl
    <3> QED
      BY <1>3, <2>1, <2>3, <3>1
  <2>5. CASE ReplayIoctlFails
    <3>1. /\ Replayed(e(FALSE)) /\ total' = total + 1 /\ failed' = failed + 1
          /\ UNCHANGED <<ok, skipped>>
      BY <2>5 DEF ReplayIoctlFails
    <3> QED
      BY <1>3, <2>1, <2>3, <3>1
  <2> QED
    BY <1>7, <2>4, <2>5
<1>8. CASE UNCHANGED vars
  BY <1>0, <1>a, <1>8 DEF vars, capVars, replayVars, CountInv, CountsAddUp
<1> QED
  BY <1>1, <1>4, <1>5, <1>6, <1>7, <1>8 DEF Next, ReplayStep, Terminated

(* The numbers of the summary line add up, for traces of any length.       *)
THEOREM SummaryAddsUp == Spec => []CountsAddUp
<1>1. CountInv => CountsAddUp
  BY DEF CountInv
<1> QED
  BY <1>1, InitCounts, StepCounts, PTL DEF Spec

-----------------------------------------------------------------------------
(* The exit code.                                                          *)

(* What the capture meant by its open records.                             *)
OpensMeant ==
    \A i \in 1..Len(trace) : trace[i].type = "open" =>
        meant[i] = IF IsOpen(trace[i]) THEN FileEffect(i) ELSE Nothing

(* Nothing was skipped, nothing failed so far, in the capture or now.      *)
CleanSoFar ==
    /\ skipped = 0 /\ failed = 0
    /\ \A i \in 1..Len(reached) : meant[i].ok /\ (IsOpen(trace[i]) => reached[i].ok)

(* Then all of it went as it did in the capture; and what the exit code    *)
(* says of the end.                                                        *)
ExitInv ==
    /\ OpensMeant
    /\ CleanSoFar => \A i \in 1..Len(reached) : reached[i] = meant[i]
    /\ phase = "replay" => ~torn
    /\ phase = "exited" /\ exitCode = 0 => ~torn /\ failed = 0 /\ pos = Len(trace) + 1

(* Two effects are the same if their parts are.                            *)
LEMMA SameEffect ==
    ASSUME NEW d \in Effects, NEW e \in Effects, d.ok = e.ok, d.file = e.file, d.ref = e.ref
    PROVE  d = e
BY DEF Effects

(* A call of the capture keeps what its open records mean.                 *)
LEMMA CaptureMeant ==
    ASSUME TypeOK, CaptureNext, OpensMeant
    PROVE  OpensMeant'
<1>0. Len(trace) \in Nat /\ Len(meant) = Len(trace)
  BY DEF TypeOK
<1>1. ASSUME NEW rec \in Record, NEW e \in Effects, Logged(rec, e),
             rec.type = "open" => e = IF IsOpen(rec) THEN FileEffect(Len(trace) + 1) ELSE Nothing
      PROVE  OpensMeant'
  <2>1. /\ Len(trace') = Len(trace) + 1
        /\ \A k \in 1..Len(trace) : trace'[k] = trace[k] /\ meant'[k] = meant[k]
        /\ trace'[Len(trace) + 1] = rec /\ meant'[Len(trace) + 1] = e
    BY <1>1, LoggedFacts
  <2> SUFFICES ASSUME NEW i \in 1..(Len(trace) + 1), trace'[i].type = "open"
               PROVE  meant'[i] = IF IsOpen(trace'[i]) THEN FileEffect(i) ELSE Nothing
    BY <2>1 DEF OpensMeant, Nothing, FileEffect, IsOpen
  <2>2. CASE i = Len(trace) + 1
    BY <1>1, <2>1, <2>2
  <2>3. CASE i # Len(trace) + 1
    BY <1>0, <2>1, <2>3 DEF OpensMeant
  <2> QED
    BY <2>2, <2>3
<1>2. UNCHANGED <<trace, meant>> => OpensMeant'
  BY DEF OpensMeant, IsOpen, Nothing, FileEffect
<1>3. ASSUME NEW f \in Fd, CapOpen(f) PROVE OpensMeant'
  <2>1. [type |-> "open", ret |-> f] \in Record /\ FileEffect(Len(trace) + 1) \in Effects
    BY <1>0, FileEffectType DEF Record, OpenRec
  <2>2. IsOpen([type |-> "open", ret |-> f])
    BY ValueAssumption DEF IsOpen
  <2> QED
    BY <1>1, <1>3, <2>1, <2>2 DEF CapOpen
<1>4. CASE CapOpenFails
  <2>1. [type |-> "open", ret |-> None] \in Record /\ Nothing \in Effects
    BY FileEffectType DEF Record, OpenRec
  <2>2. ~IsOpen([type |-> "open", ret |-> None])
    BY DEF IsOpen
  <2> QED
    BY <1>1, <1>4, <2>1, <2>2 DEF CapOpenFails
<1>5. ASSUME NEW f \in Fd, CapClose(f) PROVE OpensMeant'
  <2>1. [type |-> "close", fd |-> f] \in Record /\ FileEffect(capFile[f]) \in Effects
    BY FileEffectType DEF Record, CloseRec, TypeOK
  <2> QED
    BY <1>1, <1>2, <1>5, <2>1 DEF CapClose
<1>6. ASSUME NEW rec, NEW e, Logged(rec, e), rec.type = "ioctl"
      PROVE  OpensMeant'
  <2>1. /\ Len(trace') = Len(trace) + 1
        /\ \A k \in 1..Len(trace) : trace'[k] = trace[k] /\ meant'[k] = meant[k]
        /\ trace'[Len(trace) + 1] = rec
    BY <1>0, <1>6 DEF Logged, TypeOK
  <2> SUFFICES ASSUME NEW i \in 1..(Len(trace) + 1), trace'[i].type = "open"
               PROVE  meant'[i] = IF IsOpen(trace'[i]) THEN FileEffect(i) ELSE Nothing
    BY <2>1 DEF OpensMeant, Nothing, FileEffect, IsOpen
  <2> QED
    BY <1>0, <1>6, <2>1 DEF OpensMeant
<1>8. ASSUME NEW f \in Fd, NEW r \in Req, CapIoctl(f, r) PROVE OpensMeant'
  <2>1. PICK buf \in Arguments(r) : \E result \in Results(capObj, r, buf) :
          Logged([type |-> "ioctl", fd |-> f, req |-> r, before |-> buf, after |-> result,
                  ok |-> TRUE], Effect(capFile, capObj, f, r, buf, TRUE))
    BY <1>8 DEF CapIoctl
  <2>2. PICK result \in Results(capObj, r, buf) :
          Logged([type |-> "ioctl", fd |-> f, req |-> r, before |-> buf, after |-> result,
                  ok |-> TRUE], Effect(capFile, capObj, f, r, buf, TRUE))
    BY <2>1
  <2> DEFINE rec == [type |-> "ioctl", fd |-> f, req |-> r, before |-> buf, after |-> result,
                     ok |-> TRUE]
             e == Effect(capFile, capObj, f, r, buf, TRUE)
  <2>3. Logged(rec, e) /\ rec.type = "ioctl"
    BY <2>2
  <2> HIDE DEF rec, e
  <2> QED
    BY <1>6, <2>3
<1>9. ASSUME NEW f \in Fd, NEW r \in Req, CapIoctlFails(f, r) PROVE OpensMeant'
  <2>1. PICK buf \in Arguments(r) :
          Logged([type |-> "ioctl", fd |-> f, req |-> r, before |-> buf, after |-> buf,
                  ok |-> FALSE], Effect(capFile, capObj, f, r, buf, FALSE))
    BY <1>9 DEF CapIoctlFails
  <2> DEFINE rec == [type |-> "ioctl", fd |-> f, req |-> r, before |-> buf, after |-> buf,
                     ok |-> FALSE]
             e == Effect(capFile, capObj, f, r, buf, FALSE)
  <2>2. Logged(rec, e) /\ rec.type = "ioctl"
    BY <2>1
  <2> HIDE DEF rec, e
  <2> QED
    BY <1>6, <2>2
<1>7. CASE CapEnd
  BY <1>2, <1>7 DEF CapEnd
<1> QED
  BY <1>3, <1>4, <1>5, <1>7, <1>8, <1>9 DEF CaptureNext

(* A replayed record keeps the invariant if, while all went as in the      *)
(* capture, it does too.                                                   *)
LEMMA CleanStep ==
    ASSUME TypeOK, ExitInv, AtRecord, NEW e \in Effects, Replayed(e),
           skipped <= skipped', failed <= failed', skipped' \in Nat, failed' \in Nat,
           CleanSoFar' /\ SameOutcomes(pos) => e = meant[pos]
    PROVE  ExitInv'
<1>1. /\ pos \in Nat /\ pos >= 1 /\ Len(reached') = pos /\ Len(reached) = pos - 1
      /\ \A k \in 1..(pos - 1) : reached'[k] = reached[k]
      /\ reached'[pos] = e /\ trace' = trace /\ meant' = meant /\ torn' = torn
      /\ phase = "replay" /\ phase' = phase
  BY ReplayedFacts DEF capVars, AtRecord
<1>2. skipped \in Nat /\ failed \in Nat
  BY DEF TypeOK
<1>3. CleanSoFar' => CleanSoFar
  BY <1>1, <1>2 DEF CleanSoFar, IsOpen
<1>4. ASSUME CleanSoFar' PROVE \A i \in 1..Len(reached') : reached'[i] = meant'[i]
  <2>1. \A i \in 1..(pos - 1) : reached[i] = meant[i]
    BY <1>1, <1>3, <1>4 DEF ExitInv
  <2>2. e = meant[pos]
    BY <1>4, <2>1 DEF SameOutcomes
  <2> QED
    BY <1>1, <2>1, <2>2
<1>5. OpensMeant'
  BY <1>1 DEF ExitInv, OpensMeant, IsOpen, Nothing, FileEffect
<1> QED
  BY <1>1, <1>4, <1>5 DEF ExitInv

(* A step that replays no record leaves all of this as it is.              *)
LEMMA NoRecordStep ==
    ASSUME ExitInv, UNCHANGED <<trace, meant, torn, reached, skipped, failed, pos>>,
           phase' = "replay" => ~torn,
           phase' = "exited" /\ exitCode' = 0 => ~torn /\ failed = 0 /\ pos = Len(trace) + 1
    PROVE  ExitInv'
BY DEF ExitInv, OpensMeant, CleanSoFar, IsOpen, Nothing, FileEffect

(* At the start the capture is empty and nothing has exited.               *)
LEMMA InitExit == Init => ExitInv
<1> SUFFICES ASSUME Init PROVE ExitInv
  OBVIOUS
<1>1. Len(trace) = 0 /\ Len(reached) = 0 /\ phase = "capture"
  BY DEF Init, CaptureInit
<1> QED
  BY <1>1 DEF ExitInv, OpensMeant

(* Every step keeps the invariant.                                         *)
LEMMA StepExit == SchemaComplete /\ IInv /\ ExitInv /\ [Next]_vars => ExitInv'
<1> SUFFICES ASSUME SchemaComplete, IInv, ExitInv, [Next]_vars PROVE ExitInv'
  OBVIOUS
<1>0. /\ TypeOK /\ CaptureInv /\ MapsInv
      /\ IInv' /\ CounterpartUntilDivergence' /\ TypeOK'
  BY NextInv DEF IInv
<1>a. skipped \in Nat /\ failed \in Nat /\ pos \in Nat /\ Len(trace) \in Nat
  BY <1>0, Types
<1>d. /\ fdMap \in [Fd -> Fd \cup {None}] /\ Len(reached) \in Nat
      /\ liveFile \in [Fd -> 0..Len(reached)] /\ liveObj \in [Handle -> 0..Len(reached)]
      /\ pos \in 1..Len(trace) + 1 /\ trace \in Seq(Record)
  <2>1. TypeOK
    BY <1>0
  <2> QED
    BY <2>1, Types
<1>1. CASE Capture
  <2>1. phase = "capture" /\ UNCHANGED <<pos, failed, skipped, reached, exitCode>>
    BY <1>1 DEF Capture, replayVars, CaptureNext, CapOpen, CapClose, CapOpenFails, CapIoctl,
                CapIoctlFails, CapEnd, Capturing
  <2>2. phase' \in {"capture", "load"}
    BY <1>1, <2>1 DEF Capture, CaptureNext, CapOpen, CapClose, CapOpenFails, CapIoctl,
                CapIoctlFails, CapEnd, Logged
  <2>3. Len(reached') = 0
    BY <1>0, <2>1 DEF TypeOK, CaptureInv
  <2>4. OpensMeant'
    BY <1>0, <1>1, CaptureMeant DEF Capture, ExitInv
  <2> QED
    BY <2>2, <2>3, <2>4 DEF ExitInv
<1>b. ASSUME AtRecord, event.type = "open"
      PROVE  /\ meant[pos] = IF IsOpen(event) THEN FileEffect(pos) ELSE Nothing
             /\ FileEffect(pos) \in Effects /\ Nothing \in Effects /\ Failure \in Effects
             /\ ~Failure.ok
  <2>1. pos \in 1..Len(trace)
    BY <1>0, <1>b, EventType
  <2>2. ~Failure.ok
    BY DEF Failure, Nothing, FileEffect
  <2> QED
    BY <1>b, <2>1, <2>2, FileEffectType DEF ExitInv, OpensMeant, event
<1>c. ASSUME AtRecord, NEW e \in Effects, Replayed(e), CleanSoFar'
      PROVE  /\ meant[pos].ok /\ (IsOpen(event) => e.ok)
             /\ skipped' = 0 /\ failed' = 0
  BY <1>0, <1>c, ReplayedFacts DEF CleanSoFar, event, capVars
<1>2. CASE Load
  BY <1>2, NoRecordStep DEF Load, Exit, countVars
<1>3. CASE ReplayFailedOpen
  <2>1. /\ AtRecord /\ event.type = "open" /\ ~IsOpen(event) /\ Replayed(Nothing)
        /\ UNCHANGED <<skipped, failed>>
    BY <1>3 DEF ReplayFailedOpen, IsOpen, countVars
  <2> QED
    BY <1>0, <1>a, <1>b, <2>1, CleanStep
<1>4. CASE ReplayOpen
  <2>1. AtRecord /\ IsOpen(event) /\ Replayed(FileEffect(pos)) /\ UNCHANGED <<skipped, failed>>
    BY <1>4 DEF ReplayOpen, countVars
  <2> QED
    BY <1>0, <1>a, <1>b, <2>1, CleanStep DEF IsOpen
<1>5. CASE ReplayOpenError
  <2>1. AtRecord /\ IsOpen(event) /\ Replayed(Failure) /\ UNCHANGED <<skipped, failed>>
    BY <1>5 DEF ReplayOpenError, countVars
  <2>2. Failure \in Effects /\ ~Failure.ok
    BY <1>b, <2>1 DEF IsOpen
  <2>3. ~CleanSoFar'
    BY <1>c, <2>1, <2>2
  <2> QED
    BY <1>0, <1>a, <2>1, <2>2, <2>3, CleanStep
<1>6. CASE ReplayOpenDenied
  BY <1>6, NoRecordStep DEF ReplayOpenDenied, Exit, countVars
<1>7. CASE ReplayClose
  <2> DEFINE f == fdMap[event.fd]
  <2>1. AtRecord /\ event.type = "close" /\ UNCHANGED <<skipped, failed>>
    BY <1>7 DEF ReplayClose, countVars
  <2>2. pos \in 1..Len(trace) /\ event \in Record /\ event.fd \in Fd
    BY <1>a, <1>d, <2>1, RecordFields DEF AtRecord, event
  <2>3. /\ NamesFile(trace, event.fd, meant[pos].file, pos)
        /\ meant[pos] = FileEffect(meant[pos].file)
    BY <1>0, <2>1, <2>2 DEF CaptureInv, Meaning, event
  <2>4. meant[pos].file \in 1..(pos - 1)
    BY <2>3 DEF NamesFile
  <2>5. SameOutcomes(pos) => f # None /\ liveFile[f] = meant[pos].file
    BY <1>0, <2>2, <2>3, <2>4 DEF MapsInv
  <2>6. CASE f # None /\ liveFile[f] # 0
    <3>1. Replayed(FileEffect(liveFile[f])) /\ FileEffect(liveFile[f]) \in Effects
      <4>1. f \in Fd /\ liveFile[f] \in Nat
        BY <1>d, <2>2, <2>6
      <4> QED
        BY <1>7, <2>6, <4>1, FileEffectType DEF ReplayClose
    <3> QED
      BY <1>0, <1>a, <2>1, <2>3, <2>5, <3>1, CleanStep
  <2>7. CASE ~(f # None /\ liveFile[f] # 0)
    <3>1. Replayed(Failure) /\ Failure \in Effects
      BY <1>7, <2>7, FileEffectType DEF ReplayClose
    <3>2. ~SameOutcomes(pos)
      BY <2>4, <2>5, <2>7
    <3> QED
      BY <1>0, <1>a, <2>1, <3>1, <3>2, CleanStep
  <2> QED
    BY <2>6, <2>7
<1>8. CASE ReplaySkip
  <2>1. AtRecord /\ Replayed(Failure) /\ skipped' = skipped + 1 /\ failed' = failed
        /\ Failure \in Effects
    BY <1>8, FileEffectType DEF ReplaySkip
  <2>2. ~CleanSoFar'
    BY <1>a, <2>1 DEF CleanSoFar
  <2> QED
    BY <1>0, <1>a, <2>1, <2>2, CleanStep
<1>9. CASE ReplayIoctl \/ ReplayIoctlFails
  <2> DEFINE e(b) == Effect(liveFile, liveObj, fdMap[event.fd], event.req, Patched(event), b)
  <2>1. AtRecord /\ IsIoctl(event) /\ fdMap[event.fd] # None
    BY <1>9 DEF ReplayIoctl, ReplayIoctlFails
  <2>2. /\ fdMap[event.fd] \in Fd /\ event.req \in Req
        /\ Len(reached) \in Nat /\ liveFile \in [Fd -> 0..Len(reached)]
        /\ liveObj \in [Handle -> 0..Len(reached)]
    <3>1. event \in Record
      BY <1>a, <1>d, <2>1 DEF AtRecord, event
    <3> QED
      BY <1>d, <2>1, <3>1, RecordFields DEF IsIoctl
  <2>3. \A b \in BOOLEAN : e(b) \in Effects
    BY <2>2, EffectType
  <2>4. CASE ReplayIoctlFails
    <3>1. Replayed(e(FALSE)) /\ failed' = failed + 1 /\ skipped' = skipped
      BY <2>4 DEF ReplayIoctlFails
    <3>2. ~CleanSoFar'
      BY <1>a, <3>1 DEF CleanSoFar
    <3>3. e(FALSE) \in Effects
      BY <2>3
    <3>4. /\ skipped <= skipped' /\ skipped' \in Nat /\ failed' \in Nat
      BY <1>a, <3>1
    <3>5. PICK d \in Effects : d = e(FALSE)
      BY <3>3
    <3>6. Replayed(d) /\ (CleanSoFar' /\ SameOutcomes(pos) => d = meant[pos])
      BY <3>1, <3>2, <3>5
    <3>7. failed <= failed'
      BY <1>a, <3>1
    <3> HIDE DEF e
    <3> QED
      BY <1>0, <2>1, <3>4, <3>6, <3>7, CleanStep
  <2>5. CASE ReplayIoctl
    <3>1. Replayed(e(TRUE)) /\ UNCHANGED <<failed, skipped>> /\ e(TRUE).ok = TRUE
      BY <2>5 DEF ReplayIoctl, Effect
    <3>2. ASSUME CleanSoFar', SameOutcomes(pos) PROVE e(TRUE) = meant[pos]
      <4>1. /\ reached'[pos] = e(TRUE) /\ Len(reached') = pos /\ pos >= 1 /\ pos <= Len(trace)
            /\ \A k \in 1..(pos - 1) : reached'[k] = reached[k]
            /\ trace' = trace /\ meant' = meant
        BY <1>0, <2>1, <2>3, <3>1, ReplayedFacts DEF capVars
      <4>2. e(TRUE).file = meant[pos].file /\ e(TRUE).ref = meant[pos].ref
        <5>1. \A k \in 1..(pos - 1) : reached'[k].ok = meant'[k].ok
          BY <3>2, <4>1 DEF SameOutcomes
        <5>2. pos \in 1..Len(reached') /\ trace'[pos].type = "ioctl"
          BY <1>a, <2>1, <4>1 DEF IsIoctl, event
        <5> QED
          BY <1>0, <4>1, <5>1, <5>2 DEF CounterpartUntilDivergence, SameOutcomes
      <4>3. meant[pos] \in Effects /\ meant[pos].ok = TRUE
        <5>1. meant[pos] \in Effects
          BY <1>0, <1>a, <4>1, Types
        <5>2. meant[pos].ok
          BY <1>c, <2>1, <2>3, <3>1, <3>2
        <5> QED
          BY <5>1, <5>2 DEF Effects
      <4> QED
        BY <2>3, <3>1, <4>2, <4>3, SameEffect
    <3>3. e(TRUE) \in Effects
      BY <2>3
    <3>4. /\ skipped <= skipped' /\ skipped' \in Nat /\ failed' \in Nat
      BY <1>a, <3>1
    <3>5. PICK d \in Effects : d = e(TRUE)
      BY <3>3
    <3>6. Replayed(d) /\ (CleanSoFar' /\ SameOutcomes(pos) => d = meant[pos])
      BY <3>1, <3>2, <3>5
    <3>7. failed <= failed'
      BY <1>a, <3>1
    <3> HIDE DEF e
    <3> QED
      BY <1>0, <2>1, <3>4, <3>6, <3>7, CleanStep
  <2> QED
    BY <1>9, <2>4, <2>5
<1>10. CASE Finish
  <2>1. /\ UNCHANGED <<trace, meant, torn, reached, skipped, failed, pos>>
        /\ phase = "replay" /\ pos > Len(trace) /\ phase' = "exited"
        /\ exitCode' = 0 => failed = 0
    BY <1>10 DEF Finish, Exit, countVars
  <2>2. pos = Len(trace) + 1
    BY <1>0, <1>a, <2>1, Types
  <2> QED
    BY <2>1, <2>2, NoRecordStep DEF ExitInv
<1>11. CASE UNCHANGED vars
  BY <1>11, NoRecordStep DEF vars, capVars, replayVars, ExitInv
<1> QED
  BY <1>1, <1>2, <1>3, <1>4, <1>5, <1>6, <1>7, <1>8, <1>9, <1>10, <1>11
     DEF Next, ReplayStep, Terminated

(* With a complete schema, exit code 0 without skips, failed opens or      *)
(* failed captured calls means that the capture was whole and every call   *)
(* of it was re-executed on its counterparts, for traces of any length.    *)
THEOREM CleanExit ==
    ASSUME SchemaComplete
    PROVE  Spec => []CleanExitIsFaithful
<1>1. TypeOK /\ ExitInv => CleanExitIsFaithful
  <2> SUFFICES ASSUME TypeOK, ExitInv, phase = "exited", exitCode = 0, skipped = 0,
                      \A i \in 1..Len(reached) : IsOpen(trace[i]) => reached[i].ok,
                      \A i \in 1..Len(meant) : meant[i].ok
               PROVE  ~torn /\ reached = meant
    BY DEF CleanExitIsFaithful
  <2>1. ~torn /\ failed = 0 /\ Len(reached) = Len(trace) /\ Len(meant) = Len(trace)
    BY DEF ExitInv, TypeOK
  <2>2. \A i \in 1..Len(reached) : reached[i] = meant[i]
    BY <2>1 DEF ExitInv, CleanSoFar
  <2>3. reached \in Seq(Effects) /\ meant \in Seq(Effects)
    BY Types
  <2> QED
    BY <2>1, <2>2, <2>3
<1>2. Init => IInv /\ ExitInv
  BY InitInv, InitExit
<1>3. IInv /\ ExitInv /\ [Next]_vars => IInv' /\ ExitInv'
  BY NextInv, StepExit
<1>4. IInv => TypeOK
  BY DEF IInv
<1> QED
  BY <1>1, <1>2, <1>3, <1>4, PTL DEF Spec

-----------------------------------------------------------------------------
(* replay.c.  The tables keep their types.                                 *)

LEMMA FdMapType ==
    ASSUME ReplayTypeOK, NEW f \in Fd
    PROVE  fd_map(f) \in Fd \cup {None}
BY DEF fd_map, ReplayTypeOK

(* Patching maps the argument of an ioctl to an argument of that ioctl.    *)
LEMMA WorkType ==
    ASSUME ReplayTypeOK, NEW r \in Req, event.req = r,
           event.before \in [Layout[r].ext -> Value]
    PROVE  work \in [Layout[r].ext -> Value]
<1> DEFINE s  == find_schema(event.req)
           in == PatchInput(event.before, s)
<1>1. in \in [Layout[r].ext -> Value]
  BY DEF PatchInput, ReplayTypeOK, Value
<1> HIDE DEF in
<1>2. PatchEmbedded(in, s) \in [Layout[r].ext -> Value]
  BY <1>1 DEF PatchEmbedded, fd_map, ReplayTypeOK, Value
<1> QED
  BY <1>2 DEF work, in

LEMMA LearnType ==
    ASSUME ReplayTypeOK, NEW captured, NEW live, NEW s
    PROVE  Learn(captured, live, s) \in [Handle -> Handle \cup {None}]
BY DEF Learn, hm_put, ReplayTypeOK

(* What a record that is replayed is made of.                              *)
LEMMA EventFields ==
    ASSUME TypeOK, AtRecord
    PROVE  /\ pos \in 1..Len(trace) /\ pos \in Nat /\ Len(trace) \in Nat
           /\ event = trace[pos] /\ event \in Record
           /\ event.type = "open" => event.ret \in Fd \cup {None}
           /\ IsIoctl(event) =>
                /\ event.type = "ioctl"
                /\ event.fd \in Fd /\ event.req \in Req
                /\ event.before \in [Layout[event.req].ext -> Value]
                /\ event.after \in [Layout[event.req].ext -> Value]
<1>1. pos \in 1..Len(trace) /\ event \in Record /\ Len(trace) \in Nat
  BY DEF AtRecord, TypeOK, event
<1> QED
  BY <1>1, RecordFields DEF IsIoctl, event

(* Every step of the C replayer keeps the types.                           *)
LEMMA CStepType ==
    ASSUME TypeOK, CStep
    PROVE  TypeOK'
<1> USE TypeOKSplit
<1>0. /\ Len(trace) \in Nat /\ Len(reached) \in Nat /\ pos \in Nat
      /\ liveFile \in [Fd -> 0..Len(reached)] /\ liveObj \in [Handle -> 0..Len(reached)]
      /\ total \in Nat /\ ok \in Nat /\ failed \in Nat /\ skipped \in Nat
  BY DEF TypeOK
<1>1. CASE CLoad
  BY <1>1 DEF CLoad, TypeOK, replayVars
<1>2. CASE ReplayFailedOpen \/ COpenError \/ CFinish
  BY <1>2, ReplayType DEF ReplayStep, COpenError, CFinish
<1>3. CASE COpen
  <2>1. AtRecord /\ IsOpen(event) /\ Replayed(FileEffect(pos))
        /\ UNCHANGED <<handleMap, countVars, liveObj>>
    BY <1>3 DEF COpen
  <2>2. event.ret \in Fd /\ FileEffect(pos) \in Effects
    BY <1>0, <2>1, EventFields, FileEffectType DEF IsOpen
  <2>3. PICK f \in Fd :
          /\ liveFile' = [liveFile EXCEPT ![f] = pos]
          /\ fdMap' = IF event.ret \in MappedFd THEN [fdMap EXCEPT ![event.ret] = f]
                                                ELSE fdMap
    BY <1>3 DEF COpen
  <2>4. fdMap' \in [Fd -> Fd \cup {None}]
    BY <2>2, <2>3 DEF TypeOK
  <2> QED
    BY <1>0, <2>1, <2>2, <2>3, <2>4, ReplayedType DEF ReplayTypeOK, countVars
<1>4. CASE CIgnoreClose
  <2>1. AtRecord /\ Replayed(Failure) /\ UNCHANGED <<mapVars, countVars, liveVars>>
    BY <1>4 DEF CIgnoreClose
  <2> QED
    BY <2>1, FileEffectType, ReplayedType
       DEF ReplayTypeOK, mapVars, countVars, liveVars
<1>5. CASE CSkip
  <2>1. AtRecord /\ Replayed(Failure)
    BY <1>5 DEF CSkip
  <2>2. /\ total' \in Nat /\ skipped' \in Nat /\ ok' \in Nat /\ failed' \in Nat
        /\ UNCHANGED <<fdMap, handleMap, liveFile, liveObj>>
    BY <1>0, <1>5 DEF CSkip, mapVars, liveVars
  <2> QED
    BY <2>1, <2>2, FileEffectType, ReplayedType DEF ReplayTypeOK
<1>fd. ASSUME AtRecord, IsIoctl(event), fd_map(event.fd) # None
       PROVE  /\ fd_map(event.fd) \in Fd /\ event.req \in Req
              /\ work \in [Layout[event.req].ext -> Value]
  BY <1>fd, EventFields, FdMapType, WorkType
<1>6. CASE CIoctl
  <2> DEFINE e == Effect(liveFile, liveObj, fd_map(event.fd), event.req, work, TRUE)
  <2>1. /\ AtRecord /\ IsIoctl(event) /\ fd_map(event.fd) # None
        /\ Replayed(e)
        /\ total' = total + 1 /\ ok' = ok + 1
        /\ UNCHANGED <<fdMap, failed, skipped, liveFile>>
    BY <1>6 DEF CIoctl
  <2>2. PICK result \in Results(liveObj, event.req, work) :
          /\ liveObj' = ObjectsAfter(liveObj, event.req, work, result, pos)
          /\ handleMap' = Learn(event.after, result, find_schema(event.req))
    BY <1>6 DEF CIoctl
  <2>3. e \in Effects
    BY <1>0, <1>fd, <2>1, EffectType
  <2> HIDE DEF e
  <2>4. liveObj' \in [Handle -> 0..Len(reached')]
    <3>1. pos \in 0..Len(reached') /\ Len(reached) <= Len(reached') /\ Len(reached') \in Nat
      BY <2>1, <2>3, ReplayedType
    <3> QED
      BY <1>0, <2>2, <3>1, ObjectsAfterType
  <2>5. handleMap' \in [Handle -> Handle \cup {None}]
    BY <2>2, LearnType
  <2>6. total' \in Nat /\ skipped' \in Nat /\ ok' \in Nat /\ failed' \in Nat
    BY <1>0, <2>1
  <2> QED
    BY <2>1, <2>3, <2>4, <2>5, <2>6, ReplayedType DEF ReplayTypeOK
<1>7. CASE CIoctlFails
  <2> DEFINE e == Effect(liveFile, liveObj, fd_map(event.fd), event.req, work, FALSE)
  <2>1. AtRecord /\ IsIoctl(event) /\ fd_map(event.fd) # None /\ Replayed(e)
        /\ handleMap' = Learn(event.after, work, find_schema(event.req))
        /\ total' = total + 1 /\ failed' = failed + 1
        /\ UNCHANGED <<fdMap, ok, skipped, liveFile, liveObj>>
    BY <1>7 DEF CIoctlFails, liveVars
  <2>2. e \in Effects
    BY <1>0, <1>fd, <2>1, EffectType
  <2> HIDE DEF e
  <2>3. handleMap' \in [Handle -> Handle \cup {None}]
    BY <2>1, LearnType
  <2>4. total' \in Nat /\ skipped' \in Nat /\ ok' \in Nat /\ failed' \in Nat
    BY <1>0, <2>1
  <2> QED
    BY <2>1, <2>2, <2>3, <2>4, ReplayedType DEF ReplayTypeOK
<1>8. CASE CTornLine
  <2>1. /\ torn' = FALSE
        /\ total' \in Nat /\ ok' \in Nat /\ failed' \in Nat /\ skipped' \in Nat
        /\ UNCHANGED <<phase, trace, meant, capFile, capObj, pos, fdMap, handleMap,
                       exitCode, liveFile, liveObj, reached>>
    BY <1>0, <1>8 DEF CTornLine, mapVars, liveVars, countVars
  <2> QED
    BY <2>1 DEF TypeOK
<1> QED
  BY <1>1, <1>2, <1>3, <1>4, <1>5, <1>6, <1>7, <1>8 DEF CStep

LEMMA CNextType == TypeOK /\ [CNext]_vars => TypeOK'
<1> SUFFICES ASSUME TypeOK, [CNext]_vars PROVE TypeOK'
  OBVIOUS
<1>1. CASE Capture
  BY <1>1, NextType DEF Next
<1>2. CASE CStep
  BY <1>2, CStepType
<1>3. CASE UNCHANGED vars
  BY <1>3, NextType
<1> QED
  BY <1>1, <1>2, <1>3 DEF CNext, Terminated

(* The type invariant of replay.c, for every size of its tables.           *)
THEOREM CTypeCorrect == CSpec => []TypeOK
BY InitType, CNextType, PTL DEF CSpec
-----------------------------------------------------------------------------
(* What an ioctl of the capture returns.                                   *)

OutputsOf(rec) ==
    Layout[rec.req].out # None =>
        IF rec.ok THEN rec.after[Layout[rec.req].out] \in Handle
                  ELSE rec.after[Layout[rec.req].out] = None

LEMMA LoggedOutputs ==
    ASSUME TypeOK, OutputsInv, NEW rec \in Record, NEW e \in Effects, Logged(rec, e),
           IsIoctl(rec) => OutputsOf(rec)
    PROVE  OutputsInv'
<1>1. /\ Len(trace) \in Nat /\ Len(trace') = Len(trace) + 1
      /\ \A k \in 1..Len(trace) : trace'[k] = trace[k]
      /\ trace'[Len(trace) + 1] = rec
  BY LoggedFacts
<1>2. \A i \in 1..Len(trace) : IsIoctl(trace[i]) => OutputsOf(trace[i])
  BY DEF OutputsInv, OutputsOf
<1>3. \A i \in 1..Len(trace') : IsIoctl(trace'[i]) => OutputsOf(trace'[i])
  <2> SUFFICES ASSUME NEW i \in 1..Len(trace') PROVE IsIoctl(trace'[i]) => OutputsOf(trace'[i])
    OBVIOUS
  <2>1. CASE i = Len(trace) + 1
    BY <1>1, <2>1
  <2>2. CASE i # Len(trace) + 1
    <3>1. i \in 1..Len(trace)
      BY <1>1, <2>2
    <3> QED
      BY <1>1, <1>2, <3>1
  <2> QED
    BY <2>1, <2>2
<1> QED
  BY <1>3 DEF OutputsInv, OutputsOf

(* An output field holds no handle before the call.                        *)
LEMMA OutputFieldEmpty ==
    ASSUME NEW r \in Req, Layout[r].out # None, NEW buf \in Arguments(r)
    PROVE  buf[Layout[r].out] = None
BY LayoutAssumption DEF Arguments

LEMMA CaptureOutputs ==
    ASSUME TypeOK, OutputsInv, CaptureNext
    PROVE  OutputsInv'
<1>0. /\ Len(trace) \in Nat
      /\ capFile \in [Fd -> 0..Len(trace)] /\ capObj \in [Handle -> 0..Len(trace)]
  BY DEF TypeOK
<1>1. ASSUME NEW f \in Fd, CapOpen(f) PROVE OutputsInv'
  <2>1. /\ [type |-> "open", ret |-> f] \in Record /\ FileEffect(Len(trace) + 1) \in Effects
        /\ ~IsIoctl([type |-> "open", ret |-> f])
    BY <1>0, FileEffectType DEF Record, OpenRec, IsIoctl
  <2> QED
    BY <1>1, <2>1, LoggedOutputs DEF CapOpen
<1>2. ASSUME CapOpenFails PROVE OutputsInv'
  <2>1. /\ [type |-> "open", ret |-> None] \in Record /\ Nothing \in Effects
        /\ ~IsIoctl([type |-> "open", ret |-> None])
    BY FileEffectType DEF Record, OpenRec, IsIoctl
  <2> QED
    BY <1>2, <2>1, LoggedOutputs DEF CapOpenFails
<1>3. ASSUME NEW f \in Fd, CapClose(f) PROVE OutputsInv'
  <2>1. /\ [type |-> "close", fd |-> f] \in Record /\ FileEffect(capFile[f]) \in Effects
        /\ ~IsIoctl([type |-> "close", fd |-> f])
    BY <1>0, FileEffectType DEF Record, CloseRec, IsIoctl
  <2>2. CASE UNCHANGED <<phase, torn, trace, meant>>
    BY <2>2 DEF OutputsInv
  <2> QED
    BY <1>3, <2>1, <2>2, LoggedOutputs DEF CapClose
<1>4. ASSUME NEW f \in Fd, NEW r \in Req, CapIoctl(f, r) PROVE OutputsInv'
  <2>1. PICK buf \in Arguments(r) : \E result \in Results(capObj, r, buf) :
            Logged([type |-> "ioctl", fd |-> f, req |-> r,
                    before |-> buf, after |-> result, ok |-> TRUE],
                   Effect(capFile, capObj, f, r, buf, TRUE))
    BY <1>4 DEF CapIoctl
  <2>2. PICK result \in Results(capObj, r, buf) :
            Logged([type |-> "ioctl", fd |-> f, req |-> r,
                    before |-> buf, after |-> result, ok |-> TRUE],
                   Effect(capFile, capObj, f, r, buf, TRUE))
    BY <2>1
  <2> DEFINE rec == [type |-> "ioctl", fd |-> f, req |-> r,
                     before |-> buf, after |-> result, ok |-> TRUE]
             e == Effect(capFile, capObj, f, r, buf, TRUE)
  <2>3. buf \in [Layout[r].ext -> Value]
    BY DEF Arguments
  <2>4. /\ result \in [Layout[r].ext -> Value]
        /\ Layout[r].out # None => result[Layout[r].out] \in Handle
    BY <2>3, ResultsType
  <2>5. rec \in Record /\ e \in Effects
    BY <1>0, <2>3, <2>4, IoctlRecType, EffectType
  <2>6. OutputsOf(rec)
    BY <2>4 DEF OutputsOf
  <2>7. Logged(rec, e)
    BY <2>2
  <2> HIDE DEF rec, e
  <2> QED
    BY <2>5, <2>6, <2>7, LoggedOutputs
<1>5. ASSUME NEW f \in Fd, NEW r \in Req, CapIoctlFails(f, r) PROVE OutputsInv'
  <2>1. PICK buf \in Arguments(r) :
          Logged([type |-> "ioctl", fd |-> f, req |-> r,
                  before |-> buf, after |-> buf, ok |-> FALSE],
                 Effect(capFile, capObj, f, r, buf, FALSE))
    BY <1>5 DEF CapIoctlFails
  <2> DEFINE rec == [type |-> "ioctl", fd |-> f, req |-> r,
                     before |-> buf, after |-> buf, ok |-> FALSE]
             e == Effect(capFile, capObj, f, r, buf, FALSE)
  <2>2. rec \in Record /\ e \in Effects
    BY <1>0, IoctlRecType, EffectType DEF Arguments
  <2>3. OutputsOf(rec)
    BY OutputFieldEmpty DEF OutputsOf
  <2>4. Logged(rec, e)
    BY <2>1
  <2> HIDE DEF rec, e
  <2> QED
    BY <2>2, <2>3, <2>4, LoggedOutputs
<1>6. ASSUME CapEnd PROVE OutputsInv'
  BY <1>6 DEF CapEnd, OutputsInv
<1> QED
  BY <1>1, <1>2, <1>3, <1>4, <1>5, <1>6 DEF CaptureNext

(* With a complete schema, the output of a captured ioctl is the handle it *)
(* allocated, if it allocated one.                                         *)
LEMMA CapturedOutput ==
    ASSUME SchemaComplete, TypeOK, OutputsInv, NEW i \in 1..Len(trace), IsIoctl(trace[i])
    PROVE  LET out == OutputOf(trace[i].after, SchemaOf(trace[i].req))
           IN /\ out # None => out \in Handle /\ AllocsAt(trace, i, out)
              /\ \A h : AllocsAt(trace, i, h) => out = h
<1> DEFINE r == trace[i].req
           s == SchemaOf(r)
<1>1. trace[i] \in Record /\ trace[i].type = "ioctl"
  BY DEF TypeOK, IsIoctl
<1>2. r \in Req /\ trace[i].after \in [Layout[r].ext -> Value] /\ trace[i].ok \in BOOLEAN
  BY <1>1, RecordFields
<1>3. /\ Layout[r].out = None => s.out \notin Layout[r].ext
      /\ Layout[r].out # None => s.out = Layout[r].out /\ s.out \in Layout[r].ext
  <2>1. (IF s.out \in Layout[r].ext THEN s.out ELSE None) = Layout[r].out
    BY <1>2 DEF SchemaComplete
  <2>2. Layout[r].ext \subseteq Offset /\ Layout[r].out \in Layout[r].ext \cup {None}
    BY <1>2, LayoutAssumption DEF LayoutType
  <2> HIDE DEF s
  <2> QED
    BY <2>1, <2>2, ValueAssumption
<1> HIDE DEF s
<1>4. CASE Layout[r].out = None
  <2>1. OutputOf(trace[i].after, s) = None
    BY <1>2, <1>3, <1>4 DEF OutputOf
  <2> QED
    BY <1>4, <2>1 DEF AllocsAt, Allocates, s
<1>5. CASE Layout[r].out # None
  <2>1. OutputOf(trace[i].after, s) = trace[i].after[Layout[r].out]
    BY <1>2, <1>3, <1>5 DEF OutputOf
  <2>2. IF trace[i].ok THEN trace[i].after[Layout[r].out] \in Handle
                       ELSE trace[i].after[Layout[r].out] = None
    BY <1>5 DEF OutputsInv
  <2> QED
    BY <1>2, <1>5, <2>1, <2>2 DEF AllocsAt, Allocates, s
<1> QED
  BY <1>4, <1>5

-----------------------------------------------------------------------------
(* The captured outputs, and the room they take in the handle table.       *)

LEMMA OutputsByFinite ==
    ASSUME NEW k \in Nat
    PROVE  IsFiniteSet(OutputsBy(k)) /\ Cardinality(OutputsBy(k)) \in Nat
<1> DEFINE D == {n \in 1..k : IsIoctl(trace[n])}
           F == [j \in D |-> OutputOf(trace[j].after, SchemaOf(trace[j].req))]
           T == {F[j] : j \in D}
<1>1. IsFiniteSet(1..k)
  BY FS_Interval
<1>2. IsFiniteSet(D)
  BY <1>1, FS_Subset
<1>3. F \in Surjection(D, T)
  BY DEF Surjection
<1>4. IsFiniteSet(T)
  BY <1>2, <1>3, FS_Surjection
<1>5. OutputsBy(k) \in SUBSET T
  BY DEF OutputsBy
<1>6. IsFiniteSet(OutputsBy(k))
  BY <1>4, <1>5, FS_Subset
<1> QED
  BY <1>6, FS_CardinalityType

LEMMA OutputsByGrow ==
    ASSUME NEW k \in Nat, NEW j \in 0..k
    PROVE  /\ OutputsBy(j) \subseteq OutputsBy(k)
           /\ Cardinality(OutputsBy(j)) <= Cardinality(OutputsBy(k))
<1>1. OutputsBy(j) \in SUBSET OutputsBy(k)
  BY DEF OutputsBy
<1> QED
  BY <1>1, OutputsByFinite, FS_Subset

(* They are the handles the capture allocated.                             *)
LEMMA OutputsByAllocs ==
    ASSUME SchemaComplete, TypeOK, OutputsInv, NEW k \in 0..Len(trace)
    PROVE  /\ \A h \in OutputsBy(k) : h \in Handle /\ \E j \in 1..k : AllocsAt(trace, j, h)
           /\ \A j \in 1..k, h \in Handle : AllocsAt(trace, j, h) => h \in OutputsBy(k)
<1>0. Len(trace) \in Nat /\ k \in Nat
  BY DEF TypeOK
<1>1. ASSUME NEW h \in OutputsBy(k)
      PROVE  h \in Handle /\ \E j \in 1..k : AllocsAt(trace, j, h)
  <2>1. PICK j \in 1..k : /\ IsIoctl(trace[j]) /\ h # None
                          /\ h = OutputOf(trace[j].after, SchemaOf(trace[j].req))
    BY DEF OutputsBy
  <2>2. j \in 1..Len(trace)
    BY <1>0
  <2> QED
    BY <2>1, <2>2, CapturedOutput
<1>2. ASSUME NEW j \in 1..k, NEW h \in Handle, AllocsAt(trace, j, h)
      PROVE  h \in OutputsBy(k)
  <2>1. j \in 1..Len(trace) /\ IsIoctl(trace[j])
    BY <1>0, <1>2 DEF AllocsAt, Allocates
  <2>2. h = OutputOf(trace[j].after, SchemaOf(trace[j].req))
    BY <1>2, <2>1, CapturedOutput
  <2> QED
    BY <2>1, <2>2, ValueAssumption DEF OutputsBy
<1> QED
  BY <1>1, <1>2

(* What fits after record p fitted before it, or record p allocates it.    *)
LEMMA FitsStep ==
    ASSUME SchemaComplete, TypeOK, OutputsInv, NEW p \in 1..Len(trace),
           NEW h \in Handle, Fits(h, p + 1)
    PROVE  /\ Fits(h, p) \/ AllocsAt(trace, p, h)
           /\ \A i \in 1..(p - 1) : AllocsAt(trace, i, h) => Fits(h, p)
<1>0. p \in Nat /\ p >= 1 /\ p <= Len(trace) /\ Len(trace) \in Nat
  BY DEF TypeOK
<1>1. PICK k \in 1..p : h \in OutputsBy(k) /\ Cardinality(OutputsBy(k)) <= HandleCapacity
  BY <1>0 DEF Fits
<1>2. ASSUME NEW i \in 1..(p - 1), AllocsAt(trace, i, h) PROVE Fits(h, p)
  <2>1. CASE k < p
    BY <1>0, <1>1, <2>1 DEF Fits
  <2>2. CASE k = p
    <3>1. h \in OutputsBy(i)
      BY <1>0, <1>2, OutputsByAllocs
    <3>2. Cardinality(OutputsBy(i)) <= HandleCapacity
      <4>1. i \in 0..p /\ i \in Nat
        BY <1>0
      <4>2. /\ Cardinality(OutputsBy(i)) <= Cardinality(OutputsBy(p))
            /\ Cardinality(OutputsBy(i)) \in Nat /\ Cardinality(OutputsBy(p)) \in Nat
        BY <1>0, <4>1, OutputsByGrow, OutputsByFinite
      <4> QED
        BY <1>1, <2>2, <4>2, CapacityAssumption
    <3> QED
      BY <3>1, <3>2 DEF Fits
  <2> QED
    BY <1>0, <2>1, <2>2
<1>3. Fits(h, p) \/ AllocsAt(trace, p, h)
  <2>1. PICK j \in 1..k : AllocsAt(trace, j, h)
    <3>1. k \in 0..Len(trace)
      BY <1>0
    <3> QED
      BY <1>1, <3>1, OutputsByAllocs
  <2>2. CASE j = p
    BY <2>1, <2>2
  <2>3. CASE j # p
    <3>1. j \in 1..(p - 1)
      BY <1>0, <2>3
    <3> QED
      BY <1>2, <2>1, <3>1
  <2> QED
    BY <2>2, <2>3
<1> QED
  BY <1>2, <1>3

(* A key that belongs to a set with room for all of it is put, if the      *)
(* table holds nothing else.                                               *)
LEMMA PutHasRoom ==
    ASSUME NEW S, IsFiniteSet(S), Cardinality(S) <= HandleCapacity,
           Stored \subseteq S, NEW key \in S, NEW val
    PROVE  hm_put(key, val) = [handleMap EXCEPT ![key] = val]
<1>1. CASE key \in Stored
  BY <1>1 DEF hm_put
<1>2. CASE key \notin Stored
  <2>1. /\ IsFiniteSet(S \ {key}) /\ Cardinality(S \ {key}) = Cardinality(S) - 1
        /\ Cardinality(S) \in Nat
    BY FS_RemoveElement, FS_CardinalityType
  <2>2. Stored \in SUBSET (S \ {key})
    BY <1>2
  <2>3. /\ Cardinality(Stored) <= Cardinality(S \ {key})
        /\ Cardinality(Stored) \in Nat
    BY <2>1, <2>2, FS_Subset, FS_CardinalityType
  <2>4. Cardinality(Stored) < HandleCapacity
    BY <2>1, <2>3, CapacityAssumption
  <2> QED
    BY <2>4 DEF hm_put
<1> QED
  BY <1>1, <1>2

(* What is found of a request's schema: the output field of the listed one *)
(* or none, and that field if the request was loaded.                      *)
LEMMA FoundSchema ==
    ASSUME NEW r
    PROVE  /\ find_schema(r).out \in {SchemaOf(r).out, None}
           /\ find_schema(r).in \in {Kept(SchemaOf(r).in), {}}
           /\ find_schema(r).fds \in {Kept(SchemaOf(r).fds), {}}
           /\ (r \in DOMAIN Schema => r \in Loaded) =>
                 /\ find_schema(r).out = SchemaOf(r).out
                 /\ find_schema(r).in = Kept(SchemaOf(r).in)
                 /\ find_schema(r).fds = Kept(SchemaOf(r).fds)
<1>1. Loaded \subseteq DOMAIN Schema
  BY SchemaFileAssumption DEF Loaded
<1>2. Kept({}) = {}
  BY DEF Kept
<1>3. CASE r \in Loaded
  BY <1>1, <1>3 DEF find_schema, SchemaOf
<1>4. CASE r \notin Loaded
  BY <1>2, <1>4 DEF find_schema, SchemaOf, EmptySchema
<1> QED
  BY <1>3, <1>4

(* Truncation only drops offsets.                                          *)
LEMMA KeptFewer == ASSUME NEW S PROVE Kept(S) \subseteq S
  BY DEF Kept

-----------------------------------------------------------------------------
(* The replay.                                                             *)

(* What the tables must hold is a matter of the trace alone.               *)
LEMMA SameTrace ==
    ASSUME UNCHANGED trace
    PROVE  \A k : /\ OutputsBy(k)' = OutputsBy(k)
                  /\ \A h : Fits(h, k)' = Fits(h, k)
                  /\ TablesSuffice(k)' = TablesSuffice(k)
<1>1. \A k : OutputsBy(k)' = OutputsBy(k)
  BY DEF OutputsBy
<1>2. \A h, k : Fits(h, k)' = Fits(h, k)
  BY <1>1 DEF Fits
<1> QED
  BY <1>1, <1>2 DEF TablesSuffice

(* A replay that is on course after record pos was so before it.           *)
LEMMA CourseStep ==
    ASSUME TypeOK, AtRecord, NEW e \in Effects, Replayed(e), OnCourse'
    PROVE  /\ OnCourse /\ TablesSuffice(pos)
           /\ event.type # "close" => e.ok = meant[pos].ok
<1>1. /\ pos \in Nat /\ pos >= 1 /\ pos' = pos + 1
      /\ \A k \in 1..(pos - 1) : reached'[k] = reached[k]
      /\ reached'[pos] = e /\ trace' = trace /\ meant' = meant
  BY ReplayedFacts DEF capVars
<1>2. SameIoctlOutcomes(pos)' /\ TablesSuffice(pos - 1)'
  BY DEF OnCourse
<1>3. \A k \in 1..pos : trace[k].type # "close" => reached'[k].ok = meant[k].ok
  BY <1>1, <1>2 DEF SameIoctlOutcomes
<1>4. SameIoctlOutcomes(pos)
  BY <1>1, <1>3 DEF SameIoctlOutcomes
<1>5. event.type # "close" => e.ok = meant[pos].ok
  BY <1>1, <1>3 DEF event
<1>6. TablesSuffice(pos)
  <2>1. PICK p \in Nat : p = pos
    BY <1>1
  <2>2. p = (pos - 1)'
    BY <1>1, <2>1
  <2>3. TablesSuffice(p)'
    BY <1>2, <2>2
  <2>4. TablesSuffice(p)
    BY <1>1, <2>3, SameTrace
  <2> QED
    BY <2>1, <2>4
<1>7. TablesSuffice(pos - 1)
  BY <1>1, <1>6 DEF TablesSuffice
<1> QED
  BY <1>4, <1>5, <1>6, <1>7 DEF OnCourse

(* A record that reached its counterpart keeps the property.               *)
LEMMA CCounterpartStep ==
    ASSUME TypeOK, AtRecord, IoctlsReachCounterparts,
           NEW e \in Effects, Replayed(e),
           IsIoctl(event) /\ SameIoctlOutcomes(pos) /\ TablesSuffice(pos) =>
              e.file = meant[pos].file /\ e.ref = meant[pos].ref
    PROVE  IoctlsReachCounterparts'
<1>1. /\ pos \in Nat /\ pos >= 1 /\ Len(reached') = pos /\ Len(reached) = pos - 1
      /\ \A k \in 1..(pos - 1) : reached'[k] = reached[k]
      /\ reached'[pos] = e /\ trace' = trace /\ meant' = meant
  BY ReplayedFacts DEF capVars
<1> SUFFICES ASSUME NEW i \in 1..pos, IsIoctl(trace[i]), SameIoctlOutcomes(i)',
                    TablesSuffice(i)'
             PROVE  reached'[i].file = meant[i].file /\ reached'[i].ref = meant[i].ref
  BY <1>1 DEF IoctlsReachCounterparts, IsIoctl
<1>2. SameIoctlOutcomes(i) /\ TablesSuffice(i)
  BY <1>1, SameTrace DEF SameIoctlOutcomes
<1>3. CASE i = pos
  BY <1>1, <1>2, <1>3 DEF event
<1>4. CASE i # pos
  BY <1>1, <1>2, <1>4 DEF IoctlsReachCounterparts
<1> QED
  BY <1>3, <1>4

(* The tables follow the trace if they keep what record pos leaves alone   *)
(* and take up what it opens, and what it allocates while there is room.   *)
LEMMA TablesStep ==
    ASSUME SchemaComplete, TypeOK, OutputsInv, StoredInv, TablesInv,
           AtRecord, NEW e \in Effects, Replayed(e),
           Stored \subseteq Stored', Stored' \subseteq OutputsBy(pos),
           OnCourse /\ TablesSuffice(pos) /\ e.ok = meant[pos].ok
                    /\ event.type # "close" =>
             /\ \A f \in MappedFd : OpensAt(trace, pos, f)
                  => fdMap'[f] # None /\ liveFile'[fdMap'[f]] = pos
             /\ \A h \in Handle : AllocsAt(trace, pos, h) /\ Fits(h, pos + 1)
                  => handleMap'[h] # None /\ liveObj'[handleMap'[h]] = pos,
           OnCourse /\ TablesSuffice(pos)
                    /\ (event.type # "close" => e.ok = meant[pos].ok) =>
             /\ \A f \in MappedFd : \A i \in 1..(pos - 1) :
                  /\ NamesFile(trace, f, i, pos)
                  /\ ~OpensAt(trace, pos, f)
                  /\ fdMap[f] # None /\ liveFile[fdMap[f]] = i
                  => fdMap'[f] # None /\ liveFile'[fdMap'[f]] = i
             /\ \A h \in Handle : \A i \in 1..(pos - 1) :
                  /\ Fits(h, pos) /\ NamesObject(trace, meant, h, i, pos)
                  /\ ~AllocsAt(trace, pos, h) /\ ~DestroysAt(trace, meant, pos, i)
                  /\ handleMap[h] # None /\ liveObj[handleMap[h]] = i
                  => handleMap'[h] # None /\ liveObj'[handleMap'[h]] = i
    PROVE  TablesFollow'
<1>1. /\ pos \in 1..Len(trace) /\ pos \in Nat /\ pos' = pos + 1
      /\ trace' = trace /\ meant' = meant
  BY ReplayedFacts DEF capVars
<1>2. PICK p \in 1..Len(trace) : p = pos
  BY <1>1
<1>3. p \in Nat /\ p' = p /\ pos' = p + 1 /\ pos' - 1 = p
  BY <1>1, <1>2
<1>4. /\ OutputsBy(p)' = OutputsBy(p)
      /\ \A h : Fits(h, p + 1)' = Fits(h, p + 1)
  BY <1>1, SameTrace
<1>5. ASSUME OnCourse'
      PROVE  /\ OnCourse /\ TablesSuffice(pos)
             /\ event.type # "close" => e.ok = meant[pos].ok
  BY <1>5, CourseStep
<1>6. \A h : AllocsAt(trace, pos, h) \/ OpensAt(trace, pos, h) => event.type # "close"
  BY DEF AllocsAt, Allocates, OpensAt, IsIoctl, event
<1>7. OutputsInv'
  BY <1>1 DEF OutputsInv, IsIoctl
<1>8. StoredInv'
  <2>1. Stored' \subseteq OutputsBy(p)'
    BY <1>2, <1>4
  <2>2. ASSUME OnCourse', NEW h \in Handle, Fits(h, p + 1)'
        PROVE  h \in Stored'
    <3>1. Fits(h, p + 1)
      BY <1>4, <2>2
    <3>2. Fits(h, p) \/ AllocsAt(trace, p, h)
      BY <3>1, FitsStep
    <3>3. CASE Fits(h, p)
      BY <1>2, <1>5, <2>2, <3>3 DEF StoredInv
    <3>4. CASE AllocsAt(trace, p, h)
      BY <1>2, <1>5, <1>6, <2>2, <3>1, <3>4 DEF Stored
    <3> QED
      BY <3>2, <3>3, <3>4
  <2> QED
    BY <1>3, <2>1, <2>2 DEF StoredInv
<1>9. ASSUME OnCourse', NEW f \in MappedFd, NEW i \in 1..p, NamesFile(trace, f, i, p + 1)
      PROVE  fdMap'[f] # None /\ liveFile'[fdMap'[f]] = i
  <2>1. \/ i = p /\ OpensAt(trace, p, f)
        \/ NamesFile(trace, f, i, p) /\ ~OpensAt(trace, p, f)
    BY <1>3, <1>9, StepFile
  <2>2. CASE i = p /\ OpensAt(trace, p, f)
    BY <1>2, <1>5, <1>6, <1>9, <2>2
  <2>3. CASE NamesFile(trace, f, i, p) /\ ~OpensAt(trace, p, f)
    <3>1. i \in 1..(p - 1)
      BY <2>3 DEF NamesFile
    <3> QED
      BY <1>2, <1>5, <1>9, <2>3, <3>1 DEF TablesInv
  <2> QED
    BY <2>1, <2>2, <2>3
<1>10. ASSUME OnCourse', NEW h \in Handle, NEW i \in 1..p, Fits(h, p + 1),
              NamesObject(trace, meant, h, i, p + 1)
       PROVE  handleMap'[h] # None /\ liveObj'[handleMap'[h]] = i
  <2>1. \/ i = p /\ AllocsAt(trace, p, h)
        \/ /\ NamesObject(trace, meant, h, i, p)
           /\ ~AllocsAt(trace, p, h) /\ ~DestroysAt(trace, meant, p, i)
    BY <1>3, <1>10, StepObject
  <2>2. CASE i = p /\ AllocsAt(trace, p, h)
    BY <1>2, <1>5, <1>6, <1>10, <2>2
  <2>3. CASE /\ NamesObject(trace, meant, h, i, p)
             /\ ~AllocsAt(trace, p, h) /\ ~DestroysAt(trace, meant, p, i)
    <3>1. i \in 1..(p - 1) /\ AllocsAt(trace, i, h)
      BY <2>3 DEF NamesObject
    <3>2. Fits(h, p)
      BY <1>10, <3>1, FitsStep
    <3> QED
      BY <1>2, <1>5, <1>10, <2>3, <3>1, <3>2 DEF TablesInv
  <2> QED
    BY <2>1, <2>2, <2>3
<1>11. TablesInv'
  <2>1. ASSUME OnCourse'
        PROVE  /\ \A f \in MappedFd : \A i \in 1..p : NamesFile(trace', f, i, p + 1) =>
                     fdMap'[f] # None /\ liveFile'[fdMap'[f]] = i
               /\ \A h \in Handle : \A i \in 1..p :
                     Fits(h, p + 1)' /\ NamesObject(trace', meant', h, i, p + 1) =>
                        handleMap'[h] # None /\ liveObj'[handleMap'[h]] = i
    BY <1>1, <1>4, <1>9, <1>10, <2>1
  <2> QED
    BY <1>3, <2>1 DEF TablesInv
<1> QED
  BY <1>7, <1>8, <1>11 DEF TablesFollow

(* With a complete schema, on course, the C replayer finds the fd and the  *)
(* schema of an ioctl and turns its argument into one that names the live  *)
(* counterparts.                                                           *)
LEMMA WorkReaches ==
    ASSUME SchemaComplete, TypeOK, CaptureInv, TablesInv, AtRecord, IsIoctl(event),
           SameIoctlOutcomes(pos), TablesSuffice(pos)
    PROVE  /\ find_schema(event.req).out = SchemaOf(event.req).out
           /\ fd_map(event.fd) # None
           /\ liveFile[fd_map(event.fd)] = meant[pos].file
           /\ \A o \in Offset :
                 Referent(liveFile, liveObj, event.req, work, o) = meant[pos].ref[o]
           /\ \A o \in Layout[event.req].in : event.before[o] = None => work[o] = None
<1> DEFINE r == event.req
           s == find_schema(r)
           before == event.before
           in == PatchInput(before, s)
<1>1. /\ pos \in 1..Len(trace) /\ pos \in Nat /\ event = trace[pos]
      /\ event.type = "ioctl" /\ event.fd \in Fd /\ r \in Req
      /\ before \in [Layout[r].ext -> Value]
  BY EventFields
<1>2. OnCourse
  BY <1>1 DEF OnCourse, TablesSuffice
<1>3. /\ r \in DOMAIN Schema => r \in Loaded
      /\ Layout[r].in \subseteq Kept(SchemaOf(r).in)
      /\ Layout[r].fds \subseteq Kept(SchemaOf(r).fds)
      /\ event.fd \in MappedFd
      /\ \A o \in Layout[r].fds : before[o] \in MappedFd
      /\ \A o \in Layout[r].in : before[o] # None => Fits(before[o], pos)
  <2>1. pos \in {n \in 1..pos : IsIoctl(trace[n])}
    BY <1>1
  <2> QED
    BY <1>1, <2>1 DEF TablesSuffice
<1>4. /\ s.out = SchemaOf(r).out
      /\ s.in = Kept(SchemaOf(r).in) /\ s.fds = Kept(SchemaOf(r).fds)
  BY <1>3, FoundSchema
<1>5. /\ NamesFile(trace, event.fd, meant[pos].file, pos)
      /\ \A o \in Offset : FieldMeaning(trace, meant, pos, o)
  BY <1>1 DEF CaptureInv, Meaning, event
<1>6. /\ fd_map(event.fd) # None
      /\ liveFile[fd_map(event.fd)] = meant[pos].file
  BY <1>2, <1>3, <1>5 DEF TablesInv, NamesFile, fd_map
<1>7. /\ s.in \cap Layout[r].ext = Layout[r].in
      /\ s.fds \cap Layout[r].ext = Layout[r].fds
      /\ Layout[r].in \cap Layout[r].fds = {}
      /\ Layout[r].in \subseteq Layout[r].ext /\ Layout[r].fds \subseteq Layout[r].ext
      /\ Layout[r].ext \subseteq Offset
  <2>1. /\ SchemaOf(r).in \cap Layout[r].ext = Layout[r].in
        /\ SchemaOf(r).fds \cap Layout[r].ext = Layout[r].fds
        /\ Layout[r].in \cap Layout[r].fds = {}
        /\ Layout[r].in \subseteq Layout[r].ext /\ Layout[r].fds \subseteq Layout[r].ext
        /\ Layout[r].ext \subseteq Offset
    BY <1>1, LayoutAssumption DEF SchemaComplete, LayoutType
  <2>2. s.in \subseteq SchemaOf(r).in /\ s.fds \subseteq SchemaOf(r).fds
    BY <1>4, KeptFewer
  <2> HIDE DEF s
  <2> QED
    BY <1>3, <1>4, <2>1, <2>2
<1>8. \A o \in Layout[r].ext :
         in[o] = IF o \in s.in /\ before[o] \in Handle /\ handleMap[before[o]] # None
                 THEN handleMap[before[o]] ELSE before[o]
  BY <1>1 DEF PatchInput
<1>9. DOMAIN in = Layout[r].ext
  BY <1>1 DEF PatchInput
<1>10. work = PatchEmbedded(in, s)
  BY DEF work
<1> HIDE DEF in
<1>11. \A o \in Layout[r].ext :
         work[o] = IF o \in s.fds /\ in[o] \in Fd /\ fd_map(in[o]) # None
                   THEN fd_map(in[o]) ELSE in[o]
  BY <1>9, <1>10 DEF PatchEmbedded
<1> HIDE DEF s
<1>12. ASSUME NEW o \in Layout[r].in, before[o] \in Handle
       PROVE  work[o] \in Handle /\ liveObj[work[o]] = meant[pos].ref[o]
  <2>1. NamesObject(trace, meant, before[o], meant[pos].ref[o], pos)
    BY <1>1, <1>5, <1>7, <1>12, ValueAssumption DEF FieldMeaning
  <2>2. Fits(before[o], pos)
    BY <1>3, <1>12, ValueAssumption
  <2>3. handleMap[before[o]] # None /\ liveObj[handleMap[before[o]]] = meant[pos].ref[o]
    BY <1>2, <1>12, <2>1, <2>2 DEF TablesInv, NamesObject
  <2>4. o \in Layout[r].ext /\ o \in s.in /\ o \notin s.fds
    BY <1>7
  <2>5. work[o] = handleMap[before[o]]
    BY <1>8, <1>11, <1>12, <2>3, <2>4
  <2> QED
    BY <1>12, <2>3, <2>5 DEF TypeOK
<1>13. ASSUME NEW o \in Layout[r].in, before[o] = None
       PROVE  work[o] = None /\ meant[pos].ref[o] = 0
  <2>1. o \in Layout[r].ext /\ o \in s.in /\ o \notin s.fds
    BY <1>7
  <2>2. meant[pos].ref[o] = 0
    BY <1>1, <1>5, <1>7, <1>13 DEF FieldMeaning
  <2> QED
    BY <1>8, <1>11, <1>13, <2>1, <2>2, ValueAssumption
<1>14. ASSUME NEW o \in Layout[r].fds
       PROVE  work[o] \in Fd /\ liveFile[work[o]] = meant[pos].ref[o]
  <2>1. before[o] \in Fd /\ NamesFile(trace, before[o], meant[pos].ref[o], pos)
    BY <1>1, <1>5, <1>7 DEF FieldMeaning
  <2>2. before[o] \in MappedFd
    BY <1>3
  <2>3. /\ fdMap[before[o]] # None /\ liveFile[fdMap[before[o]]] = meant[pos].ref[o]
        /\ fd_map(before[o]) = fdMap[before[o]]
    BY <1>2, <2>1, <2>2 DEF TablesInv, NamesFile, fd_map
  <2>4. o \in Layout[r].ext /\ o \in s.fds /\ o \notin s.in
    BY <1>7
  <2>5. work[o] = fdMap[before[o]]
    BY <1>8, <1>11, <2>1, <2>3, <2>4
  <2> QED
    BY <2>1, <2>3, <2>5 DEF TypeOK
<1>15. ASSUME NEW o \in Offset
       PROVE  Referent(liveFile, liveObj, r, work, o) = meant[pos].ref[o]
  <2>1. CASE o \in Layout[r].in
    <3>1. o \notin Layout[r].fds
      BY <1>7, <2>1
    <3>2. before[o] \in Handle \/ before[o] = None
      BY <1>1, <1>5, <1>7, <2>1 DEF FieldMeaning
    <3>3. CASE before[o] \in Handle
      BY <1>12, <2>1, <3>1, <3>3 DEF Referent
    <3>4. CASE before[o] = None
      BY <1>13, <2>1, <3>1, <3>4, ValueAssumption DEF Referent
    <3> QED
      BY <3>2, <3>3, <3>4
  <2>2. CASE o \in Layout[r].fds
    BY <1>7, <1>14, <2>2 DEF Referent
  <2>3. CASE o \notin Layout[r].in /\ o \notin Layout[r].fds
    BY <1>1, <1>5, <2>3 DEF Referent, FieldMeaning
  <2> QED
    BY <2>1, <2>2, <2>3
<1> QED
  BY <1>4, <1>6, <1>13, <1>15 DEF s

(* What an ioctl learns: at most the handle it returned in the capture,    *)
(* and that one if there is room and its schema was found.                 *)
LEMMA LearnStep ==
    ASSUME SchemaComplete, TypeOK, OutputsInv, StoredInv, AtRecord, IsIoctl(event),
           NEW live \in [Layout[event.req].ext -> Value],
           handleMap' = Learn(event.after, live, find_schema(event.req))
    PROVE  /\ Stored \subseteq Stored' /\ Stored' \subseteq OutputsBy(pos)
           /\ \A h \in Handle : ~AllocsAt(trace, pos, h) => handleMap'[h] = handleMap[h]
           /\ \A h \in Handle :
                 /\ OnCourse /\ find_schema(event.req).out = SchemaOf(event.req).out
                 /\ AllocsAt(trace, pos, h) /\ Fits(h, pos + 1)
                 /\ live[Layout[event.req].out] \in Handle
                 => handleMap'[h] = live[Layout[event.req].out]
<1> DEFINE r == event.req
           key == OutputOf(event.after, SchemaOf(r))
<1>1. /\ pos \in 1..Len(trace) /\ pos \in Nat /\ Len(trace) \in Nat /\ event = trace[pos]
      /\ r \in Req /\ event.after \in [Layout[r].ext -> Value]
  BY EventFields
<1>2. handleMap \in [Handle -> Handle \cup {None}]
  BY DEF TypeOK
<1>3. Stored \subseteq OutputsBy(pos)
  BY <1>1, OutputsByGrow DEF StoredInv
<1>4. /\ key # None => key \in Handle /\ AllocsAt(trace, pos, key)
      /\ \A h : AllocsAt(trace, pos, h) => key = h
  BY <1>1, CapturedOutput
<1>5. ASSUME NEW s, s.out = None, NEW buf \in [Layout[r].ext -> Value]
      PROVE  OutputOf(buf, s) = None
  BY <1>1, <1>5, LayoutAssumption, ValueAssumption DEF OutputOf, LayoutType
<1>b. ASSUME NEW s, s.out = SchemaOf(r).out
      PROVE  \A buf : OutputOf(buf, s) = OutputOf(buf, SchemaOf(r))
  BY <1>b DEF OutputOf
<1> DEFINE val == OutputOf(live, SchemaOf(r))
<1>6. ASSUME handleMap' = handleMap
      PROVE  /\ Stored \subseteq Stored' /\ Stored' \subseteq OutputsBy(pos)
             /\ \A h \in Handle : ~AllocsAt(trace, pos, h) => handleMap'[h] = handleMap[h]
  <2>1. Stored' = Stored
    BY <1>6 DEF Stored
  <2> QED
    BY <1>3, <1>6, <2>1
<1>7. ASSUME handleMap' # handleMap
      PROVE  /\ key \in Handle /\ val \in Handle
             /\ handleMap' = [handleMap EXCEPT ![key] = val]
  <2>1. find_schema(r).out = SchemaOf(r).out
    <3>1. CASE find_schema(r).out = None
      <4>1. OutputOf(event.after, find_schema(r)) \notin Handle
        BY <1>1, <1>5, <3>1, ValueAssumption
      <4> QED
        BY <1>7, <4>1 DEF Learn
    <3> QED
      BY <3>1, FoundSchema
  <2>2. key \in Handle /\ val \in Handle /\ handleMap' = hm_put(key, val)
    <3>1. \A buf : OutputOf(buf, find_schema(r)) = OutputOf(buf, SchemaOf(r))
      BY <1>b, <2>1
    <3> QED
      BY <1>7, <3>1 DEF Learn
  <2> QED
    BY <1>7, <2>2 DEF hm_put
<1>8. ASSUME handleMap' # handleMap
      PROVE  /\ Stored \subseteq Stored' /\ Stored' \subseteq OutputsBy(pos)
             /\ \A h \in Handle : ~AllocsAt(trace, pos, h) => handleMap'[h] = handleMap[h]
  <2>1. /\ key \in Handle /\ val \in Handle /\ key # None /\ val # None
        /\ handleMap' = [handleMap EXCEPT ![key] = val]
    BY <1>7, <1>8, ValueAssumption
  <2>2. AllocsAt(trace, pos, key)
    BY <1>4, <2>1
  <2>3. key \in OutputsBy(pos)
    BY <1>1, <2>1, <2>2, OutputsByAllocs
  <2> HIDE DEF key, val
  <2>4. Stored \subseteq Stored' /\ Stored' \subseteq Stored \cup {key}
    BY <1>2, <2>1 DEF Stored
  <2>5. \A h \in Handle : ~AllocsAt(trace, pos, h) => handleMap'[h] = handleMap[h]
    BY <1>2, <2>1, <2>2
  <2> QED
    BY <1>3, <2>3, <2>4, <2>5
<1>9. ASSUME OnCourse, find_schema(r).out = SchemaOf(r).out, NEW h \in Handle,
             AllocsAt(trace, pos, h), Fits(h, pos + 1), live[Layout[r].out] \in Handle
      PROVE  handleMap'[h] = live[Layout[r].out]
  <2>1. key = h
    BY <1>4, <1>9
  <2>2. val = live[Layout[r].out]
    <3>1. Layout[r].out # None
      BY <1>1, <1>9 DEF AllocsAt, Allocates
    <3>2. (IF SchemaOf(r).out \in Layout[r].ext THEN SchemaOf(r).out ELSE None) = Layout[r].out
      BY <1>1 DEF SchemaComplete
    <3>3. SchemaOf(r).out = Layout[r].out /\ SchemaOf(r).out \in Layout[r].ext
      BY <3>1, <3>2
    <3>4. DOMAIN live = Layout[r].ext
      OBVIOUS
    <3> QED
      BY <3>3, <3>4 DEF OutputOf
  <2> HIDE DEF key, val
  <2>3. handleMap' = hm_put(h, val)
    <3>1. \A buf : OutputOf(buf, find_schema(r)) = OutputOf(buf, SchemaOf(r))
      BY <1>b, <1>9
    <3> QED
      BY <1>9, <2>1, <2>2, <3>1, ValueAssumption DEF Learn, key, val
  <2>4. hm_put(h, val) = [handleMap EXCEPT ![h] = val]
    <3>1. PICK k \in 1..pos : h \in OutputsBy(k) /\ Cardinality(OutputsBy(k)) <= HandleCapacity
      BY <1>1, <1>9 DEF Fits
    <3>2. CASE k = pos
      BY <1>1, <1>3, <3>1, <3>2, OutputsByFinite, PutHasRoom
    <3>3. CASE k # pos
      <4>1. Fits(h, pos)
        BY <1>1, <3>1, <3>3 DEF Fits
      <4>2. h \in Stored
        BY <1>9, <4>1 DEF StoredInv
      <4> QED
        BY <4>2 DEF hm_put
    <3> QED
      BY <3>2, <3>3
  <2> QED
    BY <1>2, <2>2, <2>3, <2>4
<1> QED
  BY <1>6, <1>8, <1>9

(* A record that leaves the tables as they are and brings nothing that the *)
(* capture's did not fail to bring.                                        *)
LEMMA CUnchangedStep ==
    ASSUME SchemaComplete, TypeOK, TablesFollow, AtRecord, NEW e \in Effects, Replayed(e),
           UNCHANGED <<fdMap, handleMap, liveFile, liveObj>>,
           OnCourse /\ TablesSuffice(pos) /\ e.ok = meant[pos].ok
                    /\ event.type # "close" =>
             /\ \A f \in Fd : ~OpensAt(trace, pos, f)
             /\ \A h \in Handle : ~AllocsAt(trace, pos, h)
    PROVE  TablesFollow'
<1>1. pos \in Nat /\ pos >= 1
  BY EventFields
<1>2. Stored' = Stored /\ Stored \subseteq OutputsBy(pos)
  <2>1. Stored \subseteq OutputsBy(pos - 1)
    BY DEF TablesFollow, StoredInv
  <2> QED
    BY <1>1, <2>1, OutputsByGrow DEF Stored
<1> QED
  BY <1>2, MappedAssumption, TablesStep DEF TablesFollow

LEMMA CIoctlStep ==
    ASSUME SchemaComplete, TypeOK, CaptureInv, TablesFollow, IoctlsReachCounterparts,
           CIoctl
    PROVE  TablesFollow' /\ IoctlsReachCounterparts'
<1> DEFINE f == fd_map(event.fd)
           r == event.req
           e == Effect(liveFile, liveObj, f, r, work, TRUE)
<1>1. /\ AtRecord /\ IsIoctl(event) /\ f # None /\ Replayed(e)
      /\ UNCHANGED <<fdMap, liveFile>>
  BY DEF CIoctl
<1>2. PICK result \in Results(liveObj, r, work) :
        /\ liveObj' = ObjectsAfter(liveObj, r, work, result, pos)
        /\ handleMap' = Learn(event.after, result, find_schema(r))
  BY DEF CIoctl
<1>3. /\ pos \in 1..Len(trace) /\ pos \in Nat /\ event = trace[pos]
      /\ event.type = "ioctl" /\ event.fd \in Fd /\ r \in Req
      /\ event.before \in [Layout[r].ext -> Value]
      /\ event.after \in [Layout[r].ext -> Value]
  BY <1>1, EventFields
<1>4. f \in Fd /\ work \in [Layout[r].ext -> Value]
  BY <1>1, <1>3, FdMapType, WorkType, TypeOKSplit
<1>5. /\ \E n \in Nat : liveFile \in [Fd -> 0..n] /\ liveObj \in [Handle -> 0..n]
      /\ liveObj \in [Handle -> Nat] /\ handleMap \in [Handle -> Handle \cup {None}]
  BY DEF TypeOK
<1>6. e \in Effects
  BY <1>3, <1>4, <1>5, EffectType
<1>7. /\ result \in [Layout[r].ext -> Value]
      /\ Layout[r].out # None => /\ result[Layout[r].out] \in Handle
                                 /\ liveObj[result[Layout[r].out]] = 0
  <2>1. ASSUME NEW q \in Req, NEW b \in [Layout[q].ext -> Value],
               NEW res \in Results(liveObj, q, b)
        PROVE  /\ res \in [Layout[q].ext -> Value]
               /\ Layout[q].out = None => res = b
               /\ Layout[q].out # None => /\ res[Layout[q].out] \in Handle
                                          /\ liveObj[res[Layout[q].out]] = 0
    BY ResultsType
  <2>2. r \in Req /\ work \in [Layout[r].ext -> Value] /\ result \in Results(liveObj, r, work)
    BY <1>2, <1>3, <1>4
  <2> QED
    BY <2>1, <2>2
<1>8. /\ e.file = liveFile[f] /\ e.ok = TRUE
      /\ e.ref = [o \in Offset |-> Referent(liveFile, liveObj, r, work, o)]
  BY DEF Effect
<1> HIDE DEF e
<1>9. TablesInv /\ StoredInv /\ OutputsInv
  BY DEF TablesFollow
<1>10. meant[pos] \in Effects /\ (meant[pos].ok = trace[pos].ok)
  BY <1>3 DEF TypeOK, CaptureInv, Meaning
<1>11. ASSUME SameIoctlOutcomes(pos), TablesSuffice(pos)
       PROVE  e.file = meant[pos].file /\ e.ref = meant[pos].ref
  <2>1. /\ liveFile[f] = meant[pos].file
        /\ \A o \in Offset : Referent(liveFile, liveObj, r, work, o) = meant[pos].ref[o]
    BY <1>1, <1>9, <1>11, WorkReaches
  <2>2. meant[pos].ref \in [Offset -> Nat]
    BY <1>10 DEF Effects
  <2> QED
    BY <1>8, <2>1, <2>2
<1>12. IoctlsReachCounterparts'
  BY <1>1, <1>6, <1>11, CCounterpartStep
<1>13. /\ Stored \subseteq Stored' /\ Stored' \subseteq OutputsBy(pos)
       /\ \A h \in Handle : ~AllocsAt(trace, pos, h) => handleMap'[h] = handleMap[h]
       /\ \A h \in Handle :
             /\ OnCourse /\ find_schema(r).out = SchemaOf(r).out
             /\ AllocsAt(trace, pos, h) /\ Fits(h, pos + 1)
             /\ result[Layout[r].out] \in Handle
             => handleMap'[h] = result[Layout[r].out]
  BY <1>1, <1>2, <1>7, <1>9, LearnStep
<1>14. ASSUME OnCourse, TablesSuffice(pos), NEW h \in Handle,
              AllocsAt(trace, pos, h), Fits(h, pos + 1)
       PROVE  handleMap'[h] # None /\ liveObj'[handleMap'[h]] = pos
  <2>1. find_schema(r).out = SchemaOf(r).out
    BY <1>1, <1>9, <1>14, WorkReaches DEF OnCourse
  <2>2. Layout[r].out # None
    BY <1>3, <1>14 DEF AllocsAt, Allocates
  <2>3. handleMap'[h] = result[Layout[r].out] /\ result[Layout[r].out] \in Handle
    BY <1>7, <1>13, <1>14, <2>1, <2>2
  <2>4. liveObj'[result[Layout[r].out]] = pos
    BY <1>2, <2>2, <2>3 DEF ObjectsAfter
  <2> QED
    BY <2>3, <2>4, ValueAssumption
<1>15. ASSUME OnCourse, TablesSuffice(pos), e.ok = meant[pos].ok,
              NEW h \in Handle, NEW i \in 1..(pos - 1),
              ~AllocsAt(trace, pos, h), ~DestroysAt(trace, meant, pos, i),
              handleMap[h] # None, liveObj[handleMap[h]] = i
       PROVE  handleMap'[h] # None /\ liveObj'[handleMap'[h]] = i
  <2>1. handleMap'[h] = handleMap[h] /\ handleMap[h] \in Handle
    BY <1>5, <1>13, <1>15
  <2>2. ~(Layout[r].out # None /\ result[Layout[r].out] = handleMap[h])
    BY <1>3, <1>7, <1>15
  <2>3. handleMap[h] \notin Freed(r, work)
    <3>1. SUFFICES ASSUME r \in Frees, NEW o \in Layout[r].in, work[o] = handleMap[h]
                   PROVE  FALSE
      BY DEF Freed
    <3>2. o \in Offset /\ o \in Layout[r].ext /\ o \notin Layout[r].fds
      BY <1>3, LayoutAssumption DEF LayoutType
    <3>3. /\ meant[pos].ref[o] = Referent(liveFile, liveObj, r, work, o)
          /\ event.before[o] = None => work[o] = None
      BY <1>1, <1>9, <1>15, <3>2, WorkReaches DEF OnCourse
    <3>4. event.before[o] # None
      BY <1>15, <3>1, <3>3
    <3>5. meant[pos].ref[o] = i
      BY <1>15, <2>1, <3>1, <3>2, <3>3 DEF Referent
    <3>6. trace[pos].ok
      BY <1>8, <1>10, <1>15
    <3> QED
      BY <1>1, <1>3, <1>15, <3>1, <3>4, <3>5, <3>6 DEF DestroysAt
  <2>4. liveObj'[handleMap[h]] = liveObj[handleMap[h]]
    BY <1>2, <2>1, <2>2, <2>3 DEF ObjectsAfter
  <2> QED
    BY <1>15, <2>1, <2>4
<1>16. \A g : ~OpensAt(trace, pos, g)
  BY <1>3 DEF OpensAt
<1>17. event.type # "close"
  BY <1>3
<1>18. TablesFollow'
  BY <1>1, <1>6, <1>9, <1>13, <1>14, <1>15, <1>16, <1>17, TablesStep
<1> QED
  BY <1>12, <1>18

LEMMA CIoctlFailsStep ==
    ASSUME SchemaComplete, TypeOK, CaptureInv, TablesFollow, IoctlsReachCounterparts,
           CIoctlFails
    PROVE  TablesFollow' /\ IoctlsReachCounterparts'
<1> DEFINE f == fd_map(event.fd)
           r == event.req
           e == Effect(liveFile, liveObj, f, r, work, FALSE)
<1>1. /\ AtRecord /\ IsIoctl(event) /\ f # None /\ Replayed(e)
      /\ handleMap' = Learn(event.after, work, find_schema(r))
      /\ UNCHANGED <<fdMap, liveFile, liveObj>>
  BY DEF CIoctlFails, liveVars
<1>2. /\ pos \in 1..Len(trace) /\ pos \in Nat /\ event = trace[pos]
      /\ event.type = "ioctl" /\ event.fd \in Fd /\ r \in Req
      /\ event.before \in [Layout[r].ext -> Value]
  BY <1>1, EventFields
<1>3. f \in Fd /\ work \in [Layout[r].ext -> Value]
  BY <1>1, <1>2, FdMapType, WorkType, TypeOKSplit
<1>4. \E n \in Nat : liveFile \in [Fd -> 0..n] /\ liveObj \in [Handle -> 0..n]
  BY DEF TypeOK
<1>5. e \in Effects
  BY <1>2, <1>3, <1>4, EffectType
<1>6. /\ e.file = liveFile[f] /\ e.ok = FALSE
      /\ e.ref = [o \in Offset |-> Referent(liveFile, liveObj, r, work, o)]
  BY DEF Effect
<1> HIDE DEF e
<1>7. TablesInv /\ StoredInv /\ OutputsInv
  BY DEF TablesFollow
<1>8. meant[pos] \in Effects /\ (meant[pos].ok = trace[pos].ok)
  BY <1>2 DEF TypeOK, CaptureInv, Meaning
<1>9. ASSUME SameIoctlOutcomes(pos), TablesSuffice(pos)
      PROVE  e.file = meant[pos].file /\ e.ref = meant[pos].ref
  <2>1. /\ liveFile[f] = meant[pos].file
        /\ \A o \in Offset : Referent(liveFile, liveObj, r, work, o) = meant[pos].ref[o]
    BY <1>1, <1>7, <1>9, WorkReaches
  <2>2. meant[pos].ref \in [Offset -> Nat]
    BY <1>8 DEF Effects
  <2> QED
    BY <1>6, <2>1, <2>2
<1>10. IoctlsReachCounterparts'
  BY <1>1, <1>5, <1>9, CCounterpartStep
<1>11. /\ Stored \subseteq Stored' /\ Stored' \subseteq OutputsBy(pos)
       /\ \A h \in Handle : ~AllocsAt(trace, pos, h) => handleMap'[h] = handleMap[h]
  BY <1>1, <1>3, <1>7, LearnStep
<1>12. \A g : ~OpensAt(trace, pos, g)
  BY <1>2 DEF OpensAt
<1>13. e.ok = meant[pos].ok => \A h : ~AllocsAt(trace, pos, h)
  BY <1>6, <1>8 DEF AllocsAt, Allocates
<1>14. event.type # "close"
  BY <1>2
<1>15. TablesFollow'
  BY <1>1, <1>5, <1>7, <1>11, <1>12, <1>13, <1>14, TablesStep
<1> QED
  BY <1>10, <1>15

(* The invariant is about the records and the tables only.                 *)
LEMMA CStill ==
    ASSUME TypeOK, TablesFollow, IoctlsReachCounterparts,
           UNCHANGED <<trace, meant, pos, fdMap, handleMap, liveFile, liveObj, reached>>
    PROVE  TablesFollow' /\ IoctlsReachCounterparts'
<1>1. PICK p \in Nat : p = pos
  BY DEF TypeOK
<1>2. p = pos' /\ p' = p
  BY <1>1
<1>3. /\ \A k : OutputsBy(k)' = OutputsBy(k) /\ TablesSuffice(k)' = TablesSuffice(k)
      /\ \A h, k : Fits(h, k)' = Fits(h, k)
  BY SameTrace
<1>4. Stored' = Stored
  BY DEF Stored
<1>5. \A i : SameIoctlOutcomes(i)' = SameIoctlOutcomes(i)
  BY DEF SameIoctlOutcomes
<1>6. OnCourse' => OnCourse
  <2>1. SameIoctlOutcomes(p)' = SameIoctlOutcomes(p)
        /\ TablesSuffice(p - 1)' = TablesSuffice(p - 1)
    BY <1>3, <1>5
  <2> QED
    BY <1>1, <1>2, <2>1 DEF OnCourse
<1>7. OutputsInv'
  BY DEF TablesFollow, OutputsInv, IsIoctl
<1>8. StoredInv'
  <2>1. OutputsBy(p - 1)' = OutputsBy(p - 1) /\ \A h : Fits(h, p)' = Fits(h, p)
    BY <1>3
  <2> QED
    BY <1>1, <1>2, <1>4, <1>6, <2>1 DEF TablesFollow, StoredInv
<1>9. TablesInv'
  <2>1. \A h : Fits(h, p)' = Fits(h, p)
    BY <1>3
  <2> QED
    BY <1>1, <1>2, <1>6, <2>1 DEF TablesFollow, TablesInv
<1>10. IoctlsReachCounterparts'
  BY <1>3, <1>5 DEF IoctlsReachCounterparts, IsIoctl
<1> QED
  BY <1>7, <1>8, <1>9, <1>10 DEF TablesFollow

(* Every step of the C replayer keeps the two halves of the invariant.     *)
LEMMA CStepInv ==
    ASSUME SchemaComplete, TypeOK, CaptureInv, TablesFollow, IoctlsReachCounterparts,
           CStep
    PROVE  TablesFollow' /\ IoctlsReachCounterparts'
<1> USE DEF mapVars, countVars, liveVars
<1>1. CASE CLoad \/ CTornLine \/ CFinish
  <2>1. UNCHANGED <<trace, meant, pos, fdMap, handleMap, liveFile, liveObj, reached>>
    BY <1>1 DEF CLoad, CTornLine, CFinish, Finish, Exit, replayVars
  <2> QED
    BY <2>1, CStill
<1>2. CASE ReplayFailedOpen
  <2>1. /\ AtRecord /\ Replayed(Nothing) /\ Nothing \in Effects
        /\ UNCHANGED <<fdMap, handleMap, liveFile, liveObj>>
        /\ event.type = "open" /\ event.ret = None
    BY <1>2, FileEffectType DEF ReplayFailedOpen
  <2>2. /\ \A f \in Fd : ~OpensAt(trace, pos, f)
        /\ \A h \in Handle : ~AllocsAt(trace, pos, h)
        /\ ~IsIoctl(event)
    BY <2>1, ValueAssumption DEF OpensAt, AllocsAt, Allocates, IsIoctl, event
  <2> QED
    BY <2>1, <2>2, CUnchangedStep, CCounterpartStep
<1>3. CASE COpen
  <2>1. /\ AtRecord /\ Replayed(FileEffect(pos)) /\ event.type = "open"
        /\ UNCHANGED <<handleMap, liveObj>> /\ IsOpen(event)
    BY <1>3 DEF COpen, IsOpen
  <2>2. /\ FileEffect(pos) \in Effects /\ pos \in Nat /\ pos >= 1
        /\ event.ret \in Fd
    BY <2>1, FileEffectType, EventFields DEF IsOpen
  <2>3. PICK f \in Fd :
          /\ liveFile[f] = 0
          /\ liveFile' = [liveFile EXCEPT ![f] = pos]
          /\ fdMap' = IF event.ret \in MappedFd THEN [fdMap EXCEPT ![event.ret] = f]
                                                ELSE fdMap
    BY <1>3 DEF COpen
  <2>4. /\ \A g \in Fd : OpensAt(trace, pos, g) <=> g = event.ret
        /\ \A h \in Handle : ~AllocsAt(trace, pos, h)
        /\ ~IsIoctl(event)
    BY <2>1 DEF OpensAt, AllocsAt, Allocates, IsIoctl, event
  <2>5. ASSUME NEW g \in MappedFd, NEW i \in 1..(pos - 1), ~OpensAt(trace, pos, g),
               fdMap[g] # None, liveFile[fdMap[g]] = i
        PROVE  fdMap'[g] # None /\ liveFile'[fdMap'[g]] = i
    <3>1. g \in Fd /\ fdMap \in [Fd -> Fd \cup {None}] /\ liveFile \in [Fd -> Nat]
      BY MappedAssumption DEF TypeOK
    <3>2. fdMap'[g] = fdMap[g] /\ fdMap[g] \in Fd /\ fdMap[g] # f
      BY <2>3, <2>4, <2>5, <3>1
    <3> QED
      BY <2>3, <2>5, <3>1, <3>2
  <2>6. ASSUME NEW g \in MappedFd, OpensAt(trace, pos, g)
        PROVE  fdMap'[g] # None /\ liveFile'[fdMap'[g]] = pos
    <3>1. g \in Fd /\ fdMap \in [Fd -> Fd \cup {None}] /\ liveFile \in [Fd -> Nat]
      BY MappedAssumption DEF TypeOK
    <3>2. fdMap'[g] = f
      BY <2>3, <2>4, <2>6, <3>1
    <3> QED
      BY <2>3, <3>1, <3>2, ValueAssumption
  <2>7. Stored' = Stored /\ Stored \subseteq OutputsBy(pos)
    <3>1. Stored \subseteq OutputsBy(pos - 1)
      BY DEF TablesFollow, StoredInv
    <3> QED
      BY <2>1, <2>2, <3>1, OutputsByGrow DEF Stored
  <2>8. TablesFollow'
    BY <2>1, <2>2, <2>4, <2>5, <2>6, <2>7, TablesStep DEF TablesFollow
  <2> QED
    BY <2>1, <2>2, <2>4, <2>8, CCounterpartStep
<1>4. CASE COpenError
  <2>1. /\ AtRecord /\ Replayed(Failure) /\ Failure \in Effects
        /\ UNCHANGED <<fdMap, handleMap, liveFile, liveObj>>
        /\ event.type = "open" /\ ~IsIoctl(event)
    BY <1>4, FileEffectType DEF COpenError, ReplayOpenError, IsOpen, IsIoctl
  <2>2. meant[pos].ok
    BY <2>1, EventFields DEF CaptureInv, Meaning
  <2>3. Failure.ok = FALSE
    BY DEF Failure, Nothing, FileEffect
  <2> QED
    BY <2>1, <2>2, <2>3, CUnchangedStep, CCounterpartStep
<1>5. CASE CIgnoreClose
  <2>1. /\ AtRecord /\ Replayed(Failure) /\ Failure \in Effects
        /\ UNCHANGED <<fdMap, handleMap, liveFile, liveObj>>
        /\ event.type = "close" /\ ~IsIoctl(event)
    BY <1>5, FileEffectType DEF CIgnoreClose, IsIoctl
  <2> QED
    BY <2>1, CUnchangedStep, CCounterpartStep
<1>6. CASE CSkip
  <2>1. /\ AtRecord /\ Replayed(Failure) /\ Failure \in Effects
        /\ UNCHANGED <<fdMap, handleMap, liveFile, liveObj>>
        /\ IsIoctl(event) /\ fd_map(event.fd) = None
    BY <1>6, FileEffectType DEF CSkip
  <2>2. ~(SameIoctlOutcomes(pos) /\ TablesSuffice(pos))
    BY <2>1, WorkReaches DEF TablesFollow
  <2> QED
    BY <2>1, <2>2, CUnchangedStep, CCounterpartStep DEF OnCourse
<1>7. CASE CIoctl
  BY <1>7, CIoctlStep
<1>8. CASE CIoctlFails
  BY <1>8, CIoctlFailsStep
<1> QED
  BY <1>1, <1>2, <1>3, <1>4, <1>5, <1>6, <1>7, <1>8 DEF CStep

LEMMA CInitInv == Init => CInv
<1> SUFFICES ASSUME Init PROVE CInv
  OBVIOUS
<1>1. TypeOK /\ CaptureInv
  BY InitInv DEF IInv
<1>2. /\ trace = <<>> /\ reached = <<>> /\ pos = 1 /\ Len(trace) = 0 /\ Len(reached) = 0
      /\ Stored = {}
  BY DEF Init, CaptureInit, Stored
<1>3. OutputsInv /\ StoredInv /\ TablesInv /\ IoctlsReachCounterparts
  BY <1>2 DEF OutputsInv, StoredInv, TablesInv, Fits, IoctlsReachCounterparts
<1> QED
  BY <1>1, <1>3 DEF CInv, TablesFollow

LEMMA CNextInv == SchemaComplete /\ CInv /\ [CNext]_vars => CInv'
<1> SUFFICES ASSUME SchemaComplete, CInv, [CNext]_vars PROVE CInv'
  OBVIOUS
<1>0. TypeOK /\ CaptureInv /\ TablesFollow /\ IoctlsReachCounterparts /\ TypeOK'
  BY CNextType DEF CInv
<1>1. CASE Capture
  <2>0. CaptureNext /\ UNCHANGED <<pos, fdMap, handleMap, liveFile, liveObj, reached>>
    BY <1>1 DEF Capture, replayVars
  <2>a. phase = "capture"
    BY <2>0 DEF CaptureNext, CapOpen, CapClose, CapOpenFails, CapIoctl, CapIoctlFails,
                CapEnd, Capturing
  <2>1. UNCHANGED pos /\ pos = 1 /\ pos' = 1 /\ Len(reached') = 0 /\ Stored' = Stored
    BY <1>0, <2>0, <2>a DEF CaptureInv, TypeOK, Stored
  <2>2. CaptureInv'
    BY <1>0, <2>0, <2>1, CaptureStep
  <2>3. OutputsInv'
    BY <1>0, <2>0, CaptureOutputs DEF TablesFollow
  <2>4. Stored = {}
    BY <1>0, <2>1 DEF TablesFollow, StoredInv, OutputsBy
  <2>5. StoredInv' /\ TablesInv' /\ IoctlsReachCounterparts'
    BY <2>1, <2>4 DEF StoredInv, TablesInv, Fits, IoctlsReachCounterparts
  <2> QED
    BY <1>0, <2>2, <2>3, <2>5 DEF CInv, TablesFollow
<1>2. CASE CStep
  <2>1. TablesFollow' /\ IoctlsReachCounterparts'
    BY <1>0, <1>2, CStepInv
  <2>2. UNCHANGED <<trace, meant, capFile, capObj>> /\ phase' # "capture"
    BY <1>2 DEF CStep, CLoad, ReplayFailedOpen, COpen, COpenError, ReplayOpenError,
                CIgnoreClose, CSkip, CIoctl, CIoctlFails, CTornLine, CFinish,
                Finish, Exit, Replayed, capVars, AtRecord
  <2>3. CaptureInv'
    BY <1>0, <2>2 DEF CaptureInv
  <2> QED
    BY <1>0, <2>1, <2>3 DEF CInv
<1>3. CASE UNCHANGED vars
  <2>1. TablesFollow' /\ IoctlsReachCounterparts'
    BY <1>0, <1>3, CStill DEF vars, capVars, replayVars
  <2>2. CaptureInv'
    BY <1>0, <1>3 DEF vars, capVars, replayVars, CaptureInv
  <2> QED
    BY <1>0, <2>1, <2>2 DEF CInv
<1> QED
  BY <1>1, <1>2, <1>3 DEF CNext, Terminated

(* With a complete schema, while the replay goes as the capture did and    *)
(* what the ioctls use has found room, replay.c's fd and handle tables     *)
(* lead to the live counterparts.                                          *)
THEOREM CTablesFollow ==
    ASSUME SchemaComplete
    PROVE  CSpec => []TablesFollow
<1>1. Init => CInv
  BY CInitInv
<1>2. CInv /\ [CNext]_vars => CInv'
  BY CNextInv
<1>3. CInv => TablesFollow
  BY DEF CInv
<1> QED
  BY <1>1, <1>2, <1>3, PTL DEF CSpec

(* With a complete schema, every ioctl replay.c issues reaches the live    *)
(* counterpart of what the captured ioctl reached, until an outcome        *)
(* differs, although it ignores the closes and its tables are of fixed     *)
(* size: for every layout, schema file, table size, limit on the offsets   *)
(* kept of a request, and trace length.                                    *)
THEOREM CReplayFaithful ==
    ASSUME SchemaComplete
    PROVE  CSpec => []IoctlsReachCounterparts
<1>1. Init => CInv
  BY CInitInv
<1>2. CInv /\ [CNext]_vars => CInv'
  BY CNextInv
<1>3. CInv => IoctlsReachCounterparts
  BY DEF CInv
<1> QED
  BY <1>1, <1>2, <1>3, PTL DEF CSpec
=============================================================================
