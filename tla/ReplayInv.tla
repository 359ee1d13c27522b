----------------------------- MODULE ReplayInv ------------------------------
(***************************************************************************)
(* The inductive invariant behind Replay's CounterpartUntilDivergence:     *)
(* what a captured fd or handle names at a point of the trace is a         *)
(* function of the records before it, and the replayer's maps follow it.   *)
(* t is a trace and m what its records meant.                              *)
(***************************************************************************)
EXTENDS Replay

OpensAt(t, k, f)  == t[k].type = "open" /\ t[k].ret = f
ClosesAt(t, k, f) == t[k].type = "close" /\ t[k].fd = f

(* Just before record p, the captured fd f names the file record i opened. *)
NamesFile(t, f, i, p) ==
    /\ i \in 1..(p - 1) /\ OpensAt(t, i, f)
    /\ \A k \in (i + 1)..(p - 1) : ~OpensAt(t, k, f) /\ ~ClosesAt(t, k, f)

Allocates(t, k) == IsIoctl(t[k]) /\ t[k].ok /\ Layout[t[k].req].out # None

AllocsAt(t, k, h) == Allocates(t, k) /\ t[k].after[Layout[t[k].req].out] = h

(* Record k destroys the object that record i created: it frees it, or     *)
(* closes the file it was created through.                                 *)
DestroysAt(t, m, k, i) ==
    \/ /\ IsIoctl(t[k]) /\ t[k].ok /\ t[k].req \in Frees
       /\ \E o \in Layout[t[k].req].in : t[k].before[o] # None /\ m[k].ref[o] = i
    \/ t[k].type = "close" /\ m[k].file = m[i].file

(* Just before record p, handle h names the object record i created.       *)
NamesObject(t, m, h, i, p) ==
    /\ i \in 1..(p - 1) /\ AllocsAt(t, i, h)
    /\ \A k \in (i + 1)..(p - 1) : ~AllocsAt(t, k, h) /\ ~DestroysAt(t, m, k, i)
-----------------------------------------------------------------------------
(* Field o of the argument of ioctl record i means what it should.         *)
FieldMeaning(t, m, i, o) ==
    LET r == t[i].req
        word == t[i].before[o]
    IN /\ o \in Layout[r].in =>
            /\ word \in Handle \cup {None}
            /\ word # None => NamesObject(t, m, word, m[i].ref[o], i)
            /\ word = None => m[i].ref[o] = 0
       /\ o \in Layout[r].fds => word \in Fd /\ NamesFile(t, word, m[i].ref[o], i)
       /\ o \notin Layout[r].in \cup Layout[r].fds => m[i].ref[o] = 0

Meaning(t, m, i) ==
    /\ t[i].type = "open"  => m[i].ok
    /\ t[i].type = "close" => /\ NamesFile(t, t[i].fd, m[i].file, i)
                              /\ m[i] = FileEffect(m[i].file)
    /\ t[i].type = "ioctl" =>
         /\ NamesFile(t, t[i].fd, m[i].file, i)
         /\ \A o \in Offset : FieldMeaning(t, m, i, o)
         /\ m[i].ok = t[i].ok
         /\ Allocates(t, i) => t[i].after[Layout[t[i].req].out] \in Handle

(* The capture: every call was made on what its record names.              *)
CaptureInv ==
    /\ \A f \in Fd : capFile[f] # 0 => NamesFile(trace, f, capFile[f], Len(trace) + 1)
    /\ \A h \in Handle : capObj[h] # 0 =>
            NamesObject(trace, meant, h, capObj[h], Len(trace) + 1)
    /\ \A i \in 1..Len(trace) : Meaning(trace, meant, i)
    /\ phase = "capture" => pos = 1

(* The replay: while it has gone as the capture did, both maps lead from   *)
(* what a number named in the capture to its live counterpart.             *)
MapsInv ==
    SameOutcomes(pos) =>
      /\ \A f \in Fd : \A i \in 1..(pos - 1) : NamesFile(trace, f, i, pos) =>
            fdMap[f] # None /\ liveFile[fdMap[f]] = i
      /\ \A h \in Handle : \A i \in 1..(pos - 1) : NamesObject(trace, meant, h, i, pos) =>
            handleMap[h] # None /\ liveObj[handleMap[h]] = i

IInv == TypeOK /\ CaptureInv /\ MapsInv /\ CounterpartUntilDivergence
=============================================================================
