----------------------------- MODULE ReplayCInv -----------------------------
(***************************************************************************)
(* The inductive invariant behind ReplayC's IoctlsReachCounterparts: while *)
(* the replay has gone as the capture did and the tables have had room,    *)
(* they hold what the ioctls to come may name.                             *)
(***************************************************************************)
EXTENDS ReplayC, ReplayInv

(* A captured ioctl that succeeds returns a handle, and one that fails     *)
(* leaves its output field empty.                                          *)
OutputsInv ==
    \A i \in 1..Len(trace) : IsIoctl(trace[i]) /\ Layout[trace[i].req].out # None =>
        LET word == trace[i].after[Layout[trace[i].req].out]
        IN IF trace[i].ok THEN word \in Handle ELSE word = None

(* The replay went as the capture did, in tables that sufficed.            *)
OnCourse == SameIoctlOutcomes(pos) /\ TablesSuffice(pos - 1)

(* The handle table holds captured outputs only, and, on course, all that  *)
(* came while there was room for them.                                     *)
StoredInv ==
    /\ Stored \subseteq OutputsBy(pos - 1)
    /\ OnCourse => \A h \in Handle : Fits(h, pos) => h \in Stored

(* On course, what the tables hold leads to the live counterparts.         *)
TablesInv ==
    OnCourse =>
      /\ \A f \in MappedFd : \A i \in 1..(pos - 1) : NamesFile(trace, f, i, pos) =>
            fdMap[f] # None /\ liveFile[fdMap[f]] = i
      /\ \A h \in Handle : \A i \in 1..(pos - 1) :
            Fits(h, pos) /\ NamesObject(trace, meant, h, i, pos) =>
               handleMap[h] # None /\ liveObj[handleMap[h]] = i

TablesFollow == OutputsInv /\ StoredInv /\ TablesInv

CInv == TypeOK /\ CaptureInv /\ TablesFollow /\ IoctlsReachCounterparts
=============================================================================
