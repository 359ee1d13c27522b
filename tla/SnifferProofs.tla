--------------------------- MODULE SnifferProofs ----------------------------
(***************************************************************************)
(* Why nv_sniff.c's fd tables match the kernel's, for any number of        *)
(* threads, fds, tracked fds, paths and calls: SnifferInv is inductive.    *)
(* One lemma per action; the lemmas before them say what a step of one     *)
(* thread leaves alone of the others.  Then, with that, why the log holds  *)
(* every call that returned, once, in an order the program could see, and  *)
(* why it names the file of each ioctl: LogInv is inductive.               *)
(***************************************************************************)
EXTENDS Sniffer, TLAPS

Label == {"idle", "track", "log", "flush", "close", "ioctl", "exiting"}

(* A new call goes to the end of the history. *)
LEMMA Appended ==
    ASSUME NEW s \in Seq(CallType), NEW c \in CallType
    PROVE  /\ Append(s, c) \in Seq(CallType)
           /\ Len(Append(s, c)) = Len(s) + 1
           /\ \A i \in 1..Len(s) : Append(s, c)[i] = s[i]
           /\ Append(s, c)[Len(s) + 1] = c
  OBVIOUS

(* A step of thread t moves no other thread, and forgets no call. *)
Others(t) == \A u \in Thread \ {t} : pc'[u] = pc[u] /\ cur'[u] = cur[u]
Kept == \A i \in DOMAIN calls : i \in DOMAIN calls' /\ calls'[i] = calls[i]

(* So the others stay where they are in their calls. *)
LEMMA OthersGoOn ==
    ASSUME SnifferInv, NEW t \in Thread, Others(t), Kept, NEW u \in Thread \ {t}
    PROVE  /\ InCall(u)' <=> InCall(u)
           /\ InCall(u) => /\ cur[u].call \in DOMAIN calls /\ cur'[u].call = cur[u].call
                           /\ calls'[cur[u].call] = calls[cur[u].call]
           /\ Opening(u)' <=> Opening(u)
           /\ Owns(u)' <=> Owns(u)
  BY DEF SnifferInv, CallInv, InCall, Opening, Owns, OpOf, Others, Kept

(* And own what they owned, as long as t leaves their fd alone. *)
LEMMA OwnersGoOn ==
    ASSUME SnifferInv, NEW t \in Thread, Others(t), Kept,
           NEW v \in Thread \ {t}, Owns(v)',
           NEW f, f = cur[v].fd,
           f \notin held', kernelFile'[f] = kernelFile[f],
           f \in Tracked => nv_fd_active'[f] = nv_fd_active[f] /\ nv_fd_path'[f] = nv_fd_path[f],
           ~(Owns(t)' /\ cur'[t].fd = f)
    PROVE  Owner(v)'
  <1>1. Owns(v) /\ Owner(v) /\ InCall(v)
    BY OthersGoOn DEF SnifferInv, OwnerInv, Owns, Opening, InCall
  <1>2. /\ cur'[v] = cur[v] /\ pc'[v] = pc[v]
        /\ Opening(v)' <=> Opening(v)
        /\ calls'[cur[v].call] = calls[cur[v].call]
    BY <1>1, OthersGoOn DEF Others
  <1>3. \A u \in Thread : Owns(u)' /\ cur'[u].fd = f => u = v
    <2> SUFFICES ASSUME NEW u \in Thread, Owns(u)', cur'[u].fd = f PROVE u = v
      OBVIOUS
    <2>1. u # t
      OBVIOUS
    <2>2. Owns(u) /\ cur[u].fd = f
      BY <2>1, OthersGoOn DEF Others
    <2> QED
      BY <1>1, <2>2 DEF Owner
  <1>4. /\ f \notin held' /\ kernelFile'[f] # 0
        /\ Opening(v)' => calls'[cur'[v].call].path \in Nvidia /\ kernelFile'[f] = cur'[v].call
        /\ f \in Tracked /\ pc'[v] = "close" => ~nv_fd_active'[f]
        /\ f \in Tracked /\ pc'[v] \in {"log", "flush"}
             => nv_fd_active'[f] /\ nv_fd_path'[f] = calls'[cur'[v].call].path
    BY <1>1, <1>2 DEF Owner
  <1> QED
    BY <1>2, <1>3, <1>4 DEF Owner, Tracked

(* A step after which the same threads hand out, close and hold the same    *)
(* fds disturbs none of this.                                              *)
LEMMA NoFdMoves ==
    ASSUME SnifferInv, NEW t \in Thread, Others(t), Kept, TypeOK', CallInv',
           UNCHANGED <<kernelFile, nv_fd_active, nv_fd_path, held>>,
           Owns(t)' => pc[t] = "log" /\ pc'[t] = "flush" /\ cur'[t] = cur[t] /\ Owns(t)
    PROVE  SnifferInv'
  <1>1. \A v \in Thread : Owns(v)' => Owns(v) /\ cur'[v] = cur[v] /\ Owner(v)
    BY OthersGoOn DEF SnifferInv, OwnerInv, Owns, Opening, InCall, Others
  <1>2. OwnerInv'
    <2> SUFFICES ASSUME NEW v \in Thread, Owns(v)' PROVE Owner(v)'
      BY DEF OwnerInv
    <2>1. CASE v # t
      <3>1. ~(Owns(t)' /\ cur'[t].fd = cur[v].fd)
        BY <1>1, <2>1 DEF Owner
      <3>2. cur[v].fd \notin held'
        BY <1>1 DEF Owner
      <3> QED
        BY <2>1, <3>1, <3>2, OwnersGoOn
    <2>2. CASE v = t
      <3>1. /\ pc[t] = "log" /\ pc'[t] = "flush" /\ cur'[t] = cur[t]
            /\ Owner(t) /\ Opening(t)
        BY <1>1, <2>2 DEF Owns, Opening
      <3>2. calls'[cur'[t].call] = calls[cur[t].call]
        BY <3>1 DEF SnifferInv, CallInv, InCall, Kept
      <3>3. \A u \in Thread : Owns(u)' /\ cur'[u].fd = cur'[t].fd => u = t
        BY <1>1, <3>1 DEF Owner
      <3> QED
        BY <2>2, <3>1, <3>2, <3>3 DEF Owner, Tracked, Opening
    <2> QED
      BY <2>1, <2>2
  <1>3. \A f \in Fd : kernelFile[f] # 0 =>
          kernelFile[f] \in DOMAIN calls /\ calls'[kernelFile[f]] = calls[kernelFile[f]]
    BY DEF SnifferInv, TypeOK, Kept
  <1>4. FreeInv'
    BY <1>3 DEF SnifferInv, FreeInv, Tracked
  <1>5. TablesMatchKernel'
    BY <1>3 DEF SnifferInv, FreeInv, TablesMatchKernel, Tracked
  <1> QED
    BY <1>2, <1>4, <1>5 DEF SnifferInv

(* The invariant holds at the start. *)
LEMMA Initially == Init => SnifferInv
  <1> SUFFICES ASSUME Init PROVE SnifferInv
    OBVIOUS
  <1>1. TypeOK
    BY LimitAssumption DEF Init, TypeOK, Fd, Tracked
  <1>2. CallInv /\ OwnerInv /\ FreeInv /\ TablesMatchKernel
    BY LimitAssumption DEF Init, CallInv, OwnerInv, FreeInv, TablesMatchKernel, InCall, Owns, Opening, Owner, Fd, Tracked
  <1> QED
    BY <1>1, <1>2 DEF SnifferInv

(* A failed open. *)
LEMMA RealOpenFailsKeeps ==
    ASSUME SnifferInv, NEW t \in Thread, NEW p \in Path, RealOpenFails(t, p)
    PROVE  SnifferInv'
  <1>1. /\ calls' \in Seq(CallType) /\ Len(calls') = Len(calls) + 1 /\ Len(calls) \in Nat
        /\ \A i \in 1..Len(calls) : calls'[i] = calls[i]
        /\ DOMAIN calls = 1..Len(calls) /\ DOMAIN calls' = 1..Len(calls')
    BY Appended, LimitAssumption DEF SnifferInv, TypeOK, CallType, Path, Fd, Tracked,
       RealOpenFails, Idle, Begin, NewCall, tables, logVars, is_nvidia_path, Goto,
       ThisCall
  <1>2. Others(t) /\ Kept
    BY <1>1 DEF SnifferInv, TypeOK, Others, Kept, RealOpenFails, Idle, Begin, NewCall,
       tables, logVars, is_nvidia_path, Goto, ThisCall
  <1>3. TypeOK'
    BY <1>1, <1>2, PathAssumption, SMTT(30) DEF SnifferInv, TypeOK, CallInv, InCall,
       OpOf, RealOpenFails, Idle, Begin, NewCall, tables, logVars, is_nvidia_path, Goto,
       ThisCall
  <1>4. CallInv'
    BY <1>1, <1>2, PathAssumption, SMTT(30) DEF SnifferInv, TypeOK, CallInv, InCall,
       OpOf, Others, Kept, RealOpenFails, Idle, Begin, NewCall, tables, logVars,
       is_nvidia_path, Goto, ThisCall
  <1>5. Owns(t)' => pc[t] = "log" /\ pc'[t] = "flush" /\ cur'[t] = cur[t] /\ Owns(t)
    BY <1>1 DEF SnifferInv, TypeOK, CallInv, InCall, OpOf, Owns, Opening, RealOpenFails,
       Idle, Begin, NewCall, tables, logVars, is_nvidia_path, Goto, ThisCall
  <1>6. UNCHANGED <<kernelFile, nv_fd_active, nv_fd_path, held>>
    BY DEF RealOpenFails, Idle, Begin, NewCall, tables, logVars, is_nvidia_path, Goto, ThisCall
  <1> QED
    BY <1>2, <1>3, <1>4, <1>5, <1>6, NoFdMoves

(* An ioctl that will be logged. *)
LEMMA IoctlCheckKeeps ==
    ASSUME SnifferInv, NEW t \in Thread, NEW f \in held, IoctlCheck(t, f)
    PROVE  SnifferInv'
  <1>1. /\ calls' \in Seq(CallType) /\ Len(calls') = Len(calls) + 1 /\ Len(calls) \in Nat
        /\ \A i \in 1..Len(calls) : calls'[i] = calls[i]
        /\ DOMAIN calls = 1..Len(calls) /\ DOMAIN calls' = 1..Len(calls')
    BY Appended, LimitAssumption DEF SnifferInv, TypeOK, CallType, Path, Fd, Tracked,
       IoctlCheck, Idle, Begin, NewCall, MayTouch, tables, logVars, fd_is_nvidia, Goto,
       ThisCall
  <1>2. Others(t) /\ Kept
    BY <1>1 DEF SnifferInv, TypeOK, Others, Kept, IoctlCheck, Idle, Begin, NewCall,
       MayTouch, tables, logVars, fd_is_nvidia, Goto, ThisCall
  <1>3. TypeOK'
    BY <1>1, <1>2, PathAssumption, SMTT(30) DEF SnifferInv, TypeOK, CallInv, InCall,
       OpOf, IoctlCheck, Idle, Begin, NewCall, MayTouch, tables, logVars, fd_is_nvidia,
       Goto, ThisCall
  <1>4. CallInv'
    BY <1>1, <1>2, PathAssumption, SMTT(30) DEF SnifferInv, TypeOK, CallInv, InCall,
       OpOf, Others, Kept, IoctlCheck, Idle, Begin, NewCall, MayTouch, tables, logVars,
       fd_is_nvidia, Goto, ThisCall
  <1>5. Owns(t)' => pc[t] = "log" /\ pc'[t] = "flush" /\ cur'[t] = cur[t] /\ Owns(t)
    BY <1>1 DEF SnifferInv, TypeOK, CallInv, InCall, OpOf, Owns, Opening, IoctlCheck,
       Idle, Begin, NewCall, MayTouch, tables, logVars, fd_is_nvidia, Goto, ThisCall
  <1>6. UNCHANGED <<kernelFile, nv_fd_active, nv_fd_path, held>>
    BY DEF IoctlCheck, Idle, Begin, NewCall, MayTouch, tables, logVars, fd_is_nvidia,
       Goto, ThisCall
  <1> QED
    BY <1>2, <1>3, <1>4, <1>5, <1>6, NoFdMoves

(* An ioctl that passes through. *)
LEMMA IoctlOtherKeeps ==
    ASSUME SnifferInv, NEW t \in Thread, NEW f \in held, IoctlOther(t, f)
    PROVE  SnifferInv'
  <1>1. /\ calls' \in Seq(CallType) /\ Len(calls') = Len(calls) + 1 /\ Len(calls) \in Nat
        /\ \A i \in 1..Len(calls) : calls'[i] = calls[i]
        /\ DOMAIN calls = 1..Len(calls) /\ DOMAIN calls' = 1..Len(calls')
    BY Appended, LimitAssumption DEF SnifferInv, TypeOK, CallType, Path, Fd, Tracked,
       IoctlOther, Idle, NewCall, ThisCall, MayTouch, tables, logVars, fd_is_nvidia
  <1>2. Others(t) /\ Kept
    BY <1>1 DEF SnifferInv, TypeOK, Others, Kept, IoctlOther, Idle, NewCall, ThisCall,
       MayTouch, tables, logVars, fd_is_nvidia
  <1>3. TypeOK'
    BY <1>1, <1>2, PathAssumption, SMTT(30) DEF SnifferInv, TypeOK, CallInv, InCall,
       OpOf, IoctlOther, Idle, NewCall, ThisCall, MayTouch, tables, logVars,
       fd_is_nvidia
  <1>4. CallInv'
    BY <1>1, <1>2, PathAssumption, SMTT(30) DEF SnifferInv, TypeOK, CallInv, InCall,
       OpOf, Others, Kept, IoctlOther, Idle, NewCall, ThisCall, MayTouch, tables,
       logVars, fd_is_nvidia
  <1>5. Owns(t)' => pc[t] = "log" /\ pc'[t] = "flush" /\ cur'[t] = cur[t] /\ Owns(t)
    BY <1>1 DEF SnifferInv, TypeOK, CallInv, InCall, OpOf, Owns, Opening, IoctlOther,
       Idle, NewCall, ThisCall, MayTouch, tables, logVars, fd_is_nvidia
  <1>6. UNCHANGED <<kernelFile, nv_fd_active, nv_fd_path, held>>
    BY DEF IoctlOther, Idle, NewCall, ThisCall, MayTouch, tables, logVars, fd_is_nvidia
  <1> QED
    BY <1>2, <1>3, <1>4, <1>5, <1>6, NoFdMoves

(* An ioctl without memory for the snapshots. *)
LEMMA IoctlNoMemoryKeeps ==
    ASSUME SnifferInv, NEW t \in Thread, NEW f \in held, IoctlNoMemory(t, f)
    PROVE  SnifferInv'
  <1>1. /\ calls' \in Seq(CallType) /\ Len(calls') = Len(calls) + 1 /\ Len(calls) \in Nat
        /\ \A i \in 1..Len(calls) : calls'[i] = calls[i]
        /\ DOMAIN calls = 1..Len(calls) /\ DOMAIN calls' = 1..Len(calls')
    BY Appended, LimitAssumption DEF SnifferInv, TypeOK, CallType, Path, Fd, Tracked,
       IoctlNoMemory, Idle, NewCall, ThisCall, MayTouch, tables, logVars, fd_is_nvidia
  <1>2. Others(t) /\ Kept
    BY <1>1 DEF SnifferInv, TypeOK, Others, Kept, IoctlNoMemory, Idle, NewCall,
       ThisCall, MayTouch, tables, logVars, fd_is_nvidia
  <1>3. TypeOK'
    BY <1>1, <1>2, PathAssumption, SMTT(30) DEF SnifferInv, TypeOK, CallInv, InCall,
       OpOf, IoctlNoMemory, Idle, NewCall, ThisCall, MayTouch, tables, logVars,
       fd_is_nvidia
  <1>4. CallInv'
    BY <1>1, <1>2, PathAssumption, SMTT(30) DEF SnifferInv, TypeOK, CallInv, InCall,
       OpOf, Others, Kept, IoctlNoMemory, Idle, NewCall, ThisCall, MayTouch, tables,
       logVars, fd_is_nvidia
  <1>5. Owns(t)' => pc[t] = "log" /\ pc'[t] = "flush" /\ cur'[t] = cur[t] /\ Owns(t)
    BY <1>1 DEF SnifferInv, TypeOK, CallInv, InCall, OpOf, Owns, Opening, IoctlNoMemory,
       Idle, NewCall, ThisCall, MayTouch, tables, logVars, fd_is_nvidia
  <1>6. UNCHANGED <<kernelFile, nv_fd_active, nv_fd_path, held>>
    BY DEF IoctlNoMemory, Idle, NewCall, ThisCall, MayTouch, tables, logVars, fd_is_nvidia
  <1> QED
    BY <1>2, <1>3, <1>4, <1>5, <1>6, NoFdMoves

(* The kernel's ioctl. *)
LEMMA RealIoctlKeeps ==
    ASSUME SnifferInv, NEW t \in Thread, RealIoctl(t)
    PROVE  SnifferInv'
  <1>1. calls' = calls
    BY DEF RealIoctl, At, Goto, tables, logVars
  <1>2. Others(t) /\ Kept
    BY <1>1 DEF SnifferInv, TypeOK, Others, Kept, RealIoctl, At, Goto, tables, logVars
  <1>3. TypeOK'
    BY <1>1, <1>2, PathAssumption, SMTT(30) DEF SnifferInv, TypeOK, CallInv, InCall,
       OpOf, RealIoctl, At, Goto, tables, logVars
  <1>4. CallInv'
    BY <1>1, <1>2, PathAssumption, SMTT(30) DEF SnifferInv, TypeOK, CallInv, InCall,
       OpOf, Others, Kept, RealIoctl, At, Goto, tables, logVars
  <1>5. Owns(t)' => pc[t] = "log" /\ pc'[t] = "flush" /\ cur'[t] = cur[t] /\ Owns(t)
    BY <1>1 DEF SnifferInv, TypeOK, CallInv, InCall, OpOf, Owns, Opening, RealIoctl, At,
       Goto, tables, logVars
  <1>6. UNCHANGED <<kernelFile, nv_fd_active, nv_fd_path, held>>
    BY DEF RealIoctl, At, Goto, tables, logVars
  <1> QED
    BY <1>2, <1>3, <1>4, <1>5, <1>6, NoFdMoves

(* Writing a record. *)
LEMMA LogWriteKeeps ==
    ASSUME SnifferInv, NEW t \in Thread, LogWrite(t)
    PROVE  SnifferInv'
  <1>1. calls' = calls
    BY DEF LogWrite, At, Goto, tables, Entry, fd_path
  <1>2. Others(t) /\ Kept
    BY <1>1 DEF SnifferInv, TypeOK, Others, Kept, LogWrite, At, Goto, tables, Entry, fd_path
  <1>3. TypeOK'
    <2>1. cur[t].call \in DOMAIN calls /\ calls[cur[t].call].op \in {"open", "ioctl"}
      BY DEF SnifferInv, CallInv, InCall, OpOf, LogWrite, At
    <2>2. calls[cur[t].call] \in CallType /\ cur[t].call \in Nat
      BY <2>1 DEF SnifferInv, TypeOK
    <2>3. fd_path(calls[cur[t].call].fd) \in Path \cup {None}
      BY <2>2 DEF SnifferInv, TypeOK, fd_path, Path, CallType
    <2>4. Entry(t) \in Record /\ seq_counter \in Nat
      BY <2>1, <2>2, <2>3 DEF SnifferInv, TypeOK, Entry, Record, CallType
    <2>5. buffer' \in Seq(Record) /\ Len(buffer') = Len(buffer) + 1
      BY <2>4 DEF SnifferInv, TypeOK, LogWrite
    <2> QED
      BY <1>1, <2>4, <2>5, SMTT(30) DEF SnifferInv, TypeOK, LogWrite, At, Goto, tables
  <1>4. CallInv'
    BY <1>1, <1>2, PathAssumption, SMTT(30) DEF SnifferInv, TypeOK, CallInv, InCall,
       OpOf, Others, Kept, LogWrite, At, Goto, tables, Entry, fd_path
  <1>5. Owns(t)' => pc[t] = "log" /\ pc'[t] = "flush" /\ cur'[t] = cur[t] /\ Owns(t)
    BY <1>1 DEF SnifferInv, TypeOK, CallInv, InCall, OpOf, Owns, Opening, LogWrite, At,
       Goto, tables, Entry, fd_path
  <1>6. UNCHANGED <<kernelFile, nv_fd_active, nv_fd_path, held>>
    BY DEF LogWrite, At, Goto, tables, Entry, fd_path
  <1> QED
    BY <1>2, <1>3, <1>4, <1>5, <1>6, NoFdMoves

(* The destructor. *)
LEMMA nv_sniff_finiKeeps ==
    ASSUME SnifferInv, NEW t \in Thread, nv_sniff_fini(t)
    PROVE  SnifferInv'
  <1>1. calls' = calls
    BY DEF nv_sniff_fini, At, Goto, tables
  <1>2. Others(t) /\ Kept
    BY <1>1 DEF SnifferInv, TypeOK, Others, Kept, nv_sniff_fini, At, Goto, tables
  <1>3. TypeOK'
    BY <1>1, <1>2, PathAssumption, SMTT(30) DEF SnifferInv, TypeOK, CallInv, InCall,
       OpOf, nv_sniff_fini, At, Goto, tables
  <1>4. CallInv'
    BY <1>1, <1>2, PathAssumption, SMTT(30) DEF SnifferInv, TypeOK, CallInv, InCall,
       OpOf, Others, Kept, nv_sniff_fini, At, Goto, tables
  <1>5. Owns(t)' => pc[t] = "log" /\ pc'[t] = "flush" /\ cur'[t] = cur[t] /\ Owns(t)
    BY <1>1 DEF SnifferInv, TypeOK, CallInv, InCall, OpOf, Owns, Opening, nv_sniff_fini,
       At, Goto, tables
  <1>6. UNCHANGED <<kernelFile, nv_fd_active, nv_fd_path, held>>
    BY DEF nv_sniff_fini, At, Goto, tables
  <1> QED
    BY <1>2, <1>3, <1>4, <1>5, <1>6, NoFdMoves

(* The end of the program, which changes nothing else. *)
LEMMA EndKeeps ==
    ASSUME SnifferInv, alive' \in BOOLEAN,
           UNCHANGED <<pc, cur, kernelFile, tables, lock, logVars, held, calls, returned>>
    PROVE  SnifferInv'
  <1>1. TypeOK'
    BY DEF SnifferInv, TypeOK, tables, logVars, Tracked, Fd, CallType, Record, Path
  <1>2. CallInv'
    BY DEF SnifferInv, CallInv, InCall, OpOf
  <1>3. OwnerInv'
    BY DEF SnifferInv, OwnerInv, Owner, Owns, Opening, OpOf, tables, Tracked, Fd
  <1>4. FreeInv' /\ TablesMatchKernel'
    BY DEF SnifferInv, FreeInv, TablesMatchKernel, tables, Tracked, Fd
  <1> QED
    BY <1>1, <1>2, <1>3, <1>4 DEF SnifferInv

(* What the program is given at the end of a call is its own. *)
LEMMA HandOut ==
    ASSUME SnifferInv, NEW t \in Thread, pc[t] \in {"log", "flush"},
           Others(t), pc'[t] = "idle",
           UNCHANGED <<cur, kernelFile, nv_fd_active, nv_fd_path, calls>>,
           held' = held \cup ({cur[t].fd} \ {None})
    PROVE  held' \subseteq Fd /\ OwnerInv' /\ FreeInv' /\ TablesMatchKernel'
  <1>1. Kept
    BY DEF Kept
  <1>2. /\ cur[t].fd \in Fd \cup {None} /\ cur[t].call \in DOMAIN calls
        /\ OpOf(t) = "ioctl" => cur[t].fd \in held
        /\ OpOf(t) \in {"open", "ioctl"}
    BY DEF SnifferInv, TypeOK, CallInv, InCall
  <1>3. Opening(t) => Owns(t) /\ Owner(t)
    BY DEF SnifferInv, OwnerInv, Owns
  <1>4. \A f \in held' : f \in held \/ (f = cur[t].fd /\ f \in Fd /\ Opening(t))
    BY <1>2 DEF Opening
  <1>5. ASSUME NEW v \in Thread, Owns(v)'
        PROVE  Owner(v)'
    <2>1. v # t
      BY <1>5 DEF Owns, Opening
    <2>2. Owns(v) /\ Owner(v)
      BY <1>1, <1>5, <2>1, OthersGoOn DEF SnifferInv, OwnerInv
    <2>3. cur[v].fd \notin held'
      BY <1>3, <1>4, <2>1, <2>2 DEF Owner
    <2>4. ~Owns(t)'
      BY DEF Owns, Opening
    <2> QED
      BY <1>1, <1>5, <2>1, <2>3, <2>4, OwnersGoOn
  <1>6. \A f \in Fd : f \in held' => kernelFile[f] # 0
    BY <1>3, <1>4 DEF SnifferInv, FreeInv, Owner
  <1>7. ASSUME NEW f \in held' \cap Tracked
        PROVE  /\ nv_fd_active[f] <=> calls[kernelFile[f]].path \in Nvidia
               /\ nv_fd_active[f] => nv_fd_path[f] = calls[kernelFile[f]].path
    <2>1. CASE f \in held
      BY <2>1 DEF SnifferInv, TablesMatchKernel
    <2>2. CASE f = cur[t].fd /\ Opening(t)
      BY <1>3, <2>2 DEF Owner
    <2> QED
      BY <1>4, <2>1, <2>2
  <1> QED
    BY <1>4, <1>5, <1>6, <1>7
       DEF SnifferInv, TypeOK, OwnerInv, FreeInv, TablesMatchKernel, Tracked, Fd

(* The end of a logged call. *)
LEMMA LogFlushKeeps ==
    ASSUME SnifferInv, NEW t \in Thread, LogFlush(t)
    PROVE  SnifferInv'
  <1>1. Others(t) /\ pc'[t] = "idle"
    BY DEF SnifferInv, TypeOK, Others, LogFlush, Goto
  <1>2. held' \subseteq Fd /\ OwnerInv' /\ FreeInv' /\ TablesMatchKernel'
    BY <1>1, HandOut DEF LogFlush, At, tables
  <1>3. disk' \in Seq(Record) /\ Len(disk') = Len(disk) + Len(buffer)
    BY DEF SnifferInv, TypeOK, LogFlush
  <1>4. buffer' \in Seq(Record) /\ Len(buffer') = 0
    BY DEF LogFlush
  <1>5. cur[t].call \in DOMAIN calls
    BY DEF SnifferInv, CallInv, InCall, LogFlush, At
  <1>6. TypeOK'
    BY <1>2, <1>3, <1>4, <1>5, SMTT(30) DEF SnifferInv, TypeOK, LogFlush, At, Goto, tables
  <1>7. CallInv'
    BY DEF SnifferInv, TypeOK, CallInv, InCall, OpOf, LogFlush, Goto
  <1> QED
    BY <1>2, <1>6, <1>7 DEF SnifferInv

(* The end of an open when there is no log. *)
LEMMA LogOffKeeps ==
    ASSUME SnifferInv, NEW t \in Thread, LogOff(t)
    PROVE  SnifferInv'
  <1>1. Others(t) /\ pc'[t] = "idle"
    BY DEF SnifferInv, TypeOK, Others, LogOff, Goto
  <1>2. held' \subseteq Fd /\ OwnerInv' /\ FreeInv' /\ TablesMatchKernel'
    BY <1>1, HandOut DEF LogOff, At, tables
  <1>3. cur[t].call \in DOMAIN calls
    BY DEF SnifferInv, CallInv, InCall, LogOff, At
  <1>4. TypeOK'
    BY <1>2, <1>3, SMTT(30) DEF SnifferInv, TypeOK, LogOff, At, Goto, tables, logVars
  <1>5. CallInv'
    BY DEF SnifferInv, TypeOK, CallInv, InCall, OpOf, LogOff, Goto
  <1> QED
    BY <1>2, <1>4, <1>5 DEF SnifferInv

(* An open of an NVIDIA path: the fd was free, so nobody else has it. *)
LEMMA RealOpenKeeps ==
    ASSUME SnifferInv, NEW t \in Thread, NEW p \in Path, RealOpen(t, p)
    PROVE  SnifferInv'
  <1> DEFINE n == Len(calls) + 1
  <1>1. PICK f \in Fd :
          /\ kernelFile[f] = 0 /\ kernelFile' = [kernelFile EXCEPT ![f] = n]
          /\ pc' = [pc EXCEPT ![t] = "track"]
          /\ cur' = [cur EXCEPT ![t] = [call |-> n, fd |-> f]]
          /\ calls' = Append(calls, [op |-> "open", fd |-> f, path |-> p, file |-> n,
                                     after |-> returned])
    BY DEF RealOpen, NewCall, Begin, Goto, ThisCall
  <1>2. /\ calls' \in Seq(CallType) /\ Len(calls') = n /\ n \in Nat
        /\ \A i \in 1..Len(calls) : calls'[i] = calls[i]
        /\ DOMAIN calls = 1..Len(calls) /\ DOMAIN calls' = 1..n
        /\ calls'[n].path = p /\ calls'[n].op = "open"
    BY <1>1, Appended DEF SnifferInv, TypeOK, CallType, Path
  <1>3. /\ UNCHANGED <<alive, nv_fd_active, nv_fd_path, lock, log_fp, seq_counter, buffer, disk>>
        /\ UNCHANGED <<held, returned>> /\ p \in Nvidia
    BY DEF RealOpen, tables, logVars, is_nvidia_path
  <1>4. Others(t) /\ Kept /\ pc'[t] = "track" /\ cur'[t] = [call |-> n, fd |-> f]
    BY <1>1, <1>2 DEF SnifferInv, TypeOK, Others, Kept
  <1>5. TypeOK'
    BY <1>1, <1>2, <1>3, SMTT(30) DEF SnifferInv, TypeOK
  <1>6. CallInv'
    BY <1>2, <1>3, <1>4, OthersGoOn DEF SnifferInv, CallInv, InCall, OpOf, Others
  <1>7. f \notin held /\ (f \in Tracked => ~nv_fd_active[f]) /\ kernelFile'[f] = n
    BY <1>1 DEF SnifferInv, TypeOK, FreeInv
  <1>8. \A v \in Thread \ {t} : Owns(v)' => Owns(v) /\ Owner(v) /\ cur'[v] = cur[v] /\ cur[v].fd # f
    BY <1>1, <1>4, OthersGoOn DEF SnifferInv, OwnerInv, Owner, Others
  <1>9. OwnerInv'
    <2>1. ASSUME NEW v \in Thread \ {t}, Owns(v)'
          PROVE  Owner(v)'
      <3>1. kernelFile'[cur[v].fd] = kernelFile[cur[v].fd] /\ cur[v].fd \notin held'
        BY <1>1, <1>3, <1>8, <2>1 DEF SnifferInv, TypeOK, Owner
      <3> QED
        BY <1>3, <1>4, <1>8, <2>1, <3>1, OwnersGoOn
    <2>2. Owner(t)'
      BY <1>2, <1>3, <1>4, <1>7, <1>8 DEF Owner, Opening, OpOf
    <2> QED
      BY <2>1, <2>2 DEF OwnerInv
  <1>10. FreeInv' /\ TablesMatchKernel'
    <2>1. \A g \in Fd \ {f} : kernelFile'[g] = kernelFile[g] /\
            (kernelFile[g] # 0 => calls'[kernelFile[g]] = calls[kernelFile[g]])
      BY <1>1, <1>2 DEF SnifferInv, TypeOK
    <2> QED
      BY <1>2, <1>3, <1>7, <2>1
         DEF SnifferInv, FreeInv, TablesMatchKernel, Path, Tracked
  <1> QED
    BY <1>5, <1>6, <1>9, <1>10 DEF SnifferInv

(* An open of another path: the fd was free, so its entry says inactive. *)
LEMMA OpenOtherKeeps ==
    ASSUME SnifferInv, NEW t \in Thread, NEW p \in Path, OpenOther(t, p)
    PROVE  SnifferInv'
  <1> DEFINE n == Len(calls) + 1
  <1>1. PICK f \in Fd :
          /\ kernelFile[f] = 0 /\ kernelFile' = [kernelFile EXCEPT ![f] = n]
          /\ calls' = Append(calls, [op |-> "open", fd |-> f, path |-> p, file |-> n,
                                     after |-> returned])
          /\ held' = held \cup {f}
    BY DEF OpenOther, NewCall, ThisCall
  <1>2. /\ calls' \in Seq(CallType) /\ Len(calls') = n /\ n \in Nat
        /\ \A i \in 1..Len(calls) : calls'[i] = calls[i]
        /\ DOMAIN calls = 1..Len(calls) /\ DOMAIN calls' = 1..n /\ calls'[n].path = p
    BY <1>1, Appended DEF SnifferInv, TypeOK, CallType, Path
  <1>3. /\ UNCHANGED <<alive, nv_fd_active, nv_fd_path, lock, log_fp, seq_counter, buffer, disk>>
        /\ UNCHANGED <<pc, cur>> /\ returned' = returned \cup {n} /\ p \notin Nvidia /\ ~InCall(t)
    BY DEF OpenOther, tables, logVars, is_nvidia_path, ThisCall, Idle, InCall
  <1>4. Others(t) /\ Kept
    BY <1>2, <1>3 DEF Others, Kept
  <1>5. TypeOK'
    BY <1>1, <1>2, <1>3, SMTT(30) DEF SnifferInv, TypeOK
  <1>6. CallInv'
    BY <1>1, <1>2, <1>3 DEF SnifferInv, CallInv, InCall, OpOf
  <1>7. (f \in Tracked => ~nv_fd_active[f]) /\ kernelFile'[f] = n
    BY <1>1 DEF SnifferInv, TypeOK, FreeInv
  <1>8. OwnerInv'
    <2> SUFFICES ASSUME NEW v \in Thread, Owns(v)' PROVE Owner(v)'
      BY DEF OwnerInv
    <2>1. v # t /\ ~Owns(t)'
      BY <1>3 DEF Owns, Opening, InCall
    <2>2. Owner(v) /\ cur[v].fd # f
      BY <1>1, <1>4, <2>1, OthersGoOn DEF SnifferInv, OwnerInv, Owner
    <2>3. kernelFile'[cur[v].fd] = kernelFile[cur[v].fd] /\ cur[v].fd \notin held'
      BY <1>1, <2>2 DEF SnifferInv, TypeOK, Owner
    <2> QED
      BY <1>3, <1>4, <2>1, <2>3, OwnersGoOn
  <1>9. FreeInv' /\ TablesMatchKernel'
    <2>1. \A g \in Fd \ {f} : kernelFile'[g] = kernelFile[g] /\
            (kernelFile[g] # 0 => calls'[kernelFile[g]] = calls[kernelFile[g]])
      BY <1>1, <1>2 DEF SnifferInv, TypeOK
    <2>2. FreeInv'
      <3> SUFFICES ASSUME NEW g \in Fd
                   PROVE  IF kernelFile'[g] = 0 THEN g \notin held' /\ (g \in Tracked => ~nv_fd_active[g])
                                                ELSE calls'[kernelFile'[g]].path \in Path
        BY <1>3 DEF FreeInv, Tracked, Fd, Path
      <3>1. CASE g = f
        BY <1>2, <1>7, <3>1
      <3>2. CASE g # f
        BY <1>1, <2>1, <3>2 DEF SnifferInv, FreeInv
      <3> QED
        BY <3>1, <3>2
    <2>3. ASSUME NEW g \in held' \cap Tracked
          PROVE  /\ nv_fd_active[g] <=> calls'[kernelFile'[g]].path \in Nvidia
                 /\ nv_fd_active[g] => nv_fd_path[g] = calls'[kernelFile'[g]].path
      <3>1. CASE g = f
        BY <1>2, <1>3, <1>7, <3>1
      <3>2. CASE g # f
        <4>1. g \in held \cap Tracked /\ kernelFile[g] # 0 /\ g \in Fd
          BY <1>1, <2>3, <3>2 DEF SnifferInv, TypeOK, FreeInv
        <4> QED
          BY <2>1, <3>2, <4>1 DEF SnifferInv, TablesMatchKernel
      <3> QED
        BY <3>1, <3>2
    <2> QED
      BY <1>3, <2>2, <2>3 DEF TablesMatchKernel, Tracked, Fd
  <1> QED
    BY <1>5, <1>6, <1>8, <1>9 DEF SnifferInv

(* The entry is written for the fd that t alone has. *)
LEMMA track_fdKeeps ==
    ASSUME SnifferInv, NEW t \in Thread, track_fd(t)
    PROVE  SnifferInv'
  <1> DEFINE f == cur[t].fd
             path == calls[cur[t].call].path
  <1>1. /\ pc[t] = "track" /\ pc' = [pc EXCEPT ![t] = "log"]
        /\ UNCHANGED <<alive, cur, kernelFile, lock, log_fp, seq_counter, buffer, disk>>
        /\ UNCHANGED <<held, calls, returned>>
    BY DEF track_fd, At, Goto, logVars
  <1>2. /\ f \in Fd /\ cur[t].call \in DOMAIN calls /\ OpOf(t) = "open" /\ OpOf(t)' = "open"
        /\ Owns(t) /\ Opening(t) /\ Owner(t)
    BY <1>1 DEF SnifferInv, CallInv, InCall, OwnerInv, Owns, Opening, OpOf
  <1>3. Others(t) /\ Kept /\ pc'[t] = "log" /\ Opening(t)'
    BY <1>1, <1>2, PathAssumption DEF SnifferInv, TypeOK, Others, Kept, Opening, OpOf
  <1>4. /\ path \in Nvidia /\ f \notin held /\ kernelFile[f] = cur[t].call /\ kernelFile[f] # 0
        /\ path \in Path
    BY <1>2 DEF Owner, Path
  <1>5. /\ nv_fd_active' \in [Tracked -> BOOLEAN] /\ nv_fd_path' \in [Tracked -> Nvidia \cup {None}]
        /\ f \in Tracked => nv_fd_active'[f] /\ nv_fd_path'[f] = path
        /\ \A g \in Tracked \ {f} : nv_fd_active'[g] = nv_fd_active[g] /\ nv_fd_path'[g] = nv_fd_path[g]
    <2>1. CASE f \in Tracked
      BY <1>4, <2>1 DEF track_fd, SnifferInv, TypeOK
    <2>2. CASE f \notin Tracked
      BY <2>2 DEF track_fd, SnifferInv, TypeOK, tables
    <2> QED
      BY <2>1, <2>2
  <1>6. TypeOK'
    BY <1>1, <1>5 DEF SnifferInv, TypeOK, Tracked, Fd, CallType, Record, Path
  <1>7. CallInv'
    BY <1>1, <1>2, <1>3 DEF SnifferInv, TypeOK, CallInv, InCall, OpOf
  <1>8. OwnerInv'
    <2>1. \A v \in Thread \ {t} : Owns(v)' => Owns(v) /\ Owner(v) /\ cur'[v] = cur[v] /\ cur[v].fd # f
      BY <1>2, <1>3, OthersGoOn DEF SnifferInv, OwnerInv, Owner, Others
    <2>2. ASSUME NEW v \in Thread \ {t}, Owns(v)'
          PROVE  Owner(v)'
      <3>1. cur[v].fd \notin held' /\ cur[v].fd # f
        BY <1>1, <2>1, <2>2 DEF Owner
      <3> QED
        BY <1>1, <1>3, <1>5, <2>2, <3>1, OwnersGoOn
    <2>3. Owner(t)'
      BY <1>1, <1>3, <1>4, <1>5, <2>1 DEF Owner, Tracked, Fd
    <2> QED
      BY <2>2, <2>3 DEF OwnerInv
  <1>9. FreeInv'
    BY <1>1, <1>4, <1>5 DEF SnifferInv, FreeInv, Tracked, Fd, Path
  <1>10. TablesMatchKernel'
    BY <1>1, <1>4, <1>5 DEF SnifferInv, TablesMatchKernel, Tracked, Fd
  <1> QED
    BY <1>6, <1>7, <1>8, <1>9, <1>10 DEF SnifferInv

(* The entry is cleared for an fd that the program gives up and no thread uses. *)
LEMMA untrack_fdKeeps ==
    ASSUME SnifferInv, NEW t \in Thread, NEW f \in held, untrack_fd(t, f)
    PROVE  SnifferInv'
  <1> DEFINE n == Len(calls) + 1
  <1>1. /\ pc[t] = "idle" /\ pc' = [pc EXCEPT ![t] = "close"]
        /\ cur' = [cur EXCEPT ![t] = [call |-> n, fd |-> f]]
        /\ calls' = Append(calls, [op |-> "close", fd |-> f, path |-> None,
                                   file |-> kernelFile[f], after |-> returned])
        /\ held' = held \ {f} /\ NobodyUses(f)
        /\ UNCHANGED <<alive, kernelFile, lock, log_fp, seq_counter, buffer, disk, returned>>
    BY DEF untrack_fd, Idle, NewCall, Begin, Goto, ThisCall, logVars
  <1>2. f \in Fd /\ kernelFile[f] # 0 /\ kernelFile[f] \in Nat
    BY DEF SnifferInv, TypeOK, FreeInv
  <1>3. /\ calls' \in Seq(CallType) /\ Len(calls') = n /\ n \in Nat
        /\ \A i \in 1..Len(calls) : calls'[i] = calls[i]
        /\ DOMAIN calls = 1..Len(calls) /\ DOMAIN calls' = 1..n /\ calls'[n].op = "close"
    BY <1>1, <1>2, Appended DEF SnifferInv, TypeOK, CallType
  <1>4. Others(t) /\ Kept /\ pc'[t] = "close" /\ cur'[t] = [call |-> n, fd |-> f]
    BY <1>1, <1>3 DEF SnifferInv, TypeOK, Others, Kept
  <1>5. /\ nv_fd_active' \in [Tracked -> BOOLEAN] /\ nv_fd_path' \in [Tracked -> Nvidia \cup {None}]
        /\ f \in Tracked => ~nv_fd_active'[f]
        /\ \A g \in Tracked \ {f} : nv_fd_active'[g] = nv_fd_active[g] /\ nv_fd_path'[g] = nv_fd_path[g]
    <2>1. CASE f \in Tracked
      BY <2>1 DEF untrack_fd, SnifferInv, TypeOK
    <2>2. CASE f \notin Tracked
      BY <2>2 DEF untrack_fd, SnifferInv, TypeOK, tables
    <2> QED
      BY <2>1, <2>2
  <1>6. TypeOK'
    BY <1>1, <1>2, <1>3, <1>5, SMTT(30) DEF SnifferInv, TypeOK
  <1>7. CallInv'
    <2> SUFFICES ASSUME NEW v \in Thread, InCall(v)'
                 PROVE  /\ cur'[v].call \in DOMAIN calls'
                        /\ pc'[v] \in {"track", "close"} => cur'[v].fd \in Fd
                        /\ pc'[v] = "track" => OpOf(v)' = "open"
                        /\ pc'[v] = "close" => OpOf(v)' = "close"
                        /\ pc'[v] = "ioctl" => OpOf(v)' = "ioctl"
                        /\ pc'[v] \in {"log", "flush"} => OpOf(v)' \in {"open", "ioctl"}
                        /\ OpOf(v)' = "ioctl" => cur'[v].fd \in held'
      BY DEF CallInv, Fd
    <2>1. CASE v = t
      BY <1>2, <1>3, <1>4, <2>1 DEF OpOf
    <2>2. CASE v # t
      <3>1. InCall(v) /\ cur'[v] = cur[v] /\ pc'[v] = pc[v] /\ OpOf(v)' = OpOf(v) /\ cur[v].fd # f
        BY <1>1, <1>4, <2>2, OthersGoOn DEF Others, OpOf, NobodyUses
      <3>2. cur[v].call \in DOMAIN calls'
        BY <1>3, <3>1 DEF SnifferInv, CallInv
      <3> QED
        BY <1>1, <3>1, <3>2 DEF SnifferInv, CallInv
    <2> QED
      BY <2>1, <2>2
  <1>8. OwnerInv'
    <2>1. \A v \in Thread \ {t} : Owns(v)' => Owns(v) /\ Owner(v) /\ cur'[v] = cur[v] /\ cur[v].fd # f
      BY <1>4, OthersGoOn DEF SnifferInv, OwnerInv, Owner, Others
    <2>2. ASSUME NEW v \in Thread \ {t}, Owns(v)'
          PROVE  Owner(v)'
      <3>1. cur[v].fd \notin held' /\ cur[v].fd # f
        BY <1>1, <2>1, <2>2 DEF Owner
      <3> QED
        BY <1>1, <1>4, <1>5, <2>2, <3>1, OwnersGoOn
    <2>3. Owner(t)'
      BY <1>1, <1>2, <1>4, <1>5, <2>1 DEF Owner, Opening, Tracked, Fd
    <2> QED
      BY <2>2, <2>3 DEF OwnerInv
  <1>9. FreeInv' /\ TablesMatchKernel'
    <2>1. \A g \in Fd : kernelFile[g] # 0 => calls'[kernelFile[g]] = calls[kernelFile[g]]
      BY <1>3 DEF SnifferInv, TypeOK
    <2>2. FreeInv'
      BY <1>1, <1>2, <1>5, <2>1 DEF SnifferInv, FreeInv, Tracked, Fd, Path
    <2>3. \A g \in held' : g \in held /\ g # f /\ kernelFile[g] # 0
      BY <1>1 DEF SnifferInv, TypeOK, FreeInv
    <2>4. TablesMatchKernel'
      BY <1>1, <1>5, <2>1, <2>3 DEF SnifferInv, TypeOK, TablesMatchKernel, Tracked, Fd
    <2> QED
      BY <2>2, <2>4
  <1> QED
    BY <1>6, <1>7, <1>8, <1>9 DEF SnifferInv

(* The kernel frees the fd, whose entry was cleared before. *)
LEMMA RealCloseKeeps ==
    ASSUME SnifferInv, NEW t \in Thread, RealClose(t)
    PROVE  SnifferInv'
  <1> DEFINE f == cur[t].fd
  <1>1. /\ pc[t] = "close" /\ pc' = [pc EXCEPT ![t] = "idle"]
        /\ kernelFile' = [kernelFile EXCEPT ![f] = 0]
        /\ returned' = returned \cup {cur[t].call}
        /\ UNCHANGED <<alive, cur, nv_fd_active, nv_fd_path, lock, log_fp, seq_counter>>
        /\ UNCHANGED <<buffer, disk, held, calls>>
    BY DEF RealClose, At, Goto, logVars, tables
  <1>2. f \in Fd /\ cur[t].call \in DOMAIN calls /\ Owns(t) /\ Owner(t)
    BY <1>1 DEF SnifferInv, CallInv, InCall, OwnerInv, Owns
  <1>3. Others(t) /\ Kept /\ pc'[t] = "idle" /\ ~Owns(t)'
    BY <1>1 DEF SnifferInv, TypeOK, Others, Kept, Owns, Opening
  <1>4. /\ f \notin held /\ (f \in Tracked => ~nv_fd_active[f]) /\ kernelFile'[f] = 0
        /\ \A g \in Fd \ {f} : kernelFile'[g] = kernelFile[g]
    BY <1>1, <1>2 DEF SnifferInv, TypeOK, Owner
  <1>5. TypeOK'
    <2>1. kernelFile \in [Fd -> 0..Len(calls)] /\ 0 \in 0..Len(calls)
      BY DEF SnifferInv, TypeOK
    <2>2. kernelFile' \in [Fd -> 0..Len(calls')]
      <3>1. kernelFile' \in [Fd -> 0..Len(calls)]
        BY <1>1, <2>1
      <3> QED
        BY <1>1, <3>1
    <2> QED
      BY <1>1, <1>2, <2>2 DEF SnifferInv, TypeOK, Tracked, Fd, CallType, Record, Path
  <1>6. CallInv'
    BY <1>1 DEF SnifferInv, TypeOK, CallInv, InCall, OpOf
  <1>7. OwnerInv'
    <2> SUFFICES ASSUME NEW v \in Thread, Owns(v)' PROVE Owner(v)'
      BY DEF OwnerInv
    <2>1. v # t
      BY <1>3
    <2>2. Owns(v) /\ Owner(v) /\ cur[v].fd # f
      BY <1>2, <1>3, <2>1, OthersGoOn DEF SnifferInv, OwnerInv, Owner
    <2>3. kernelFile'[cur[v].fd] = kernelFile[cur[v].fd] /\ cur[v].fd \notin held'
      BY <1>1, <2>2 DEF SnifferInv, TypeOK, Owner
    <2> QED
      BY <1>1, <1>3, <2>1, <2>3, OwnersGoOn
  <1>8. FreeInv'
    BY <1>1, <1>4 DEF SnifferInv, FreeInv, Tracked, Fd, Path
  <1>9. TablesMatchKernel'
    BY <1>1, <1>4 DEF SnifferInv, TypeOK, TablesMatchKernel, Tracked, Fd
  <1> QED
    BY <1>5, <1>6, <1>7, <1>8, <1>9 DEF SnifferInv

(* Every step keeps the invariant. *)
LEMMA StepKeeps == SnifferInv /\ [Next]_vars => SnifferInv'
  <1> SUFFICES ASSUME SnifferInv, [Next]_vars PROVE SnifferInv'
    OBVIOUS
  <1>1. ASSUME NEW t \in Thread, Continue(t) PROVE SnifferInv'
    <2>1. CASE Ends(t)
      BY <2>1, EndKeeps DEF Ends
    <2> QED
      BY <1>1, <2>1, track_fdKeeps, RealCloseKeeps, RealIoctlKeeps, LogWriteKeeps,
         LogFlushKeeps, LogOffKeeps DEF Continue
  <1>2. ASSUME NEW t \in Thread, Call(t) PROVE SnifferInv'
    BY <1>2, RealOpenKeeps, RealOpenFailsKeeps, OpenOtherKeeps, untrack_fdKeeps, IoctlCheckKeeps,
       IoctlOtherKeeps, IoctlNoMemoryKeeps, nv_sniff_finiKeeps DEF Call
  <1>3. CASE Kill
    BY <1>3, EndKeeps DEF Kill
  <1>4. CASE UNCHANGED vars
    <2>1. alive' \in BOOLEAN
      BY <1>4 DEF SnifferInv, TypeOK, vars
    <2> QED
      BY <1>4, <2>1, EndKeeps DEF vars
  <1> QED
    BY <1>1, <1>2, <1>3, <1>4 DEF Next, Quiet

(* SnifferInv holds in every state, whatever the threads do. *)
THEOREM SnifferIsConsistent == Spec => []SnifferInv
  <1> QED
    BY Initially, StepKeeps, PTL DEF Spec

(* The variables keep their types, and the numbers given out are the       *)
(* records written.                                                        *)
THEOREM TypesHold == Spec => []TypeOK
  <1>1. SnifferInv => TypeOK
    BY DEF SnifferInv
  <1> QED
    BY <1>1, SnifferIsConsistent, PTL

(* An fd the program holds is in the tables exactly when it is an NVIDIA   *)
(* device, under the path it was opened by: for any number of threads, no  *)
(* reuse of an fd leaves a stale entry or wipes out a new one.             *)
THEOREM TablesAlwaysMatch == Spec => []TablesMatchKernel
  <1>1. SnifferInv => TablesMatchKernel
    BY DEF SnifferInv
  <1> QED
    BY <1>1, SnifferIsConsistent, PTL

-----------------------------------------------------------------------------
(* A step of thread t: what is new in the history is t's own call.         *)
Extends ==
    \/ calls' = calls
    \/ \E c \in CallType : calls' = Append(calls, c) /\ c.after = returned /\ c.file \in 0..(Len(calls) + 1)
Returns(t) ==
    /\ returned \subseteq returned'
    /\ \A c \in returned' \ returned :
         (InCall(t) /\ ~InCall(t)' /\ c = cur[t].call) \/ c = ThisCall
HeldStay == \A f \in held : kernelFile'[f] = kernelFile[f]
Begins(t, n) ==
    InCall(t)' =>
      \/ InCall(t) /\ cur'[t] = cur[t]
      \/ /\ cur'[t].call = n /\ n \notin returned' /\ calls'[n].fd = cur'[t].fd
         /\ calls'[n].op = "ioctl" =>
              /\ calls'[n].file = kernelFile'[cur'[t].fd]
              /\ cur'[t].fd \in Tracked /\ calls'[n].file # 0
              /\ calls'[calls'[n].file].path \in Nvidia
Acts(t, n) == Others(t) /\ Extends /\ Returns(t) /\ HeldStay /\ Begins(t, n)

(* A step that leaves the log alone returns no call that has to be in it,  *)
(* and hands out no fd whose open has to be.                               *)
LeavesLog(t) ==
    /\ UNCHANGED <<disk, buffer, lock, log_fp>>
    /\ pc[t] # "flush" /\ pc'[t] # "flush"
    /\ log_fp = "open" =>
         /\ \A c \in returned' \ returned :
              /\ calls'[c].op = "open" => calls'[c].path \notin Nvidia
              /\ calls'[c].op = "ioctl" /\ calls'[c].fd \in Tracked =>
                   calls'[c].file # 0 /\ calls'[calls'[c].file].path \notin Nvidia
         /\ \A f \in held' \ held : calls'[kernelFile'[f]].path \notin Nvidia

(* The calls so far are kept, and a new one is the next. *)
LEMMA ExtendsKeeps ==
    ASSUME SnifferInv, Extends
    PROVE  /\ Kept /\ Len(calls) \in Nat /\ DOMAIN calls = 1..Len(calls)
           /\ DOMAIN calls' = 1..Len(calls')
           /\ Len(calls') \in {Len(calls), Len(calls) + 1}
           /\ \A c \in DOMAIN calls' \ DOMAIN calls :
                c = ThisCall /\ calls'[c].after = returned /\ calls'[c].file \in 0..Len(calls')
  <1>1. calls \in Seq(CallType)
    BY DEF SnifferInv, TypeOK
  <1>2. CASE calls' = calls
    BY <1>1, <1>2 DEF Kept
  <1>3. ASSUME NEW c \in CallType, calls' = Append(calls, c),
               c.after = returned, c.file \in 0..(Len(calls) + 1)
        PROVE  /\ Kept /\ DOMAIN calls' = 1..Len(calls') /\ Len(calls') = Len(calls) + 1
               /\ calls'[Len(calls) + 1] = c
    BY <1>1, <1>3, Appended DEF Kept
  <1> QED
    BY <1>1, <1>2, <1>3 DEF Extends, ThisCall

(* Whether a call was on an NVIDIA device stays so. *)
LEMMA StaysNvidia ==
    ASSUME HistoryInv, SnifferInv, Kept, NEW c \in DOMAIN calls
    PROVE  (OnNvidia(c)' <=> OnNvidia(c)) /\ (MustBeLogged(c)' <=> MustBeLogged(c))
  <1>1. calls'[c] = calls[c]
    BY DEF Kept
  <1>2. calls[c].file # 0 => calls'[calls[c].file] = calls[calls[c].file]
    BY DEF Kept, HistoryInv, SnifferInv, TypeOK
  <1> QED
    BY <1>1, <1>2 DEF OnNvidia, MustBeLogged, OpensNvidia, Tracked, Fd

(* A step keeps HistoryInv if it begins at most the next call, n, for t. *)
LEMMA HistoryKept ==
    ASSUME SnifferInv, SnifferInv', HistoryInv, NEW t \in Thread, NEW n, n = ThisCall, Acts(t, n)
    PROVE  HistoryInv'
  <1> USE DEF Acts
  <1> DEFINE Sound(u, c) ==
               /\ c \notin returned
               /\ calls[c].fd = cur[u].fd
               /\ calls[c].op = "ioctl" =>
                    /\ calls[c].file = kernelFile[cur[u].fd]
                    /\ cur[u].fd \in Tracked /\ OnNvidia(c)
  <1>1. /\ Kept /\ Len(calls) \in Nat /\ DOMAIN calls = 1..Len(calls)
        /\ DOMAIN calls' = 1..Len(calls')
        /\ Len(calls') \in {Len(calls), Len(calls) + 1}
        /\ \A c \in DOMAIN calls' \ DOMAIN calls :
             c = n /\ calls'[c].after = returned /\ calls'[c].file \in 0..Len(calls')
        /\ n = Len(calls) + 1 /\ n \notin DOMAIN calls
    <2>1. n = Len(calls) + 1
      BY DEF ThisCall
    <2>2. Len(calls) \in Nat /\ DOMAIN calls = 1..Len(calls)
      BY ExtendsKeeps
    <2>3. n \notin DOMAIN calls
      BY <2>1, <2>2
    <2> QED
      BY <2>1, <2>3, ExtendsKeeps
  <1>2. ASSUME NEW c \in DOMAIN calls'
        PROVE  calls'[c].after \subseteq returned' /\ calls'[c].file \in 0..Len(calls')
    <2>1. CASE c \in DOMAIN calls
      <3>1. calls'[c] = calls[c] /\ calls[c].after \subseteq returned /\ calls[c].file \in 0..Len(calls)
        BY <1>1, <2>1 DEF Kept, HistoryInv
      <3>2. Len(calls) \in Nat /\ Len(calls') \in {Len(calls), Len(calls) + 1}
        BY <1>1
      <3>3. calls[c].file \in 0..Len(calls')
        BY <3>1, <3>2
      <3> QED
        BY <3>1, <3>3 DEF Returns
    <2>2. CASE c \notin DOMAIN calls
      BY <1>1, <2>2 DEF Returns
    <2> QED
      BY <2>1, <2>2
  <1>3. ASSUME NEW u \in Thread, InCall(u), cur'[u] = cur[u], u # t \/ InCall(t)',
               NEW c, c = cur[u].call
        PROVE  c # n /\ Sound(u, c)'
    <2>1. c \in DOMAIN calls /\ c # n
      <3>1. c \in DOMAIN calls
        BY <1>3 DEF SnifferInv, CallInv
      <3> QED
        BY <1>1, <3>1
    <2>2. calls'[c] = calls[c] /\ c \notin returned /\ calls[c].fd = cur[u].fd
      BY <1>1, <1>3, <2>1 DEF Kept, HistoryInv
    <2>3. c \notin returned'
      <3> SUFFICES ASSUME c \in returned' PROVE FALSE
        OBVIOUS
      <3>1. InCall(t) /\ ~InCall(t)' /\ c = cur[t].call
        BY <1>1, <2>1, <2>2 DEF Returns
      <3>2. u = t
        BY <1>3, <3>1 DEF HistoryInv
      <3> QED
        BY <1>3, <3>1, <3>2
    <2>4. ASSUME calls[c].op = "ioctl"
          PROVE  /\ calls'[c].file = kernelFile'[cur[u].fd]
                 /\ cur[u].fd \in Tracked /\ OnNvidia(c)'
      <3>1. /\ calls[c].file = kernelFile[cur[u].fd]
            /\ cur[u].fd \in Tracked /\ OnNvidia(c) /\ cur[u].fd \in held
        BY <1>3, <2>4 DEF HistoryInv, SnifferInv, CallInv, OpOf
      <3>2. OnNvidia(c)'
        BY <1>1, <2>1, <3>1, StaysNvidia
      <3> QED
        BY <2>2, <3>1, <3>2 DEF HeldStay
    <2>5. Tracked' = Tracked
      BY DEF Tracked, Fd
    <2> QED
      BY <1>3, <2>1, <2>2, <2>3, <2>4, <2>5
  <1>4. ASSUME NEW u \in Thread, InCall(u)'
        PROVE  (InCall(u) /\ cur'[u] = cur[u]) \/ (u = t /\ cur'[t].call = n)
    BY <1>4, OthersGoOn, <1>1 DEF Others, Begins
  <1>5. ASSUME NEW u \in Thread, InCall(u)', NEW c, c = cur'[u].call
        PROVE  Sound(u, c)' /\ \A v \in Thread : InCall(v)' /\ cur'[v].call = c => v = u
    <2>1. CASE InCall(u) /\ cur'[u] = cur[u]
      <3>1. c = cur[u].call /\ (u # t \/ InCall(t)') /\ Sound(u, c)' /\ c # n
        BY <1>3, <1>5, <2>1
      <3>2. ASSUME NEW v \in Thread, InCall(v)', cur'[v].call = c PROVE v = u
        <4>1. InCall(v) /\ cur[v].call = c
          BY <1>4, <3>1, <3>2
        <4> QED
          BY <2>1, <3>1, <4>1 DEF HistoryInv
      <3> QED
        BY <3>1, <3>2
    <2>2. CASE u = t /\ ~(InCall(t) /\ cur'[t] = cur[t])
      <3>1. ASSUME NEW v \in Thread, InCall(v)', cur'[v].call = c PROVE v = u
        <4> SUFFICES ASSUME v # t PROVE FALSE
          BY <2>2
        <4>1. InCall(v) /\ cur'[v] = cur[v]
          BY <1>4, <3>1
        <4>2. cur[v].call # n
          BY <1>3, <4>1
        <4> QED
          BY <1>4, <1>5, <2>2, <3>1, <4>1, <4>2
      <3>2. Tracked' = Tracked
        BY DEF Tracked, Fd
      <3>3. c = n /\ Sound(t, n)'
        BY <1>5, <2>2, <3>2 DEF Begins, OnNvidia
      <3> QED
        BY <2>2, <3>1, <3>3
    <2> QED
      BY <1>4, <1>5, <2>1, <2>2
  <1>6. \A u \in Thread : InCall(u)' =>
          /\ Sound(u, cur[u].call)'
          /\ \A v \in Thread : InCall(v)' /\ cur'[v].call = cur'[u].call => v = u
    <2> SUFFICES ASSUME NEW u \in Thread, InCall(u)'
                 PROVE  /\ Sound(u, cur[u].call)'
                        /\ \A v \in Thread : InCall(v)' /\ cur'[v].call = cur'[u].call => v = u
      OBVIOUS
    <2>1. PICK c : c = cur'[u].call
      OBVIOUS
    <2> QED
      BY <1>5, <2>1 DEF OnNvidia
  <1> QED
    BY <1>2, <1>6 DEF HistoryInv, OpOf

(* A call that begins is the next, and is not among those that returned. *)
LEMMA NextCall ==
    ASSUME SnifferInv, NEW c \in CallType, calls' = Append(calls, c), c.after = returned,
           c.file \in 0..(Len(calls) + 1)
    PROVE  /\ Extends /\ Kept /\ calls'[ThisCall] = c /\ ThisCall \in Nat
           /\ ThisCall \notin DOMAIN calls /\ ThisCall \notin returned
           /\ \A f \in Fd : kernelFile[f] \in 0..Len(calls)
           /\ \A f \in Fd : kernelFile[f] \in 0..(Len(calls) + 1)
           /\ \A f \in held : f \in Fd /\ kernelFile[f] # 0 /\ kernelFile[f] \in DOMAIN calls
                              /\ calls'[kernelFile[f]] = calls[kernelFile[f]]
  <1>1. calls \in Seq(CallType) /\ returned \subseteq DOMAIN calls /\ held \subseteq Fd
    BY DEF SnifferInv, TypeOK
  <1>2. /\ calls'[ThisCall] = c /\ Len(calls) \in Nat /\ DOMAIN calls = 1..Len(calls)
        /\ \A i \in 1..Len(calls) : calls'[i] = calls[i]
    BY <1>1, Appended DEF ThisCall
  <1>3. \A f \in Fd : kernelFile[f] \in 0..Len(calls)
    BY DEF SnifferInv, TypeOK
  <1>4. \A f \in held : f \in Fd /\ kernelFile[f] # 0
    BY DEF SnifferInv, TypeOK, FreeInv
  <1>5. Extends /\ Kept
    BY ExtendsKeeps DEF Extends
  <1>6. ThisCall \in Nat /\ ThisCall \notin DOMAIN calls
    BY <1>2 DEF ThisCall
  <1>7. \A f \in Fd : kernelFile[f] \in 0..(Len(calls) + 1)
    BY <1>2, <1>3
  <1>8. \A f \in held : kernelFile[f] \in DOMAIN calls
    BY <1>2, <1>3, <1>4
  <1> QED
    BY <1>1, <1>2, <1>3, <1>4, <1>5, <1>6, <1>7, <1>8

(* An open of an NVIDIA device begins. *)
LEMMA RealOpenActs ==
    ASSUME SnifferInv, NEW t \in Thread, NEW p \in Path, RealOpen(t, p), NEW n, n = ThisCall
    PROVE  Acts(t, n) /\ LeavesLog(t)
  <1>1. PICK f \in Fd :
          /\ kernelFile[f] = 0 /\ kernelFile' = [kernelFile EXCEPT ![f] = n]
          /\ calls' = Append(calls, [op |-> "open", fd |-> f, path |-> p, file |-> n,
                                     after |-> returned])
          /\ pc' = [pc EXCEPT ![t] = "track"]
          /\ cur' = [cur EXCEPT ![t] = [call |-> n, fd |-> f]]
    BY DEF RealOpen, NewCall, Begin, Goto
  <1> DEFINE c == [op |-> "open", fd |-> f, path |-> p, file |-> n, after |-> returned]
  <1>2. UNCHANGED <<disk, buffer, lock, log_fp, held, returned>> /\ pc[t] = "idle"
    BY DEF RealOpen, logVars, Idle
  <1>3. c \in CallType /\ c.after = returned /\ c.file \in 0..(Len(calls) + 1)
    BY DEF SnifferInv, TypeOK, CallType, Path, ThisCall
  <1>4. /\ Extends /\ Kept /\ calls'[n] = c /\ n \notin returned
        /\ \A g \in held : g \in Fd /\ kernelFile[g] # 0
    BY <1>1, <1>3, NextCall
  <1>5. /\ Others(t) /\ pc'[t] = "track" /\ cur'[t] = [call |-> n, fd |-> f]
        /\ \A g \in Fd \ {f} : kernelFile'[g] = kernelFile[g]
    BY <1>1 DEF SnifferInv, TypeOK, Others
  <1> HIDE DEF c
  <1>6. HeldStay /\ Returns(t)
    BY <1>1, <1>2, <1>4, <1>5 DEF HeldStay, Returns
  <1>7. Begins(t, n)
    BY <1>2, <1>4, <1>5 DEF Begins, c
  <1> QED
    BY <1>2, <1>4, <1>5, <1>6, <1>7 DEF Acts, LeavesLog

(* The file of a held fd is a call made before. *)
LEMMA NextCallFile ==
    ASSUME SnifferInv
    PROVE  /\ Len(calls) \in Nat /\ 0 \in 0..(Len(calls) + 1)
           /\ \A f \in held : f \in Fd /\ kernelFile[f] \in Nat /\ kernelFile[f] \in 0..(Len(calls) + 1)
           /\ returned \in SUBSET Nat
  <1>1. Len(calls) \in Nat /\ DOMAIN calls = 1..Len(calls)
    BY DEF SnifferInv, TypeOK
  <1>2. \A f \in held : f \in Fd /\ kernelFile[f] \in 0..Len(calls)
    BY DEF SnifferInv, TypeOK
  <1>3. returned \in SUBSET Nat
    BY <1>1 DEF SnifferInv, TypeOK
  <1> QED
    BY <1>1, <1>2, <1>3

(* A failed open begins to be logged. *)
LEMMA RealOpenFailsActs ==
    ASSUME SnifferInv, NEW t \in Thread, NEW p \in Path, RealOpenFails(t, p), NEW n, n = ThisCall
    PROVE  Acts(t, n) /\ LeavesLog(t)
  <1> DEFINE c == [op |-> "open", fd |-> None, path |-> p, file |-> 0, after |-> returned]
  <1>0. calls' = Append(calls, c)
    BY DEF RealOpenFails, NewCall, Begin, Goto
  <1>1. /\ pc' = [pc EXCEPT ![t] = "log"]
        /\ cur' = [cur EXCEPT ![t] = [call |-> n, fd |-> None]]
        /\ UNCHANGED <<disk, buffer, lock, log_fp, kernelFile, returned>> /\ held' \subseteq held /\ pc[t] = "idle"
    BY DEF RealOpenFails, NewCall, Begin, Goto, Idle, logVars
  <1>2. c \in CallType /\ c.after = returned /\ c.file \in 0..(Len(calls) + 1)
    BY NextCallFile DEF SnifferInv, TypeOK, CallType, Path
  <1>3. /\ Extends /\ Kept /\ calls'[n] = c /\ n \notin returned
        /\ \A g \in held : g \in Fd /\ kernelFile[g] # 0 /\ calls'[kernelFile[g]] = calls[kernelFile[g]]
    BY <1>0, <1>2, NextCall
  <1>4. Others(t) /\ pc'[t] = "log" /\ cur'[t] = [call |-> n, fd |-> None]
    BY <1>1 DEF SnifferInv, TypeOK, Others
  <1> HIDE DEF c
  <1>c. calls'[n].op = "open" /\ calls'[n].fd = None /\ calls'[n].path = p /\ calls'[n].file = 0
    BY <1>3 DEF c
  <1>5. HeldStay /\ Returns(t)
    BY <1>1, <1>3 DEF HeldStay, Returns
  <1>6. Begins(t, n)
    BY <1>c, <1>1, <1>3, <1>4 DEF Begins
  <1> QED
    BY <1>1, <1>3, <1>4, <1>5, <1>6 DEF Acts, LeavesLog

(* A close begins. *)
LEMMA untrack_fdActs ==
    ASSUME SnifferInv, NEW t \in Thread, NEW f \in held, untrack_fd(t, f), NEW n, n = ThisCall
    PROVE  Acts(t, n) /\ LeavesLog(t)
  <1> DEFINE c == [op |-> "close", fd |-> f, path |-> None, file |-> kernelFile[f], after |-> returned]
  <1>0. calls' = Append(calls, c)
    BY DEF untrack_fd, NewCall, Begin, Goto
  <1>1. /\ pc' = [pc EXCEPT ![t] = "close"]
        /\ cur' = [cur EXCEPT ![t] = [call |-> n, fd |-> f]]
        /\ UNCHANGED <<disk, buffer, lock, log_fp, kernelFile, returned>> /\ held' \subseteq held /\ pc[t] = "idle"
    BY DEF untrack_fd, NewCall, Begin, Goto, Idle, logVars
  <1>2. c \in CallType /\ c.after = returned /\ c.file \in 0..(Len(calls) + 1)
    BY NextCallFile DEF SnifferInv, TypeOK, CallType, Path
  <1>3. /\ Extends /\ Kept /\ calls'[n] = c /\ n \notin returned
        /\ \A g \in held : g \in Fd /\ kernelFile[g] # 0 /\ calls'[kernelFile[g]] = calls[kernelFile[g]]
    BY <1>0, <1>2, NextCall
  <1>4. Others(t) /\ pc'[t] = "close" /\ cur'[t] = [call |-> n, fd |-> f]
    BY <1>1 DEF SnifferInv, TypeOK, Others
  <1> HIDE DEF c
  <1>c. calls'[n].op = "close" /\ calls'[n].fd = f /\ calls'[n].path = None /\ calls'[n].file = kernelFile[f]
    BY <1>3 DEF c
  <1>5. HeldStay /\ Returns(t)
    BY <1>1, <1>3 DEF HeldStay, Returns
  <1>6. Begins(t, n)
    BY <1>c, <1>1, <1>3, <1>4 DEF Begins
  <1> QED
    BY <1>1, <1>3, <1>4, <1>5, <1>6 DEF Acts, LeavesLog

(* An ioctl on a device begins: the tables say so, and match the kernel. *)
LEMMA IoctlCheckActs ==
    ASSUME SnifferInv, NEW t \in Thread, NEW f \in held, IoctlCheck(t, f), NEW n, n = ThisCall
    PROVE  Acts(t, n) /\ LeavesLog(t)
  <1> DEFINE c == [op |-> "ioctl", fd |-> f, path |-> None, file |-> kernelFile[f], after |-> returned]
  <1>0. calls' = Append(calls, c)
    BY DEF IoctlCheck, NewCall, Begin, Goto
  <1>1. /\ pc' = [pc EXCEPT ![t] = "ioctl"]
        /\ cur' = [cur EXCEPT ![t] = [call |-> n, fd |-> f]]
        /\ UNCHANGED <<disk, buffer, lock, log_fp, kernelFile, returned>> /\ held' \subseteq held /\ pc[t] = "idle"
    BY DEF IoctlCheck, NewCall, Begin, Goto, Idle, logVars
  <1>2. c \in CallType /\ c.after = returned /\ c.file \in 0..(Len(calls) + 1)
    BY NextCallFile DEF SnifferInv, TypeOK, CallType, Path
  <1>3. /\ Extends /\ Kept /\ calls'[n] = c /\ n \notin returned
        /\ \A g \in held : g \in Fd /\ kernelFile[g] # 0 /\ calls'[kernelFile[g]] = calls[kernelFile[g]]
    BY <1>0, <1>2, NextCall
  <1>4. Others(t) /\ pc'[t] = "ioctl" /\ cur'[t] = [call |-> n, fd |-> f]
    BY <1>1 DEF SnifferInv, TypeOK, Others
  <1> HIDE DEF c
  <1>c. calls'[n].op = "ioctl" /\ calls'[n].fd = f /\ calls'[n].path = None /\ calls'[n].file = kernelFile[f]
    BY <1>3 DEF c
  <1>5. HeldStay /\ Returns(t)
    BY <1>1, <1>3 DEF HeldStay, Returns
  <1>6. f \in Tracked /\ calls[kernelFile[f]].path \in Nvidia
    BY DEF IoctlCheck, fd_is_nvidia, SnifferInv, TablesMatchKernel
  <1>7. Begins(t, n)
    BY <1>c, <1>1, <1>3, <1>4, <1>6 DEF Begins
  <1> QED
    BY <1>1, <1>3, <1>4, <1>5, <1>7 DEF Acts, LeavesLog

(* An ioctl that the log may do without. *)
LEMMA IoctlOtherActs ==
    ASSUME SnifferInv, NEW t \in Thread, NEW f \in held, IoctlOther(t, f), NEW n, n = ThisCall
    PROVE  Acts(t, n) /\ LeavesLog(t)
  <1> DEFINE c == [op |-> "ioctl", fd |-> f, path |-> None, file |-> kernelFile[f], after |-> returned]
  <1>0. calls' = Append(calls, c)
    BY DEF IoctlOther, NewCall
  <1>1. /\ returned' = returned \cup {n}
        /\ UNCHANGED <<disk, buffer, lock, log_fp, kernelFile, held, pc, cur>> /\ pc[t] = "idle"
    BY DEF IoctlOther, NewCall, Idle, logVars
  <1>2. c \in CallType /\ c.after = returned /\ c.file \in 0..(Len(calls) + 1)
    BY NextCallFile DEF SnifferInv, TypeOK, CallType, Path
  <1>3. /\ Extends /\ Kept /\ calls'[n] = c /\ n \notin returned
        /\ \A g \in held : g \in Fd /\ kernelFile[g] # 0 /\ calls'[kernelFile[g]] = calls[kernelFile[g]]
    BY <1>0, <1>2, NextCall
  <1>4. Others(t) /\ ~InCall(t)'
    BY <1>1 DEF Others, InCall
  <1> HIDE DEF c
  <1>c. calls'[n].op = "ioctl" /\ calls'[n].fd = f /\ calls'[n].path = None /\ calls'[n].file = kernelFile[f]
    BY <1>3 DEF c
  <1>5. HeldStay /\ Returns(t)
    BY <1>1, <1>3 DEF HeldStay, Returns
  <1>6. log_fp = "open" /\ f \in Tracked => calls[kernelFile[f]].path \notin Nvidia
    BY DEF IoctlOther, fd_is_nvidia, SnifferInv, TablesMatchKernel
  <1>7. Begins(t, n)
    BY <1>c, <1>4 DEF Begins
  <1>8. LeavesLog(t)
    BY <1>c, <1>1, <1>3, <1>6 DEF LeavesLog
  <1> QED
    BY <1>3, <1>4, <1>5, <1>7, <1>8 DEF Acts

(* An ioctl without memory for the snapshots. *)
LEMMA IoctlNoMemoryActs ==
    ASSUME SnifferInv, NEW t \in Thread, NEW f \in held, IoctlNoMemory(t, f), NEW n, n = ThisCall
    PROVE  Acts(t, n) /\ LeavesLog(t)
  <1> DEFINE c == [op |-> "unlogged", fd |-> f, path |-> None, file |-> kernelFile[f], after |-> returned]
  <1>0. calls' = Append(calls, c)
    BY DEF IoctlNoMemory, NewCall
  <1>1. /\ returned' = returned \cup {n}
        /\ UNCHANGED <<disk, buffer, lock, log_fp, kernelFile, held, pc, cur>> /\ pc[t] = "idle"
    BY DEF IoctlNoMemory, NewCall, Idle, logVars
  <1>2. c \in CallType /\ c.after = returned /\ c.file \in 0..(Len(calls) + 1)
    BY NextCallFile DEF SnifferInv, TypeOK, CallType, Path
  <1>3. /\ Extends /\ Kept /\ calls'[n] = c /\ n \notin returned
        /\ \A g \in held : g \in Fd /\ kernelFile[g] # 0 /\ calls'[kernelFile[g]] = calls[kernelFile[g]]
    BY <1>0, <1>2, NextCall
  <1>4. Others(t) /\ ~InCall(t)'
    BY <1>1 DEF Others, InCall
  <1> HIDE DEF c
  <1>c. calls'[n].op = "unlogged" /\ calls'[n].fd = f /\ calls'[n].path = None /\ calls'[n].file = kernelFile[f]
    BY <1>3 DEF c
  <1>5. HeldStay /\ Returns(t)
    BY <1>1, <1>3 DEF HeldStay, Returns
  <1>6. Begins(t, n)
    BY <1>c, <1>4 DEF Begins
  <1>7. LeavesLog(t)
    BY <1>c, <1>1, <1>3 DEF LeavesLog
  <1> QED
    BY <1>3, <1>4, <1>5, <1>6, <1>7 DEF Acts

(* An open of another path hands out its fd at once. *)
LEMMA OpenOtherActs ==
    ASSUME SnifferInv, NEW t \in Thread, NEW p \in Path, OpenOther(t, p), NEW n, n = ThisCall
    PROVE  Acts(t, n) /\ LeavesLog(t)
  <1>1. PICK f \in Fd :
          /\ kernelFile[f] = 0 /\ kernelFile' = [kernelFile EXCEPT ![f] = n]
          /\ calls' = Append(calls, [op |-> "open", fd |-> f, path |-> p, file |-> n,
                                     after |-> returned])
          /\ held' = held \cup {f}
    BY DEF OpenOther, NewCall
  <1> DEFINE c == [op |-> "open", fd |-> f, path |-> p, file |-> n, after |-> returned]
  <1>g. held' = held \cup {f}
    BY <1>1
  <1>2. /\ UNCHANGED <<disk, buffer, lock, log_fp, pc, cur>> /\ pc[t] = "idle"
        /\ returned' = returned \cup {n} /\ p \notin Nvidia
    BY DEF OpenOther, logVars, Idle, is_nvidia_path
  <1>3. c \in CallType /\ c.after = returned /\ c.file \in 0..(Len(calls) + 1)
    BY DEF SnifferInv, TypeOK, CallType, Path, ThisCall
  <1>4. /\ Extends /\ Kept /\ calls'[n] = c /\ n \notin returned
        /\ \A g \in held : g \in Fd /\ kernelFile[g] # 0
    BY <1>1, <1>3, NextCall
  <1>5. /\ Others(t) /\ ~InCall(t)' /\ kernelFile'[f] = n
        /\ \A g \in Fd \ {f} : kernelFile'[g] = kernelFile[g]
    BY <1>1, <1>2 DEF SnifferInv, TypeOK, Others, InCall
  <1> HIDE DEF c
  <1>c. calls'[n].op = "open" /\ calls'[n].path = p
    BY <1>4 DEF c
  <1>6. HeldStay /\ Returns(t)
    BY <1>1, <1>2, <1>4, <1>5 DEF HeldStay, Returns
  <1>7. LeavesLog(t)
    BY <1>c, <1>g, <1>2, <1>5 DEF LeavesLog
  <1> QED
    BY <1>4, <1>5, <1>6, <1>7 DEF Acts, Begins

(* The entry is written. *)
LEMMA track_fdActs ==
    ASSUME SnifferInv, NEW t \in Thread, track_fd(t), NEW n
    PROVE  Acts(t, n) /\ LeavesLog(t)
  <1>1. /\ pc[t] = "track" /\ pc' = [pc EXCEPT ![t] = "log"]
        /\ UNCHANGED <<disk, buffer, lock, log_fp, cur, kernelFile, held, calls, returned>>
    BY DEF track_fd, At, Goto, logVars
  <1>2. Others(t) /\ InCall(t) /\ pc'[t] = "log"
    BY <1>1 DEF SnifferInv, TypeOK, Others, InCall
  <1> QED
    BY <1>1, <1>2 DEF Acts, LeavesLog, Extends, Returns, HeldStay, Begins

(* The ioctl is issued. *)
LEMMA RealIoctlActs ==
    ASSUME SnifferInv, NEW t \in Thread, RealIoctl(t), NEW n
    PROVE  Acts(t, n) /\ LeavesLog(t)
  <1>1. /\ pc[t] = "ioctl" /\ pc' = [pc EXCEPT ![t] = "log"]
        /\ UNCHANGED <<disk, buffer, lock, log_fp, cur, kernelFile, held, calls, returned>>
    BY DEF RealIoctl, At, Goto, logVars
  <1>2. Others(t) /\ InCall(t) /\ pc'[t] = "log"
    BY <1>1 DEF SnifferInv, TypeOK, Others, InCall
  <1> QED
    BY <1>1, <1>2 DEF Acts, LeavesLog, Extends, Returns, HeldStay, Begins

(* A close returns; nobody holds the fd. *)
LEMMA RealCloseActs ==
    ASSUME SnifferInv, NEW t \in Thread, RealClose(t), NEW n
    PROVE  Acts(t, n) /\ LeavesLog(t)
  <1>1. /\ pc[t] = "close" /\ pc' = [pc EXCEPT ![t] = "idle"]
        /\ kernelFile' = [kernelFile EXCEPT ![cur[t].fd] = 0]
        /\ returned' = returned \cup {cur[t].call}
        /\ UNCHANGED <<disk, buffer, lock, log_fp, cur, held, calls>>
    BY DEF RealClose, At, Goto, logVars
  <1>2. Others(t) /\ InCall(t) /\ ~InCall(t)' /\ pc'[t] = "idle"
    BY <1>1 DEF SnifferInv, TypeOK, Others, InCall
  <1>3. calls[cur[t].call].op = "close" /\ cur[t].fd \notin held /\ held \subseteq Fd
    BY <1>1, <1>2 DEF SnifferInv, TypeOK, CallInv, OpOf, OwnerInv, Owner, Owns
  <1>4. HeldStay
    BY <1>1, <1>3 DEF HeldStay, SnifferInv, TypeOK
  <1>5. LeavesLog(t)
    BY <1>1, <1>2, <1>3 DEF LeavesLog
  <1> QED
    BY <1>1, <1>2, <1>4, <1>5 DEF Acts, Extends, Returns, Begins

(* Without a log, an open returns. *)
LEMMA LogOffActs ==
    ASSUME SnifferInv, NEW t \in Thread, LogOff(t), NEW n
    PROVE  Acts(t, n) /\ LeavesLog(t)
  <1>1. /\ pc[t] = "log" /\ pc' = [pc EXCEPT ![t] = "idle"] /\ log_fp # "open"
        /\ returned' = returned \cup {cur[t].call}
        /\ UNCHANGED <<disk, buffer, lock, log_fp, cur, kernelFile, calls>>
    BY DEF LogOff, At, Goto, logVars
  <1>2. Others(t) /\ InCall(t) /\ ~InCall(t)' /\ pc'[t] = "idle"
    BY <1>1 DEF SnifferInv, TypeOK, Others, InCall
  <1> QED
    BY <1>1, <1>2 DEF Acts, LeavesLog, Extends, Returns, HeldStay, Begins

(* Writing a record. *)
LEMMA LogWriteActs ==
    ASSUME SnifferInv, NEW t \in Thread, LogWrite(t), NEW n
    PROVE  Acts(t, n)
  <1>1. /\ pc[t] = "log" /\ pc' = [pc EXCEPT ![t] = "flush"]
        /\ UNCHANGED <<cur, kernelFile, held, calls, returned>>
    BY DEF LogWrite, At, Goto
  <1>2. Others(t) /\ InCall(t)
    BY <1>1 DEF SnifferInv, TypeOK, Others, InCall
  <1> QED
    BY <1>1, <1>2 DEF Acts, Extends, Returns, HeldStay, Begins

(* Flushing it: the call returns. *)
LEMMA LogFlushActs ==
    ASSUME SnifferInv, NEW t \in Thread, LogFlush(t), NEW n
    PROVE  Acts(t, n)
  <1>1. /\ pc[t] = "flush" /\ pc' = [pc EXCEPT ![t] = "idle"]
        /\ returned' = returned \cup {cur[t].call}
        /\ UNCHANGED <<cur, kernelFile, calls>>
    BY DEF LogFlush, At, Goto
  <1>2. Others(t) /\ InCall(t) /\ ~InCall(t)'
    BY <1>1 DEF SnifferInv, TypeOK, Others, InCall
  <1> QED
    BY <1>1, <1>2 DEF Acts, Extends, Returns, HeldStay, Begins

(* The destructor. *)
LEMMA nv_sniff_finiActs ==
    ASSUME SnifferInv, NEW t \in Thread, nv_sniff_fini(t), NEW n
    PROVE  Acts(t, n)
  <1>1. /\ pc[t] = "idle" /\ pc' = [pc EXCEPT ![t] = "exiting"]
        /\ UNCHANGED <<cur, kernelFile, held, calls, returned>>
    BY DEF nv_sniff_fini, At, Goto
  <1>2. Others(t) /\ ~InCall(t)'
    BY <1>1 DEF SnifferInv, TypeOK, Others, InCall
  <1> QED
    BY <1>1, <1>2 DEF Acts, Extends, Returns, HeldStay, Begins

(* What is true of the log as a sequence. *)
LEMMA LogType ==
    ASSUME SnifferInv
    PROVE  /\ Log \in Seq(Record) /\ Len(Log) \in Nat /\ DOMAIN Log = 1..Len(Log)
           /\ disk \in Seq(Record) /\ buffer \in Seq(Record)
           /\ Len(Log) = Len(disk) + Len(buffer)
           /\ \A i \in DOMAIN disk : i \in DOMAIN Log /\ Log[i] = disk[i]
  <1>1. disk \in Seq(Record) /\ buffer \in Seq(Record)
    BY DEF SnifferInv, TypeOK
  <1> QED
    BY <1>1 DEF Log

(* A flush leaves the log what it is. *)
LEMMA FlushKeepsLog ==
    ASSUME SnifferInv, disk' = disk \o buffer, buffer' = <<>>
    PROVE  Log' = Log
  <1>1. disk \o buffer \in Seq(Record)
    BY LogType DEF Log
  <1>2. (disk \o buffer) \o <<>> = disk \o buffer
    BY <1>1
  <1> QED
    BY <1>2 DEF Log

(* The latest open record depends on the log alone. *)
LEMMA LatestStays ==
    ASSUME Log' = Log, NEW f, NEW n, NEW x, NEW d
    PROVE  LatestOpen(f, n, x, d)' <=> LatestOpen(f, n, x, d)
  BY DEF LatestOpen, Opens

(* A record written changes the latest open of its own fd only. *)
LEMMA LatestGrows ==
    ASSUME SnifferInv, NEW e \in Record, Log' = Append(Log, e), NEW f,
           NEW N, N = Len(Log)
    PROVE  /\ \A x, d : \A n \in 0..N : LatestOpen(f, n, x, d) => LatestOpen(f, n, x, d)'
           /\ e.type = "open" /\ e.fd = f => LatestOpen(f, N + 1, e.call, e.dev)'
           /\ ~(e.type = "open" /\ e.fd = f) =>
                \A x, d : LatestOpen(f, N, x, d) => LatestOpen(f, N + 1, x, d)'
  <1>1. N \in Nat /\ Log'[N + 1] = e /\ \A i \in 1..N : Log'[i] = Log[i]
    BY LogType
  <1>2. ASSUME NEW i \in 1..N PROVE Opens(i, f)' <=> Opens(i, f)
    BY <1>1, <1>2 DEF Opens
  <1>3. Opens(N + 1, f)' <=> e.type = "open" /\ e.fd = f
    BY <1>1 DEF Opens
  <1>4. ASSUME NEW x, NEW d, NEW n \in 0..N, LatestOpen(f, n, x, d)
        PROVE  /\ LatestOpen(f, n, x, d)'
               /\ n = N /\ ~Opens(N + 1, f)' => LatestOpen(f, N + 1, x, d)'
    <2>1. PICK k \in 1..n : /\ Opens(k, f) /\ Log[k].call = x /\ Log[k].dev = d
                            /\ \A j \in (k + 1)..n : ~Opens(j, f)
      BY <1>4 DEF LatestOpen
    <2>2. /\ k \in 1..N /\ k \in 1..(N + 1) /\ k \in Nat /\ n \in Nat
          /\ \A j \in (k + 1)..n : j \in 1..N
          /\ n = N => \A j \in (k + 1)..(N + 1) : j \in (k + 1)..n \/ j = N + 1
      BY <1>1
    <2>3. Opens(k, f)' /\ Log'[k].call = x /\ Log'[k].dev = d
      BY <1>1, <1>2, <2>1, <2>2
    <2>4. \A j \in (k + 1)..n : ~Opens(j, f)'
      BY <1>2, <2>1, <2>2
    <2>5. LatestOpen(f, n, x, d)'
      BY <2>3, <2>4 DEF LatestOpen, Opens
    <2>6. ASSUME n = N, ~Opens(N + 1, f)' PROVE LatestOpen(f, N + 1, x, d)'
      <3>1. \A j \in (k + 1)..(N + 1) : ~Opens(j, f)'
        BY <2>2, <2>4, <2>6
      <3> QED
        BY <2>2, <2>3, <3>1 DEF LatestOpen, Opens
    <2> QED
      BY <2>5, <2>6
  <1>5. ASSUME e.type = "open", e.fd = f PROVE LatestOpen(f, N + 1, e.call, e.dev)'
    <2>1. N + 1 \in 1..(N + 1) /\ \A j \in (N + 1 + 1)..(N + 1) : FALSE
      BY <1>1
    <2> QED
      BY <1>1, <1>3, <1>5, <2>1 DEF LatestOpen, Opens
  <1> QED
    BY <1>1, <1>3, <1>4, <1>5

(* A step that leaves the log alone keeps what it says. *)
LEMMA LogStays ==
    ASSUME SnifferInv, SnifferInv', LogInv, NEW t \in Thread, NEW n, n = ThisCall,
           Acts(t, n), LeavesLog(t)
    PROVE  BufferInv' /\ RecordsInv' /\ NamesInv'
  <1>1. /\ Log' = Log /\ buffer' = buffer /\ lock' = lock /\ log_fp' = log_fp
        /\ pc[t] # "flush" /\ pc'[t] # "flush"
    BY DEF LeavesLog, Log
  <1>2. Kept /\ SnifferInv /\ HistoryInv /\ BufferInv /\ RecordsInv /\ NamesInv /\ Others(t)
        /\ returned \subseteq returned'
    BY ExtendsKeeps DEF Acts, LogInv, Returns
  <1>3. ASSUME NEW u \in Thread
        PROVE  /\ pc'[u] = "flush" <=> pc[u] = "flush"
               /\ pc[u] = "flush" => cur'[u] = cur[u] /\ u # t
    BY <1>1, <1>2 DEF Others
  <1>4. BufferInv'
    <2>1. lock # None => lock \in Thread /\ pc[lock] = "flush"
      BY <1>2 DEF BufferInv, SnifferInv, TypeOK
    <2> QED
      BY <1>1, <1>2, <1>3, <2>1 DEF BufferInv
  <1>5. RecordsInv'
    <2>1. ASSUME NEW i \in DOMAIN Log
          PROVE  /\ Log[i].call \in DOMAIN calls'
                 /\ \/ Log[i].call \in returned'
                    \/ \E u \in Thread : pc'[u] = "flush" /\ Log[i].call = cur'[u].call
                 /\ \A j \in DOMAIN Log : i # j => Log[i].call # Log[j].call
                 /\ \A j \in DOMAIN Log : i < j => Log[j].call \notin calls'[Log[i].call].after
      BY <1>2, <1>3, <2>1 DEF RecordsInv, Kept
    <2>2. ASSUME log_fp = "open", NEW c \in returned', MustBeLogged(c)'
          PROVE  Recorded(c)
      <3>1. c \in returned
        <4> SUFFICES ASSUME c \notin returned PROVE FALSE
          OBVIOUS
        <4>1. /\ calls'[c].op = "open" => calls'[c].path \notin Nvidia
              /\ calls'[c].op = "ioctl" /\ calls'[c].fd \in Tracked =>
                   calls'[c].file # 0 /\ calls'[calls'[c].file].path \notin Nvidia
          BY <2>2 DEF LeavesLog
        <4> QED
          BY <2>2, <4>1 DEF MustBeLogged, OpensNvidia, OnNvidia, Tracked, Fd
      <3>2. c \in DOMAIN calls
        BY <3>1 DEF SnifferInv, TypeOK
      <3>3. MustBeLogged(c)
        BY <1>2, <2>2, <3>2, StaysNvidia
      <3> QED
        BY <1>2, <2>2, <3>1, <3>3 DEF RecordsInv
    <2>3. \A c : Recorded(c)' <=> Recorded(c)
      BY <1>1 DEF Recorded
    <2> QED
      BY <1>1, <2>1, <2>2, <2>3 DEF RecordsInv
  <1>6. NamesInv'
    <2>1. ASSUME NEW i \in DOMAIN Log, Log[i].type = "ioctl"
          PROVE  LatestOpen(Log[i].fd, i - 1, calls[Log[i].call].file, Log[i].dev)'
      <3>1. PICK f : f = Log[i].fd
        OBVIOUS
      <3>2. PICK m : m = i - 1
        OBVIOUS
      <3>3. PICK x : x = calls[Log[i].call].file
        OBVIOUS
      <3>4. PICK d : d = Log[i].dev
        OBVIOUS
      <3>5. LatestOpen(f, m, x, d)
        BY <1>2, <2>1, <3>1, <3>2, <3>3, <3>4 DEF NamesInv
      <3>6. LatestOpen(f, m, x, d)'
        BY <1>1, <3>5, LatestStays
      <3>7. Log'[i].fd = f /\ i - 1 = m /\ calls'[Log'[i].call].file = x /\ Log'[i].dev = d
        BY <1>1, <1>2, <2>1, <3>1, <3>2, <3>3, <3>4 DEF RecordsInv, Kept
      <3> QED
        BY <3>6, <3>7 DEF LatestOpen, Opens
    <2>2. ASSUME log_fp = "open", NEW f \in Fd, f \in held' \/ Flushing(f)',
                 calls'[kernelFile'[f]].path \in Nvidia
          PROVE  LatestOpen(f, Len(Log), kernelFile[f], calls[kernelFile[f]].path)'
      <3>1. /\ f \in held \/ Flushing(f)
            /\ kernelFile'[f] = kernelFile[f] /\ kernelFile[f] \in DOMAIN calls
        <4>1. CASE f \in held'
          <5>1. f \in held
            BY <2>2, <4>1 DEF LeavesLog
          <5>2. kernelFile'[f] = kernelFile[f]
            BY <5>1 DEF Acts, HeldStay
          <5>3. kernelFile[f] \in DOMAIN calls
            BY <5>1 DEF SnifferInv, TypeOK, FreeInv
          <5> QED
            BY <5>1, <5>2, <5>3
        <4>2. CASE Flushing(f)'
          <5>1. PICK u \in Thread : pc'[u] = "flush" /\ Opening(u)' /\ cur'[u].fd = f
            BY <4>2 DEF Flushing
          <5>2. u # t /\ pc[u] = "flush" /\ cur'[u] = cur[u] /\ Opening(u)
            BY <1>2, <1>3, <5>1, OthersGoOn
          <5>3. Owner(u) /\ Owner(u)' /\ InCall(u)
            BY <5>1, <5>2 DEF SnifferInv, OwnerInv, Owns, InCall
          <5>4. kernelFile[f] = cur[u].call /\ kernelFile'[f] = cur[u].call
            BY <5>1, <5>2, <5>3 DEF Owner
          <5>5. cur[u].call \in DOMAIN calls
            BY <5>3 DEF SnifferInv, CallInv
          <5> QED
            BY <5>1, <5>2, <5>4, <5>5 DEF Flushing
        <4> QED
          BY <2>2, <4>1, <4>2
      <3>2. calls'[kernelFile[f]] = calls[kernelFile[f]]
        BY <1>2, <3>1 DEF Kept
      <3>3. PICK m : m = Len(Log)
        OBVIOUS
      <3>4. PICK x : x = kernelFile[f]
        OBVIOUS
      <3>5. PICK d : d = calls[kernelFile[f]].path
        OBVIOUS
      <3>6. LatestOpen(f, m, x, d)
        BY <1>2, <2>2, <3>1, <3>2, <3>3, <3>4, <3>5 DEF NamesInv
      <3>7. LatestOpen(f, m, x, d)'
        BY <1>1, <3>6, LatestStays
      <3> QED
        BY <1>1, <3>1, <3>2, <3>3, <3>4, <3>5, <3>7
    <2> QED
      BY <1>1, <2>1, <2>2 DEF NamesInv, Fd
  <1> QED
    BY <1>4, <1>5, <1>6

(* A step that writes no record keeps what the log says of each ioctl. *)
LEMMA IoctlsStayNamed ==
    ASSUME SnifferInv, LogInv, Kept, Log' = Log, NEW i \in DOMAIN Log, Log[i].type = "ioctl"
    PROVE  LatestOpen(Log[i].fd, i - 1, calls[Log[i].call].file, Log[i].dev)'
  <1>1. PICK f : f = Log[i].fd
    OBVIOUS
  <1>2. PICK m : m = i - 1
    OBVIOUS
  <1>3. PICK x : x = calls[Log[i].call].file
    OBVIOUS
  <1>4. PICK d : d = Log[i].dev
    OBVIOUS
  <1>5. LatestOpen(f, m, x, d)
    BY <1>1, <1>2, <1>3, <1>4 DEF LogInv, NamesInv
  <1>6. LatestOpen(f, m, x, d)'
    BY <1>5, LatestStays
  <1>7. Log'[i].fd = f /\ i - 1 = m /\ calls'[Log'[i].call].file = x /\ Log'[i].dev = d
    BY <1>1, <1>2, <1>3, <1>4 DEF LogInv, RecordsInv, Kept
  <1> QED
    BY <1>6, <1>7 DEF LatestOpen, Opens

(* Writing a record: its call has not returned, and a record of an open is *)
(* of an fd that nobody else has.                                          *)
LEMMA LogWriteKeepsLog ==
    ASSUME SnifferInv, SnifferInv', LogInv, NEW t \in Thread, LogWrite(t)
    PROVE  BufferInv' /\ RecordsInv' /\ NamesInv'
  <1>1. /\ pc[t] = "log" /\ lock = None /\ log_fp = "open" /\ lock' = t /\ log_fp' = "open"
        /\ pc' = [pc EXCEPT ![t] = "flush"] /\ buffer' = Append(buffer, Entry(t))
        /\ UNCHANGED <<cur, kernelFile, nv_fd_active, nv_fd_path, disk, held, calls, returned>>
    BY DEF LogWrite, At, Goto, tables
  <1>2. PICK c : c = cur[t].call
    OBVIOUS
  <1>3. PICK e : e = Entry(t)
    OBVIOUS
  <1>4. PICK N : N = Len(Log)
    OBVIOUS
  <1>5. InCall(t) /\ c \in DOMAIN calls /\ calls[c].op \in {"open", "ioctl"} /\ calls[c] \in CallType
        /\ c \notin returned /\ calls[c].fd = cur[t].fd
    <2>1. InCall(t)
      BY <1>1 DEF InCall
    <2>2. c \in DOMAIN calls /\ calls[c].op \in {"open", "ioctl"}
      BY <1>1, <1>2, <2>1 DEF SnifferInv, CallInv, OpOf
    <2>3. calls[c] \in CallType
      BY <2>2 DEF SnifferInv, TypeOK
    <2>4. c \notin returned /\ calls[c].fd = cur[t].fd
      BY <1>2, <2>1 DEF LogInv, HistoryInv
    <2> QED
      BY <2>1, <2>2, <2>3, <2>4
  <1>6. /\ e.call = c /\ e.type = calls[c].op /\ e.fd = calls[c].fd
        /\ e.dev = IF calls[c].op = "open" THEN calls[c].path ELSE fd_path(calls[c].fd)
    BY <1>2, <1>3 DEF Entry
  <1>7. buffer = <<>> /\ t # None /\ \A u \in Thread : pc[u] # "flush"
    BY <1>1, PathAssumption DEF LogInv, BufferInv
  <1>8. /\ buffer' = <<e>> /\ Len(buffer') = 1 /\ buffer'[1] = e
        /\ Log' = Append(Log, e) /\ e \in Record
    <2>1. buffer' = <<e>>
      BY <1>1, <1>3, <1>7
    <2>2. e \in Record
      BY <2>1 DEF SnifferInv, TypeOK
    <2>3. disk \in Seq(Record)
      BY LogType
    <2>4. Log' = disk \o <<e>> /\ Log = disk \o <<>>
      BY <1>1, <1>7, <2>1 DEF Log
    <2>5. Log' = Append(Log, e)
      BY <2>2, <2>3, <2>4
    <2> QED
      BY <2>1, <2>2, <2>5
  <1>9. /\ N \in Nat /\ DOMAIN Log = 1..N /\ DOMAIN Log' = 1..(N + 1) /\ Len(Log') = N + 1
        /\ Log'[N + 1] = e /\ \A i \in 1..N : Log'[i] = Log[i]
    BY <1>4, <1>8, LogType
  <1>10. pc'[t] = "flush" /\ \A u \in Thread \ {t} : pc'[u] # "flush"
    BY <1>1, <1>7 DEF SnifferInv, TypeOK
  <1>11. BufferInv'
    BY <1>1, <1>2, <1>6, <1>7, <1>8, <1>10 DEF BufferInv
  <1>12. RecordsInv'
    <2>1. \A i \in 1..N : /\ Log[i].call \in DOMAIN calls /\ Log[i].call \in returned
                          /\ \A j \in 1..N : i # j => Log[i].call # Log[j].call
                          /\ \A j \in 1..N : i < j => Log[j].call \notin calls[Log[i].call].after
      BY <1>7, <1>9 DEF LogInv, RecordsInv
    <2>2. \A i \in 1..N : c # Log[i].call /\ c \notin calls[Log[i].call].after
      BY <1>5, <2>1 DEF LogInv, HistoryInv
    <2>3. ASSUME NEW i \in 1..(N + 1)
          PROVE  /\ Log'[i].call \in DOMAIN calls
                 /\ Log'[i].call \in returned \/ \E u \in Thread : pc'[u] = "flush" /\ Log'[i].call = cur[u].call
                 /\ \A j \in 1..(N + 1) : i # j => Log'[i].call # Log'[j].call
                 /\ \A j \in 1..(N + 1) : i < j => Log'[j].call \notin calls[Log'[i].call].after
      <3>1. CASE i \in 1..N
        <4>1. \A j \in 1..(N + 1) : j \in 1..N \/ (j = N + 1 /\ Log'[j].call = c)
          BY <1>6, <1>9
        <4> QED
          BY <1>9, <2>1, <2>2, <3>1, <4>1
      <3>2. CASE i = N + 1
        <4>1. Log'[i].call = c
          BY <1>6, <1>9, <3>2
        <4>2. \A j \in 1..(N + 1) : (i # j => j \in 1..N) /\ ~(i < j)
          BY <1>9, <3>2
        <4> QED
          BY <1>2, <1>5, <1>9, <1>10, <2>2, <4>1, <4>2
      <3> QED
        BY <1>9, <3>1, <3>2
    <2>4. ASSUME NEW d \in returned, MustBeLogged(d)'
          PROVE  \E i \in 1..(N + 1) : Log'[i].call = d
      <3>1. MustBeLogged(d)
        BY <1>1, <2>4 DEF MustBeLogged, OpensNvidia, OnNvidia, Tracked, Fd
      <3>2. PICK i \in 1..N : Log[i].call = d
        BY <1>1, <1>9, <3>1 DEF LogInv, RecordsInv, Recorded
      <3> QED
        BY <1>9, <3>2
    <2> QED
      BY <1>1, <1>9, <2>3, <2>4 DEF RecordsInv, Recorded
  <1>13. NamesInv'
    <2>1. ASSUME NEW i \in 1..(N + 1), Log'[i].type = "ioctl"
          PROVE  LatestOpen(Log[i].fd, i - 1, calls[Log[i].call].file, Log[i].dev)'
      <3>1. PICK f : f = Log'[i].fd
        OBVIOUS
      <3>2. PICK m : m = i - 1
        OBVIOUS
      <3>3. PICK x : x = calls[Log'[i].call].file
        OBVIOUS
      <3>4. PICK d : d = Log'[i].dev
        OBVIOUS
      <3>5. m \in 0..N
        BY <1>9, <3>2
      <3>6. LatestOpen(f, m, x, d)
        <4>1. CASE i \in 1..N
          BY <1>9, <2>1, <3>1, <3>2, <3>3, <3>4, <4>1 DEF LogInv, NamesInv
        <4>2. CASE i = N + 1
          <5>1. /\ f = cur[t].fd /\ x = calls[c].file /\ m = N /\ d = fd_path(f)
                /\ calls[c].op = "ioctl"
            BY <1>5, <1>6, <1>9, <2>1, <3>1, <3>2, <3>3, <3>4, <4>2
          <5>2. f \in held /\ f \in Fd /\ f \in Tracked /\ x = kernelFile[f] /\ OnNvidia(c)
            BY <1>2, <1>5, <5>1 DEF SnifferInv, TypeOK, CallInv, OpOf, LogInv, HistoryInv
          <5>3. calls[x].path \in Nvidia
            BY <5>1, <5>2 DEF OnNvidia
          <5>4. d = calls[x].path
            BY <5>1, <5>2, <5>3 DEF fd_path, SnifferInv, TablesMatchKernel
          <5> QED
            BY <1>1, <1>4, <5>1, <5>2, <5>3, <5>4 DEF LogInv, NamesInv
        <4> QED
          BY <1>9, <4>1, <4>2
      <3>7. LatestOpen(f, m, x, d)'
        BY <1>4, <1>8, <3>5, <3>6, LatestGrows
      <3> QED
        BY <1>1, <3>1, <3>2, <3>3, <3>4, <3>7
    <2>2. ASSUME NEW f \in Fd, f \in held \/ Flushing(f)', calls[kernelFile[f]].path \in Nvidia,
                 NEW x, x = kernelFile[f], NEW d, d = calls[kernelFile[f]].path
          PROVE  LatestOpen(f, N + 1, x, d)'
      <3>1. CASE f \in held
        <4>1. ~(e.type = "open" /\ e.fd = f)
          <5> SUFFICES ASSUME e.type = "open", e.fd = f PROVE FALSE
            OBVIOUS
          <5>1. Opening(t) /\ cur[t].fd = f
            BY <1>1, <1>2, <1>5, <1>6, PathAssumption DEF Opening, OpOf
          <5>2. Owner(t)
            BY <5>1 DEF Owns, SnifferInv, OwnerInv
          <5> QED
            BY <3>1, <5>1, <5>2 DEF Owner
        <4>2. LatestOpen(f, N, x, d)
          BY <1>1, <1>4, <2>2, <3>1 DEF LogInv, NamesInv
        <4> QED
          BY <1>4, <1>8, <4>1, <4>2, LatestGrows
      <3>2. CASE Flushing(f)'
        <4>1. PICK u \in Thread : pc'[u] = "flush" /\ Opening(u)' /\ cur'[u].fd = f
          BY <3>2 DEF Flushing
        <4>2. Opening(t)' /\ cur[t].fd = f
          BY <1>1, <1>10, <4>1
        <4>3. calls[c].op = "open" /\ Owner(t)'
          BY <1>1, <1>2, <1>10, <4>2 DEF Opening, Owns, OpOf, SnifferInv, OwnerInv
        <4>4. kernelFile[f] = c
          BY <1>1, <1>2, <4>2, <4>3 DEF Owner
        <4>5. e.type = "open" /\ e.fd = f /\ e.call = x /\ e.dev = d
          BY <1>5, <1>6, <2>2, <4>2, <4>3, <4>4
        <4> QED
          BY <1>4, <1>8, <4>5, LatestGrows
      <3> QED
        BY <2>2, <3>1, <3>2
    <2>3. ASSUME NEW f \in Fd, f \in held' \/ Flushing(f)', calls'[kernelFile'[f]].path \in Nvidia
          PROVE  LatestOpen(f, Len(Log), kernelFile[f], calls[kernelFile[f]].path)'
      <3>1. PICK x : x = kernelFile[f]
        OBVIOUS
      <3>2. PICK d : d = calls[kernelFile[f]].path
        OBVIOUS
      <3>3. LatestOpen(f, N + 1, x, d)'
        BY <1>1, <2>2, <2>3, <3>1, <3>2
      <3> QED
        BY <1>1, <1>9, <3>1, <3>2, <3>3
    <2> QED
      BY <1>9, <2>1, <2>3 DEF NamesInv, Fd
  <1> QED
    BY <1>11, <1>12, <1>13

(* Flushing it: the call returns with its record on disk. *)
LEMMA LogFlushKeepsLog ==
    ASSUME SnifferInv, SnifferInv', LogInv, NEW t \in Thread, LogFlush(t)
    PROVE  BufferInv' /\ RecordsInv' /\ NamesInv'
  <1>1. /\ pc[t] = "flush" /\ lock = t /\ lock' = None /\ log_fp' = log_fp
        /\ pc' = [pc EXCEPT ![t] = "idle"] /\ disk' = disk \o buffer /\ buffer' = <<>>
        /\ held' = held \cup ({cur[t].fd} \ {None}) /\ returned' = returned \cup {cur[t].call}
        /\ UNCHANGED <<cur, kernelFile, nv_fd_active, nv_fd_path, calls>>
    BY DEF LogFlush, At, Goto, tables
  <1>2. Log' = Log /\ Kept
    BY <1>1, FlushKeepsLog DEF Kept
  <1>3. t # None /\ \A u \in Thread : pc'[u] # "flush" /\ (pc[u] = "flush" => u = t)
    BY <1>1, PathAssumption DEF SnifferInv, TypeOK, LogInv, BufferInv
  <1>4. BufferInv'
    BY <1>1, <1>3, PathAssumption DEF BufferInv
  <1>5. RecordsInv'
    <2>1. ASSUME NEW i \in DOMAIN Log
          PROVE  /\ Log[i].call \in DOMAIN calls /\ Log[i].call \in returned'
                 /\ \A j \in DOMAIN Log : i # j => Log[i].call # Log[j].call
                 /\ \A j \in DOMAIN Log : i < j => Log[j].call \notin calls[Log[i].call].after
      BY <1>1, <1>3 DEF LogInv, RecordsInv
    <2>2. ASSUME log_fp = "open", NEW c \in returned', MustBeLogged(c)'
          PROVE  Recorded(c)
      <3>1. CASE c \in returned
        <4>1. MustBeLogged(c)
          BY <1>1, <2>2 DEF MustBeLogged, OpensNvidia, OnNvidia, Tracked, Fd
        <4> QED
          BY <2>2, <3>1, <4>1 DEF LogInv, RecordsInv
      <3>2. CASE c = cur[t].call
        <4>1. Len(buffer) = 1 /\ buffer[1].call = c
          BY <1>1, <1>3, <2>2, <3>2 DEF LogInv, BufferInv
        <4>2. /\ disk \in Seq(Record) /\ buffer \in Seq(Record)
              /\ DOMAIN Log = 1..Len(Log) /\ Len(Log) = Len(disk) + Len(buffer)
          BY LogType
        <4>3. Len(disk) + 1 \in DOMAIN Log /\ Log[Len(disk) + 1] = buffer[1]
          BY <4>1, <4>2 DEF Log
        <4> QED
          BY <4>1, <4>3 DEF Recorded
      <3> QED
        BY <1>1, <2>2, <3>1, <3>2
    <2>3. \A c : Recorded(c)' <=> Recorded(c)
      BY <1>2 DEF Recorded
    <2> QED
      BY <1>1, <1>2, <2>1, <2>2, <2>3 DEF RecordsInv
  <1>6. NamesInv'
    <2>1. ASSUME log_fp = "open", NEW f \in Fd, f \in held' \/ Flushing(f)',
                 calls[kernelFile[f]].path \in Nvidia
          PROVE  LatestOpen(f, Len(Log), kernelFile[f], calls[kernelFile[f]].path)'
      <3>1. f \in held \/ Flushing(f)
        <4>1. ~Flushing(f)'
          BY <1>3 DEF Flushing
        <4>2. ASSUME f = cur[t].fd, f \notin held PROVE Opening(t)
          <5>1. OpOf(t) \in {"open", "ioctl"} /\ OpOf(t) # "ioctl"
            BY <1>1, <4>2 DEF SnifferInv, CallInv, InCall
          <5> QED
            BY <1>1, <4>2, <5>1, PathAssumption DEF Opening
        <4> QED
          BY <1>1, <2>1, <4>1, <4>2 DEF Flushing
      <3>2. PICK m : m = Len(Log)
        OBVIOUS
      <3>3. PICK x : x = kernelFile[f]
        OBVIOUS
      <3>4. PICK d : d = calls[kernelFile[f]].path
        OBVIOUS
      <3>5. LatestOpen(f, m, x, d)
        BY <2>1, <3>1, <3>2, <3>3, <3>4 DEF LogInv, NamesInv
      <3>6. LatestOpen(f, m, x, d)'
        BY <1>2, <3>5, LatestStays
      <3> QED
        BY <1>1, <1>2, <3>2, <3>3, <3>4, <3>6
    <2> QED
      BY <1>1, <1>2, <2>1, IoctlsStayNamed DEF NamesInv, Fd
  <1> QED
    BY <1>4, <1>5, <1>6

(* The destructor leaves nothing in the buffer. *)
LEMMA nv_sniff_finiKeepsLog ==
    ASSUME SnifferInv, SnifferInv', LogInv, NEW t \in Thread, nv_sniff_fini(t)
    PROVE  BufferInv' /\ RecordsInv' /\ NamesInv'
  <1>1. /\ pc[t] = "idle" /\ lock' = lock /\ log_fp' = "closed"
        /\ pc' = [pc EXCEPT ![t] = "exiting"] /\ disk' = disk \o buffer /\ buffer' = <<>>
        /\ UNCHANGED <<cur, kernelFile, held, calls, returned>>
    BY DEF nv_sniff_fini, At, Goto, tables
  <1>2. Log' = Log /\ Kept
    BY <1>1, FlushKeepsLog DEF Kept
  <1>3. \A u \in Thread : pc'[u] = "flush" <=> pc[u] = "flush"
    BY <1>1 DEF SnifferInv, TypeOK
  <1>4. BufferInv'
    BY <1>1, <1>3 DEF LogInv, BufferInv
  <1>5. RecordsInv'
    BY <1>1, <1>2, <1>3 DEF LogInv, RecordsInv
  <1>6. NamesInv'
    BY <1>1, <1>2, IoctlsStayNamed DEF NamesInv
  <1> QED
    BY <1>4, <1>5, <1>6

(* The log is empty at the start. *)
LEMMA LogInitially == Init => LogInv
  <1> SUFFICES ASSUME Init PROVE LogInv
    OBVIOUS
  <1>1. Log = <<>> /\ DOMAIN Log = {} /\ DOMAIN calls = {}
    BY DEF Init, Log
  <1>2. \A t \in Thread : ~InCall(t) /\ pc[t] # "flush" /\ lock # t
    BY PathAssumption DEF Init, InCall
  <1>3. HistoryInv
    BY <1>1, <1>2 DEF HistoryInv
  <1>4. BufferInv
    BY <1>2 DEF Init, BufferInv
  <1>5. RecordsInv
    BY <1>1 DEF Init, RecordsInv
  <1>6. NamesInv
    BY <1>1, <1>2 DEF Init, NamesInv, Flushing
  <1> QED
    BY <1>3, <1>4, <1>5, <1>6 DEF LogInv

(* The end of the program changes nothing of it. *)
LEMMA EndKeepsLog ==
    ASSUME LogInv, UNCHANGED <<pc, cur, kernelFile, lock, log_fp, buffer, disk, held, calls, returned>>
    PROVE  LogInv'
  <1>1. Log' = Log
    BY DEF Log
  <1>2. HistoryInv'
    BY DEF LogInv, HistoryInv, InCall, OpOf, Tracked, Fd, OnNvidia
  <1>3. BufferInv'
    BY DEF LogInv, BufferInv
  <1>4. RecordsInv'
    BY <1>1 DEF LogInv, RecordsInv, MustBeLogged, OpensNvidia, OnNvidia, Tracked, Fd, Recorded
  <1>5. NamesInv'
    BY <1>1 DEF LogInv, NamesInv, LatestOpen, Opens, Flushing, Opening, OpOf, Fd
  <1> QED
    BY <1>2, <1>3, <1>4, <1>5 DEF LogInv

(* Every step keeps LogInv. *)
LEMMA StepKeepsLog == SnifferInv /\ SnifferInv' /\ LogInv /\ [Next]_vars => LogInv'
  <1> SUFFICES ASSUME SnifferInv, SnifferInv', LogInv, [Next]_vars PROVE LogInv'
    OBVIOUS
  <1>1. PICK n : n = ThisCall
    OBVIOUS
  <1>2. ASSUME NEW t \in Thread, Acts(t, n) PROVE HistoryInv'
    BY <1>1, <1>2, HistoryKept DEF LogInv
  <1>3. ASSUME NEW t \in Thread, Acts(t, n), LeavesLog(t) PROVE LogInv'
    BY <1>1, <1>2, <1>3, LogStays DEF LogInv
  <1>4. ASSUME NEW t \in Thread, Continue(t) PROVE LogInv'
    <2>1. CASE track_fd(t) \/ RealClose(t) \/ RealIoctl(t) \/ LogOff(t)
      BY <1>3, <2>1, track_fdActs, RealCloseActs, RealIoctlActs, LogOffActs
    <2>2. CASE LogWrite(t)
      BY <1>2, <2>2, LogWriteActs, LogWriteKeepsLog DEF LogInv
    <2>3. CASE LogFlush(t)
      BY <1>2, <2>3, LogFlushActs, LogFlushKeepsLog DEF LogInv
    <2>4. CASE Ends(t)
      BY <2>4, EndKeepsLog DEF Ends, logVars
    <2> QED
      BY <1>4, <2>1, <2>2, <2>3, <2>4 DEF Continue
  <1>5. ASSUME NEW t \in Thread, Call(t) PROVE LogInv'
    <2>1. CASE nv_sniff_fini(t)
      BY <1>2, <2>1, nv_sniff_finiActs, nv_sniff_finiKeepsLog DEF LogInv
    <2>2. ASSUME NEW p \in Path, RealOpen(t, p) \/ RealOpenFails(t, p) \/ OpenOther(t, p)
          PROVE  LogInv'
      BY <1>1, <1>3, <2>2, RealOpenActs, RealOpenFailsActs, OpenOtherActs
    <2>3. ASSUME NEW f \in held,
                 untrack_fd(t, f) \/ IoctlCheck(t, f) \/ IoctlOther(t, f) \/ IoctlNoMemory(t, f)
          PROVE  LogInv'
      BY <1>1, <1>3, <2>3, untrack_fdActs, IoctlCheckActs, IoctlOtherActs, IoctlNoMemoryActs
    <2> QED
      BY <1>5, <2>1, <2>2, <2>3 DEF Call
  <1>6. CASE Kill
    BY <1>6, EndKeepsLog DEF Kill, logVars
  <1>7. CASE UNCHANGED vars
    BY <1>7, EndKeepsLog DEF vars, logVars, tables
  <1> QED
    BY <1>4, <1>5, <1>6, <1>7 DEF Next, Quiet

(* LogInv holds in every state, whatever the threads do and whenever the   *)
(* program ends.                                                           *)
THEOREM LogIsRight == Spec => []LogInv
  <1> QED
    BY LogInitially, StepKeepsLog, SnifferIsConsistent, PTL DEF Spec

(* A call that started after another returned is logged after it. *)
THEOREM LogIsCausal == Spec => []CausalOrder
  <1>1. SnifferInv /\ LogInv => CausalOrder
    BY LogType DEF LogInv, RecordsInv, CausalOrder
  <1> QED
    BY <1>1, SnifferIsConsistent, LogIsRight, PTL

(* Until the destructor runs, a call that returned has its one record on   *)
(* disk, whatever other threads are writing.                               *)
THEOREM ReturnedCallsAreOnDisk == Spec => []ReturnedCallsOnDisk
  <1>1. SnifferInv /\ LogInv => ReturnedCallsOnDisk
    <2> SUFFICES ASSUME SnifferInv, LogInv PROVE ReturnedCallsOnDisk
      OBVIOUS
    <2>1. log_fp = "closed" => buffer = <<>>
      BY DEF LogInv, BufferInv
    <2>2. ASSUME log_fp = "open", NEW c \in returned, MustBeLogged(c)
          PROVE  \E i \in DOMAIN disk :
                   disk[i].call = c /\ \A j \in DOMAIN disk : disk[j].call = c => j = i
      <3>1. PICK i \in DOMAIN Log : Log[i].call = c
        BY <2>2 DEF LogInv, RecordsInv, Recorded
      <3>2. i \in DOMAIN disk
        <4>1. CASE lock = None
          <5>1. buffer = <<>> /\ disk \in Seq(Record)
            BY <4>1, LogType DEF LogInv, BufferInv
          <5> QED
            BY <3>1, <5>1 DEF Log
        <4>2. CASE lock # None
          <5>1. /\ Len(buffer) = 1 /\ buffer[1].call = cur[lock].call
                /\ lock \in Thread /\ pc[lock] = "flush"
            BY <2>2, <4>2 DEF LogInv, BufferInv, SnifferInv, TypeOK
          <5>2. cur[lock].call \notin returned
            BY <5>1 DEF LogInv, HistoryInv, InCall
          <5>3. /\ disk \in Seq(Record) /\ buffer \in Seq(Record) /\ DOMAIN Log = 1..Len(Log)
                /\ Len(Log) = Len(disk) + Len(buffer)
            BY LogType
          <5>4. i \notin DOMAIN disk => Log[i] = buffer[1]
            BY <3>1, <5>1, <5>3 DEF Log
          <5> QED
            BY <2>2, <3>1, <5>1, <5>2, <5>4
        <4> QED
          BY <4>1, <4>2
      <3>3. \A j \in DOMAIN disk : j \in DOMAIN Log /\ Log[j] = disk[j]
        BY LogType
      <3> QED
        BY <3>1, <3>2, <3>3 DEF LogInv, RecordsInv
    <2> QED
      BY <2>1, <2>2 DEF ReturnedCallsOnDisk
  <1> QED
    BY <1>1, SnifferIsConsistent, LogIsRight, PTL

(* The latest open record with an ioctl's fd is that of the file the ioctl *)
(* was issued on, and names the same device.                               *)
THEOREM LogAlwaysNamesFile == Spec => []LogNamesFile
  <1>1. SnifferInv /\ LogInv => LogNamesFile
    <2> SUFFICES ASSUME SnifferInv, LogInv, NEW i \in DOMAIN disk, disk[i].type = "ioctl",
                        NEW opens,
                        opens = {j \in 1..(i - 1) : disk[j].type = "open" /\ disk[j].fd = disk[i].fd}
                 PROVE  /\ opens # {}
                        /\ disk[Max(opens)].call = calls[disk[i].call].file
                        /\ disk[Max(opens)].dev = disk[i].dev
      BY DEF LogNamesFile
    <2>1. /\ \A j \in DOMAIN disk : j \in DOMAIN Log /\ Log[j] = disk[j]
          /\ \A j \in 1..(i - 1) : j \in DOMAIN disk /\ j \in Nat
          /\ i \in Nat
      BY LogType
    <2>2. PICK k \in 1..(i - 1) :
            /\ Opens(k, disk[i].fd) /\ Log[k].call = calls[disk[i].call].file /\ Log[k].dev = disk[i].dev
            /\ \A j \in (k + 1)..(i - 1) : ~Opens(j, disk[i].fd)
      BY <2>1 DEF LogInv, NamesInv, LatestOpen
    <2>3. k \in opens
      BY <2>1, <2>2 DEF Opens
    <2>4. ASSUME NEW j \in opens PROVE j \in Nat /\ k \in Nat /\ k >= j
      <3>1. j \in 1..(i - 1) /\ Opens(j, disk[i].fd) /\ j \in Nat
        BY <2>1, <2>4 DEF Opens
      <3>2. j \notin (k + 1)..(i - 1)
        BY <2>2, <3>1
      <3> QED
        BY <2>1, <2>2, <3>1, <3>2
    <2>5. Max(opens) = k
      <3>1. \A x \in opens : (\A y \in opens : x >= y) => x = k
        BY <2>3, <2>4
      <3> QED
        BY <2>3, <2>4, <3>1 DEF Max
    <2> QED
      BY <2>1, <2>2, <2>3, <2>5
  <1> QED
    BY <1>1, SnifferIsConsistent, LogIsRight, PTL
=============================================================================
