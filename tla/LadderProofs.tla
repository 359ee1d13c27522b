---------------------------- MODULE LadderProofs ----------------------------
(***************************************************************************)
(* What the ladder's tools make of strace's logs is right, for any number  *)
(* of steps, runs, processes, fds, devices, codes and lines.  LadderInv is *)
(* inductive: while the log tells all, the parser's map follows the        *)
(* kernel's, line by line, and each report is that of the logs of its      *)
(* runs.  From it, what build_schema.py and generate_report.py compute     *)
(* from the files, however these came about.  A log or a set of steps is   *)
(* taken apart one element at a time, with the induction of FoldProofs.    *)
(***************************************************************************)
EXTENDS Ladder, FoldProofs

-----------------------------------------------------------------------------
(* The parser: its state after a log is that after a line less and a step. *)

ParseState == [fd_map : FdMap, fd_snap : FdMap, ioctls : Seq(Entry)]
ParseStart == [fd_map |-> NoFds, fd_snap |-> NoFds, ioctls |-> <<>>]

LEMMA ParseLineType ==
    ASSUME NEW st \in ParseState, NEW line \in Line
    PROVE  ParseLine(st, line) \in ParseState
<1>1. CASE line \in [call : {"openat"}, fd : Fd, path : Device \cup {OtherFile}]
  <2>1. line.call = "openat" /\ line.fd \in Fd
    BY <1>1
  <2>2. OpenatSeen(st, line) \in ParseState
    BY <2>1 DEF OpenatSeen, ParseState, FdMap
  <2> QED
    BY <2>1, <2>2 DEF ParseLine
<1>2. CASE line \in [call : {"close"}, fd : Fd]
  <2>1. line.call = "close" /\ line.fd \in Fd
    BY <1>2
  <2>2. CloseSeen(st, line) \in ParseState
    BY <2>1 DEF CloseSeen, ParseState, FdMap
  <2> QED
    BY <2>1, <2>2 DEF ParseLine
<1>3. CASE line \in [call : {"ioctl"}, fd : Fd, code : Code]
  <2>1. line.call = "ioctl" /\ line.fd \in Fd /\ line.code \in Code
    BY <1>3
  <2> DEFINE device == st.fd_map[line.fd]
             entry == [device |-> IF device = None THEN "unknown" ELSE device,
                       request_code |-> line.code, is_new |-> FALSE]
  <2>2. device \in Device \cup {None}
    BY <2>1 DEF ParseState, FdMap
  <2>3. entry \in Entry
    BY <2>1, <2>2 DEF Entry
  <2>4. Append(st.ioctls, entry) \in Seq(Entry)
    BY <2>3 DEF ParseState
  <2>5. IoctlSeen(st, line) = [st EXCEPT !.ioctls = Append(st.ioctls, entry)]
    BY DEF IoctlSeen
  <2>6. IoctlSeen(st, line) \in ParseState
    BY <2>4, <2>5 DEF ParseState
  <2> QED
    BY <2>1, <2>6 DEF ParseLine
<1>4. CASE line \in [call : {"unfinished"}, of : {"openat", "close", "ioctl"}]
  BY <1>4 DEF ParseLine
<1> QED
  BY <1>1, <1>2, <1>3, <1>4 DEF Line

(* parse_lines goes through the lines one by one.                          *)
LEMMA ParseRun ==
    ASSUME NEW lines \in Seq(Line)
    PROVE  \E st \in [0..Len(lines) -> ParseState] :
             /\ st[0] = ParseStart
             /\ \A k \in 1..Len(lines) : st[k] = ParseLine(st[k - 1], lines[k])
             /\ parse_lines(lines) = st[Len(lines)]
<1> DEFINE n == Len(lines)
           D == 1..n
           step == [p \in ParseState \X D |-> ParseLine(p[1], lines[p[2]])]
           Iter(F) == F = [s \in SUBSET (DOMAIN lines) |->
                             IF s = {} THEN ParseStart
                             ELSE ParseLine(F[s \ {Max(s)}], lines[Max(s)])]
<1>1. n \in Nat /\ DOMAIN lines = D
  OBVIOUS
<1>2. ParseStart \in ParseState
  BY DEF ParseStart, ParseState, FdMap, NoFds
<1>3. step \in [ParseState \X D -> ParseState]
  BY <1>1, ParseLineType
<1>4. \A s \in (SUBSET D) \ {{}} : Max(s) \in D
  BY <1>1, LastIn
<1>5. ASSUME NEW st \in ParseState, NEW k \in D
      PROVE  step[<<st, k>>] = ParseLine(st, lines[k])
  OBVIOUS
<1> HIDE DEF step
<1>6. \E F : Iter(F)
  <2>1. PICK F \in [SUBSET D -> ParseState] : IsSeqFold(F, D, ParseStart, step)
    BY <1>1, <1>2, <1>3, SeqFoldExists
  <2>2. \A s \in (SUBSET D) \ {{}} :
          step[<<F[s \ {Max(s)}], Max(s)>>] = ParseLine(F[s \ {Max(s)}], lines[Max(s)])
    BY <1>4, <1>5, <2>1
  <2>3. Iter(F)
    BY <1>1, <2>1, <2>2 DEF IsSeqFold
  <2> QED
    BY <2>3
<1> DEFINE G == CHOOSE iter : Iter(iter)
<1>7. Iter(G)
  BY <1>6
<1>8. parse_lines(lines) = G[D]
  BY <1>1 DEF parse_lines, FoldLeft, MapThenFoldSet, ParseStart
<1>9. FoldsWith(G, D, ParseStart, step, ParseState)
  <2> HIDE DEF G
  <2>1. G = [s \in SUBSET D |->
              IF s = {} THEN ParseStart ELSE ParseLine(G[s \ {Max(s)}], lines[Max(s)])]
    BY <1>1, <1>7
  <2> QED
    BY <1>4, <1>5, <2>1 DEF FoldsWith
<1>10. PICK st \in [0..n -> ParseState] : IsRun(st, n, ParseStart, step) /\ st[n] = G[D]
  <2> HIDE DEF G, n
  <2>1. RunsTo(G[D], n, ParseStart, step, ParseState)
    BY <1>1, <1>2, <1>3, <1>9, SeqFoldRuns
  <2> QED
    BY <2>1 DEF RunsTo
<1>11. ASSUME NEW k \in 1..n  PROVE st[k] = ParseLine(st[k - 1], lines[k])
  <2>1. st[k - 1] \in ParseState /\ k \in D
    BY <1>1
  <2> QED
    BY <1>5, <1>10, <2>1 DEF IsRun
<1>12. st[0] = ParseStart /\ parse_lines(lines) = st[n]
  BY <1>8, <1>10 DEF IsRun
<1> QED
  BY <1>11, <1>12

LEMMA ParsedType ==
    ASSUME NEW lines \in Seq(Line)
    PROVE  parse_lines(lines) \in ParseState
<1>1. Len(lines) \in 0..Len(lines)
  OBVIOUS
<1> QED
  BY <1>1, ParseRun

LEMMA ParseEmpty == parse_lines(<<>>) = ParseStart
<1>1. <<>> \in Seq(Line) /\ Len(<<>>) = 0
  OBVIOUS
<1> QED
  BY <1>1, ParseRun

(* One more line is one more step.                                         *)
LEMMA ParseAppend ==
    ASSUME NEW lines \in Seq(Line), NEW line \in Line
    PROVE  parse_lines(Append(lines, line)) = ParseLine(parse_lines(lines), line)
<1> DEFINE n == Len(lines)
           more == Append(lines, line)
<1>1. /\ n \in Nat /\ more \in Seq(Line) /\ Len(more) = n + 1 /\ more[n + 1] = line
      /\ \A k \in 1..n : more[k] = lines[k]
  OBVIOUS
<1>2. PICK st \in [0..n -> ParseState] :
        /\ st[0] = ParseStart
        /\ \A k \in 1..n : st[k] = ParseLine(st[k - 1], lines[k])
        /\ parse_lines(lines) = st[n]
  BY ParseRun
<1>3. PICK mo \in [0..(n + 1) -> ParseState] :
        /\ mo[0] = ParseStart
        /\ \A k \in 1..(n + 1) : mo[k] = ParseLine(mo[k - 1], more[k])
        /\ parse_lines(more) = mo[n + 1]
  <2> HIDE DEF more, n
  <2> QED
    BY <1>1, ParseRun
<1> HIDE DEF more
<1> DEFINE P == {k \in Nat : k <= n => mo[k] = st[k]}
<1>4. 0 \in P
  BY <1>2, <1>3
<1>5. ASSUME NEW k \in Nat, k \in P  PROVE k + 1 \in P
  <2> SUFFICES ASSUME k + 1 <= n  PROVE mo[k + 1] = st[k + 1]
    OBVIOUS
  <2>1. mo[k] = st[k] /\ more[k + 1] = lines[k + 1] /\ (k + 1) - 1 = k
    BY <1>1, <1>5
  <2>2. k + 1 \in 1..n /\ k + 1 \in 1..(n + 1)
    BY <1>1
  <2> QED
    BY <1>2, <1>3, <2>1, <2>2
<1>6. mo[n] = st[n]
  <2>1. Nat \subseteq P
    <3> HIDE DEF P
    <3> QED
      BY <1>4, <1>5, SetInduction
  <2> QED
    BY <1>1, <2>1
<1>7. mo[n + 1] = ParseLine(mo[(n + 1) - 1], more[n + 1]) /\ (n + 1) - 1 = n
  BY <1>1, <1>3
<1> HIDE DEF n
<1>8. mo[n + 1] = ParseLine(st[n], line)
  BY <1>1, <1>6, <1>7
<1> QED
  BY <1>2, <1>3, <1>8 DEF more

-----------------------------------------------------------------------------
(* The log and what the parser makes of it, as the program is traced.      *)

TraceInv ==
    /\ TracedTypeOK
    /\ tracing \in {None} \cup Tracing
    /\ tracing # None => files[Root] # <<>>
    /\ tracing = None => log = <<>> /\ Live = {}
    /\ LabelsInv /\ LabelsAreRight

(* A process has an fd table once it has started.                          *)
LEMMA TableNotEmpty == \A table \in [Fd -> Device \cup {OtherFile, None}] : table # <<>>
<1> SUFFICES ASSUME NEW table \in [Fd -> Device \cup {OtherFile, None}], table = <<>>
             PROVE  FALSE
  OBVIOUS
<1>1. DOMAIN table = Fd /\ DOMAIN <<>> = {}
  OBVIOUS
<1> QED
  BY <1>1, TracedAssumption

LEMMA StartInv ==
    ASSUME Start, tracing' \in Tracing
    PROVE  TraceInv'
<1>1. PICK inherited \in [Fd -> {OtherFile, None}] :
        files' = [p \in Process |-> IF p = Root THEN inherited ELSE <<>>]
  BY DEF Start
<1>2. log' = <<>> /\ reached' = <<>> /\ Root \in Process
  BY TracedAssumption DEF Start
<1>3. files'[Root] = inherited /\ inherited \in [Fd -> Device \cup {OtherFile, None}]
  BY <1>1, <1>2
<1>4. TracedTypeOK'
  <2>1. files' \in [Process -> Files]
    BY <1>1, <1>3 DEF Files
  <2> QED
    BY <1>2, <2>1 DEF TracedTypeOK
<1>5. inherited # <<>>
  BY <1>3, TableNotEmpty
<1>6. Live' = {Root}
  BY <1>1, <1>2, <1>5 DEF Live
<1>7. parse_lines(log)' = ParseStart
  BY <1>2, ParseEmpty
<1>8. tracing' # None
  BY NoneAssumption
<1>9. LabelsInv' /\ LabelsAreRight'
  <2>1. IsFiniteSet(Live')
    BY <1>6, FS_Singleton
  <2>2. Labels' = <<>> /\ Len(Labels') = Len(reached')
    BY <1>2, <1>7 DEF Labels, ParseStart
  <2>3. \A f \in Fd : parse_lines(log)'.fd_map[f] = None /\ inherited[f] \notin Device
    BY <1>1, <1>7, TracedAssumption DEF ParseStart, NoFds
  <2>4. LabelsAreRight'
    BY <2>2 DEF LabelsAreRight
  <2> QED
    BY <1>3, <2>1, <2>2, <2>3, <2>4 DEF LabelsInv
<1> QED
  BY <1>3, <1>4, <1>5, <1>8, <1>9 DEF TraceInv

LEMMA EndInv ==
    ASSUME files' = [p \in Process |-> <<>>], log' = <<>>, reached' = <<>>, tracing' = None
    PROVE  TraceInv'
<1>1. TracedTypeOK'
  BY DEF TracedTypeOK, Files
<1>2. Live' = {}
  BY DEF Live
<1>3. Labels' = <<>>
  BY ParseEmpty DEF Labels, ParseStart
<1>4. LabelsInv' /\ LabelsAreRight'
  BY <1>2, <1>3, FS_EmptySet DEF LabelsInv, LabelsAreRight
<1> QED
  BY <1>1, <1>2, <1>4 DEF TraceInv

LEMMA TraceStill ==
    ASSUME TraceInv, UNCHANGED <<traceVars, tracing>>
    PROVE  TraceInv'
BY DEF TraceInv, traceVars, TracedTypeOK, LabelsInv, LabelsAreRight, Labels, LogComplete, Live

-----------------------------------------------------------------------------
(* The log of one process tells all of it.                                 *)
LEMMA OneProcess ==
    ASSUME TraceInv, tracing # None, Live \subseteq Live', IsFiniteSet(Live'),
           log' = log \/ \E l \in Line : log' = Append(log, l),
           LogComplete'
    PROVE  LogComplete /\ Live' = {Root} /\ Live = {Root}
<1>1. Root \in Live
  BY TracedAssumption DEF TraceInv, Live
<1>2. Cardinality(Live') <= 1 /\ Cardinality(Live') \in Nat
  BY FS_CardinalityType DEF LogComplete
<1>3. Live' = {Root}
  <2>1. Root \in Live' /\ Live' # {}
    BY <1>1
  <2>2. Cardinality(Live') # 0
    BY <2>1, FS_EmptySet
  <2>3. Cardinality(Live') = 1
    BY <1>2, <2>2
  <2>4. PICK x : Live' = {x}
    BY <2>3, FS_Singleton
  <2> QED
    BY <2>1, <2>4
<1>4. Live = {Root} /\ Cardinality(Live) = 1
  BY <1>1, <1>3, FS_Singleton
<1>5. \A i \in DOMAIN log : i \in DOMAIN log' /\ log'[i] = log[i]
  BY DEF TraceInv, TracedTypeOK
<1> QED
  BY <1>3, <1>4, <1>5 DEF LogComplete

(* What a call does to the fd table of its process.                        *)
LEMMA TableStep ==
    ASSUME TracedTypeOK, NEW p \in Live, NEW f \in Fd,
           NEW v \in Device \cup {OtherFile, None},
           files' = [files EXCEPT ![p][f] = v]
    PROVE  /\ files' \in [Process -> Files] /\ Live' = Live
           /\ \A g \in Fd : files'[p][g] = IF g = f THEN v ELSE files[p][g]
<1>1. p \in Process /\ files \in [Process -> Files] /\ files[p] # <<>>
  BY DEF Live, TracedTypeOK
<1>2. files[p] \in [Fd -> Device \cup {OtherFile, None}]
  BY <1>1 DEF Files
<1>3. /\ files' = [files EXCEPT ![p] = [files[p] EXCEPT ![f] = v]]
      /\ [files[p] EXCEPT ![f] = v] \in [Fd -> Device \cup {OtherFile, None}]
  BY <1>1, <1>2
<1>4. files'[p] # <<>>
  BY <1>1, <1>3, TableNotEmpty
<1>5. files' \in [Process -> Files]
  BY <1>1, <1>3 DEF Files
<1>6. Live' = Live
  BY <1>1, <1>3, <1>4 DEF Live
<1> QED
  BY <1>1, <1>2, <1>3, <1>5, <1>6

(* Whole or cut, a call leaves a line.                                     *)
LEMMA LogsLine ==
    ASSUME TracedTypeOK, NEW line \in Line, line.call \in {"openat", "close", "ioctl"},
           Logs(line)
    PROVE  \E l \in Line : /\ log' = Append(log, l)
                           /\ l = line \/ l = Unfinished(line.call)
BY DEF Logs, Unfinished, Line

(* What is left to show of a call, once it is clear what it did.           *)
LEMMA CallStep ==
    ASSUME TraceInv, tracing # None, UNCHANGED tracing,
           files' \in [Process -> Files], Live' = Live,
           NEW l \in Line, log' = Append(log, l),
           reached' \in Seq(Device \cup {OtherFile}),
           LogComplete' =>
             LET st == parse_lines(log)
                 new == ParseLine(st, l)
             IN /\ Len(new.ioctls) = Len(reached')
                /\ \A f \in Fd : new.fd_map[f] =
                     IF files'[Root][f] \in Device THEN files'[Root][f] ELSE None
                /\ \A i \in DOMAIN new.ioctls : new.ioctls[i].device = DeviceOf(reached'[i])
    PROVE  TraceInv'
<1>1. log \in Seq(Line) /\ log' \in Seq(Line)
  BY DEF TraceInv, TracedTypeOK
<1>2. parse_lines(log)' = ParseLine(parse_lines(log), l)
  BY <1>1, ParseAppend
<1>3. TracedTypeOK'
  BY <1>1 DEF TracedTypeOK
<1>4. tracing' # None /\ files'[Root] # <<>>
  <2>1. Root \in Live
    BY TracedAssumption DEF TraceInv, Live
  <2> QED
    BY <2>1 DEF Live
<1>5. LabelsInv'
  BY <1>2, <1>4 DEF LabelsInv, Labels, TraceInv
<1>6. LabelsAreRight'
  BY <1>2 DEF LabelsAreRight, Labels, DeviceOf
<1> QED
  BY <1>3, <1>4, <1>5, <1>6 DEF TraceInv

(* The parser's state and the kernel's while the log tells all.            *)
LEMMA Following ==
    ASSUME TraceInv, tracing # None, LogComplete
    PROVE  LET st == parse_lines(log)
           IN /\ st \in ParseState /\ Len(st.ioctls) = Len(reached)
              /\ \A f \in Fd : st.fd_map[f] =
                   IF files[Root][f] \in Device THEN files[Root][f] ELSE None
              /\ \A i \in DOMAIN st.ioctls : st.ioctls[i].device = DeviceOf(reached[i])
<1>1. parse_lines(log) \in ParseState
  BY ParsedType DEF TraceInv, TracedTypeOK
<1> QED
  BY <1>1 DEF TraceInv, LabelsInv, LabelsAreRight, Labels

LEMMA OpenatStep ==
    ASSUME TraceInv, tracing # None, UNCHANGED tracing,
           NEW p \in Live, NEW path \in Device \cup {OtherFile}, Openat(p, path)
    PROVE  TraceInv'
<1>1. PICK f \in Free(p) :
        /\ files' = [files EXCEPT ![p][f] = path]
        /\ Logs(OpenatLine(f, path))
        /\ UNCHANGED reached
  BY DEF Openat
<1>2. TracedTypeOK /\ IsFiniteSet(Live)
  BY DEF TraceInv, LabelsInv
<1>3. f \in Fd /\ files[p][f] = None /\ path # None
  BY TracedAssumption DEF Free
<1>4. /\ files' \in [Process -> Files] /\ Live' = Live
      /\ \A g \in Fd : files'[p][g] = IF g = f THEN path ELSE files[p][g]
  <2>1. path \in Device \cup {OtherFile, None} /\ f \in Fd
    BY <1>3
  <2>2. files' = [files EXCEPT ![p][f] = path]
    BY <1>1
  <2> QED
    BY <1>2, <2>1, <2>2, TableStep, ZenonT(60)
<1>5. OpenatLine(f, path) \in Line /\ OpenatLine(f, path).call = "openat"
  BY <1>3 DEF OpenatLine, Line
<1>6. PICK l \in Line : /\ log' = Append(log, l)
                        /\ l = OpenatLine(f, path) \/ l = Unfinished("openat")
  BY <1>1, <1>2, <1>5, LogsLine
<1>7. ASSUME LogComplete'
      PROVE  LET st == parse_lines(log)
                 new == ParseLine(st, l)
             IN /\ Len(new.ioctls) = Len(reached')
                /\ \A g \in Fd : new.fd_map[g] =
                     IF files'[Root][g] \in Device THEN files'[Root][g] ELSE None
                /\ \A i \in DOMAIN new.ioctls : new.ioctls[i].device = DeviceOf(reached'[i])
  <2>1. LogComplete /\ Live = {Root}
    BY <1>2, <1>4, <1>6, <1>7, OneProcess
  <2>2. p = Root
    BY <2>1
  <2>3. l = OpenatLine(f, path)
    <3>1. Len(log) + 1 \in DOMAIN log' /\ log'[Len(log) + 1] = l
      BY <1>2, <1>6 DEF TracedTypeOK
    <3>2. l.call = "unfinished" => l.of \notin {"openat", "close"}
      BY <1>7, <3>1 DEF LogComplete
    <3> QED
      BY <1>6, <3>2 DEF Unfinished
  <2> DEFINE st == parse_lines(log)
  <2>4. /\ st \in ParseState /\ Len(st.ioctls) = Len(reached)
        /\ \A g \in Fd : st.fd_map[g] =
             IF files[Root][g] \in Device THEN files[Root][g] ELSE None
        /\ \A i \in DOMAIN st.ioctls : st.ioctls[i].device = DeviceOf(reached[i])
    BY <2>1, Following
  <2> HIDE DEF st
  <2> DEFINE new == ParseLine(st, l)
  <2>5. new = OpenatSeen(st, l) /\ l.path = path /\ l.fd = f
    BY <2>3 DEF ParseLine, OpenatLine
  <2>6. new.ioctls = st.ioctls
    BY <2>4, <2>5 DEF OpenatSeen, ParseState
  <2>7. \A g \in Fd : new.fd_map[g] =
             IF files'[Root][g] \in Device THEN files'[Root][g] ELSE None
    <3>1. CASE path \in Device
      <4>1. \A g \in Fd : new.fd_map[g] = IF g = f THEN path ELSE st.fd_map[g]
        BY <1>3, <2>4, <2>5, <3>1 DEF OpenatSeen, ParseState, FdMap
      <4> QED
        BY <1>4, <2>2, <2>4, <3>1, <4>1
    <3>2. CASE path \notin Device
      <4>1. new = st
        BY <2>5, <3>2 DEF OpenatSeen
      <4>2. None \notin Device
        BY TracedAssumption
      <4> QED
        BY <1>3, <1>4, <2>2, <2>4, <3>2, <4>1, <4>2
    <3> QED
      BY <3>1, <3>2
  <2> QED
    BY <1>1, <2>4, <2>6, <2>7 DEF st
<1>8. reached' \in Seq(Device \cup {OtherFile})
  BY <1>1, <1>2 DEF TracedTypeOK
<1> QED
  BY <1>4, <1>6, <1>7, <1>8, CallStep

LEMMA CloseStep ==
    ASSUME TraceInv, tracing # None, UNCHANGED tracing,
           NEW p \in Live, NEW f \in Fd, Close(p, f)
    PROVE  TraceInv'
<1>1. /\ files' = [files EXCEPT ![p][f] = None]
      /\ Logs(CloseLine(f))
      /\ UNCHANGED reached
  BY DEF Close
<1>2. TracedTypeOK /\ IsFiniteSet(Live)
  BY DEF TraceInv, LabelsInv
<1>3. /\ files' \in [Process -> Files] /\ Live' = Live
      /\ \A g \in Fd : files'[p][g] = IF g = f THEN None ELSE files[p][g]
  <2>1. None \in Device \cup {OtherFile, None}
    OBVIOUS
  <2>2. files' = [files EXCEPT ![p][f] = None]
    BY <1>1
  <2> QED
    BY <1>2, <2>1, <2>2, TableStep, Zenon
<1>4. CloseLine(f) \in Line /\ CloseLine(f).call = "close"
  BY DEF CloseLine, Line
<1>5. PICK l \in Line : /\ log' = Append(log, l)
                        /\ l = CloseLine(f) \/ l = Unfinished("close")
  BY <1>1, <1>2, <1>4, LogsLine
<1>6. ASSUME LogComplete'
      PROVE  LET st == parse_lines(log)
                 new == ParseLine(st, l)
             IN /\ Len(new.ioctls) = Len(reached')
                /\ \A g \in Fd : new.fd_map[g] =
                     IF files'[Root][g] \in Device THEN files'[Root][g] ELSE None
                /\ \A i \in DOMAIN new.ioctls : new.ioctls[i].device = DeviceOf(reached'[i])
  <2>1. LogComplete /\ Live = {Root}
    BY <1>2, <1>3, <1>5, <1>6, OneProcess
  <2>2. p = Root
    BY <2>1
  <2>3. l = CloseLine(f)
    <3>1. Len(log) + 1 \in DOMAIN log' /\ log'[Len(log) + 1] = l
      BY <1>2, <1>5 DEF TracedTypeOK
    <3>2. l.call = "unfinished" => l.of \notin {"openat", "close"}
      BY <1>6, <3>1 DEF LogComplete
    <3> QED
      BY <1>5, <3>2 DEF Unfinished
  <2> DEFINE st == parse_lines(log)
  <2>4. /\ st \in ParseState /\ Len(st.ioctls) = Len(reached)
        /\ \A g \in Fd : st.fd_map[g] =
             IF files[Root][g] \in Device THEN files[Root][g] ELSE None
        /\ \A i \in DOMAIN st.ioctls : st.ioctls[i].device = DeviceOf(reached[i])
    BY <2>1, Following
  <2> HIDE DEF st
  <2> DEFINE new == ParseLine(st, l)
  <2>5. new = CloseSeen(st, l) /\ l.fd = f
    BY <2>3 DEF ParseLine, CloseLine
  <2>6. /\ new.ioctls = st.ioctls
        /\ \A g \in Fd : new.fd_map[g] = IF g = f THEN None ELSE st.fd_map[g]
    BY <2>4, <2>5 DEF CloseSeen, ParseState, FdMap
  <2>7. None \notin Device
    BY TracedAssumption
  <2> QED
    BY <1>1, <1>3, <2>2, <2>4, <2>6, <2>7 DEF st
<1>7. reached' \in Seq(Device \cup {OtherFile})
  BY <1>1, <1>2 DEF TracedTypeOK
<1> QED
  BY <1>3, <1>5, <1>6, <1>7, CallStep

LEMMA IoctlStep ==
    ASSUME TraceInv, tracing # None, UNCHANGED tracing,
           NEW p \in Live, NEW f \in Fd, NEW c \in Code, Ioctl(p, f, c)
    PROVE  TraceInv'
<1> DEFINE file == files[p][f]
<1>1. /\ file # None /\ Logs(IoctlLine(f, c)) /\ UNCHANGED files
      /\ reached' = IF Last(log').call = "ioctl" THEN Append(reached, file) ELSE reached
  BY DEF Ioctl
<1>2. TracedTypeOK /\ IsFiniteSet(Live) /\ UNCHANGED Live
  BY <1>1 DEF TraceInv, LabelsInv, Live
<1>3. file \in Device \cup {OtherFile}
  <2>1. p \in Process /\ files[p] # <<>> /\ files[p] \in Files
    BY <1>2 DEF Live, TracedTypeOK
  <2> QED
    BY <1>1, <2>1 DEF Files
<1>4. IoctlLine(f, c) \in Line /\ IoctlLine(f, c).call = "ioctl"
  BY DEF IoctlLine, Line
<1>5. PICK l \in Line : /\ log' = Append(log, l)
                        /\ l = IoctlLine(f, c) \/ l = Unfinished("ioctl")
  BY <1>1, <1>2, <1>4, LogsLine
<1>6. Last(log') = l
  BY <1>2, <1>5 DEF TracedTypeOK, Last
<1>7. ASSUME LogComplete'
      PROVE  LET st == parse_lines(log)
                 new == ParseLine(st, l)
             IN /\ Len(new.ioctls) = Len(reached')
                /\ \A g \in Fd : new.fd_map[g] =
                     IF files'[Root][g] \in Device THEN files'[Root][g] ELSE None
                /\ \A i \in DOMAIN new.ioctls : new.ioctls[i].device = DeviceOf(reached'[i])
  <2>1. LogComplete /\ Live = {Root}
    BY <1>2, <1>5, <1>7, OneProcess
  <2>2. p = Root
    BY <2>1
  <2> DEFINE st == parse_lines(log)
  <2>3. /\ st \in ParseState /\ Len(st.ioctls) = Len(reached)
        /\ \A g \in Fd : st.fd_map[g] =
             IF files[Root][g] \in Device THEN files[Root][g] ELSE None
        /\ \A i \in DOMAIN st.ioctls : st.ioctls[i].device = DeviceOf(reached[i])
    BY <2>1, Following
  <2> HIDE DEF st
  <2> DEFINE new == ParseLine(st, l)
  <2>4. CASE l = Unfinished("ioctl")
    <3>1. new = st /\ reached' = reached
      BY <1>1, <1>6, <2>4 DEF ParseLine, Unfinished
    <3> QED
      BY <1>1, <2>3, <3>1 DEF st
  <2>5. CASE l = IoctlLine(f, c)
    <3> DEFINE entry == [device |-> IF st.fd_map[f] = None THEN "unknown" ELSE st.fd_map[f],
                         request_code |-> c, is_new |-> FALSE]
    <3>1. new = [st EXCEPT !.ioctls = Append(st.ioctls, entry)]
      BY <2>5 DEF ParseLine, IoctlSeen, IoctlLine
    <3>2. reached' = Append(reached, file)
      BY <1>1, <1>6, <2>5 DEF IoctlLine
    <3>3. entry.device = DeviceOf(file)
      <4>1. None \notin Device
        BY TracedAssumption
      <4> QED
        BY <2>2, <2>3, <4>1 DEF DeviceOf
    <3> HIDE DEF entry, file
    <3>4. new.fd_map = st.fd_map /\ new.ioctls = Append(st.ioctls, entry)
      BY <2>3, <3>1 DEF ParseState
    <3>5. st.ioctls \in Seq(Entry) /\ reached \in Seq(Device \cup {OtherFile})
      BY <1>2, <2>3 DEF ParseState, TracedTypeOK
    <3>6. Len(new.ioctls) = Len(reached')
      BY <2>3, <3>2, <3>4, <3>5
    <3>7. \A i \in DOMAIN new.ioctls : new.ioctls[i].device = DeviceOf(reached'[i])
      BY <2>3, <3>2, <3>3, <3>4, <3>5
    <3> QED
      BY <1>1, <2>3, <3>4, <3>6, <3>7 DEF st
  <2> QED
    BY <1>5, <2>4, <2>5
<1>8. reached' \in Seq(Device \cup {OtherFile})
  BY <1>1, <1>2, <1>3 DEF TracedTypeOK
<1>9. files' \in [Process -> Files]
  BY <1>1, <1>2 DEF TracedTypeOK
<1> QED
  BY <1>2, <1>5, <1>7, <1>8, <1>9, CallStep

(* After a fork the log is of two processes.                               *)
LEMMA ForkStep ==
    ASSUME TraceInv, tracing # None, UNCHANGED tracing,
           NEW p \in Live, NEW q \in Process, Fork(p, q)
    PROVE  TraceInv'
<1>1. q \notin Live /\ files' = [files EXCEPT ![q] = files[p]] /\ UNCHANGED <<log, reached>>
  BY DEF Fork
<1>2. /\ files \in [Process -> Files] /\ p \in Process /\ files[p] # <<>>
      /\ IsFiniteSet(Live)
  BY DEF TraceInv, LabelsInv, TracedTypeOK, Live
<1>3. Live' = Live \cup {q} /\ files' \in [Process -> Files]
  BY <1>1, <1>2 DEF Live
<1>4. IsFiniteSet(Live')
  BY <1>2, <1>3, FS_AddElement
<1>5. ~LogComplete'
  BY <1>1, <1>3, <1>4, OneProcess
<1>6. Root \in Live'
  BY <1>3, TracedAssumption DEF TraceInv, Live
<1> QED
  BY <1>1, <1>3, <1>4, <1>5, <1>6 DEF TraceInv, TracedTypeOK, LabelsInv, LabelsAreRight, Live

LEMMA TracedStep ==
    ASSUME TraceInv, tracing # None, UNCHANGED tracing, Traced
    PROVE  TraceInv'
BY OpenatStep, CloseStep, IoctlStep, ForkStep DEF Traced

-----------------------------------------------------------------------------
(* Marking keeps devices and codes, and marks a code at most once.         *)
MarkedOnce(seq) ==
    \A i \in DOMAIN seq : seq[i].is_new =>
        \A j \in 1..(i - 1) : seq[j].request_code # seq[i].request_code

LEMMA MarkNewMarks ==
    ASSUME NEW seq \in Seq(Entry), NEW prev
    PROVE  LET marked == MarkNew(seq, prev)
           IN /\ marked \in Seq(Entry) /\ DOMAIN marked = DOMAIN seq
              /\ \A i \in DOMAIN seq : marked[i].request_code = seq[i].request_code
              /\ MarkedOnce(marked)
<1> DEFINE new(i) == /\ seq[i].request_code \notin prev
                     /\ \A j \in 1..(i - 1) : seq[j].request_code # seq[i].request_code
           marked == MarkNew(seq, prev)
<1>1. Len(seq) \in Nat /\ DOMAIN seq = 1..Len(seq) /\ \A i \in DOMAIN seq : seq[i] \in Entry
  OBVIOUS
<1>2. marked = [i \in 1..Len(seq) |-> [device |-> seq[i].device,
                  request_code |-> seq[i].request_code, is_new |-> new(i)]]
  BY <1>1 DEF MarkNew
<1>3. \A i \in DOMAIN seq : new(i) \in BOOLEAN
  OBVIOUS
<1> HIDE DEF new, marked
<1>4. \A i \in 1..Len(seq) : marked[i] \in Entry
  BY <1>1, <1>2, <1>3 DEF Entry
<1>5. marked \in Seq(Entry) /\ DOMAIN marked = DOMAIN seq
  <2>1. marked \in [1..Len(seq) -> Entry]
    BY <1>2, <1>4
  <2> QED
    BY <1>1, <2>1
<1>6. \A i \in DOMAIN seq :
        marked[i].request_code = seq[i].request_code /\ marked[i].is_new = new(i)
  BY <1>1, <1>2
<1>7. MarkedOnce(marked)
  <2> SUFFICES ASSUME NEW i \in DOMAIN seq, marked[i].is_new, NEW j \in 1..(i - 1)
               PROVE  marked[j].request_code # marked[i].request_code
    BY <1>5 DEF MarkedOnce
  <2>1. new(i)
    BY <1>6
  <2>2. j \in DOMAIN seq
    BY <1>1
  <2> QED
    BY <1>6, <2>1, <2>2 DEF new
<1> QED
  BY <1>5, <1>6, <1>7 DEF marked

FilesInv ==
    /\ traces \in [Step -> {None} \cup Trace]
    /\ {parsed, annotated} \subseteq [Step -> {None} \cup ParsedFile]
    /\ \A s \in Step : /\ annotated[s] # None => parsed[s] # None
                       /\ parsed[s] # None => traces[s] # None
    /\ MarksInv

LEMMA ParsedByFile ==
    ASSUME FilesInv, NEW argv \in SUBSET Step, NEW s \in argv, traces[s] # None
    PROVE  ParsedBy(argv)[s] \in ParsedFile /\ MarkedOnce(ParsedBy(argv)[s].ioctl_sequence)
<1>1. traces[s] \in Seq(Line)
  BY DEF FilesInv, Trace
<1> DEFINE result == parse_lines(traces[s])
           prev == IF Before(s, argv) = {} THEN {}
                   ELSE Codes(parse_lines(traces[Max(Before(s, argv))]).ioctls)
<1>2. result \in ParseState
  BY <1>1, ParsedType
<1>3. ParsedBy(argv)[s] = [fd_map |-> result.fd_snap,
                           ioctl_sequence |-> MarkNew(result.ioctls, prev)]
  BY DEF ParsedBy
<1> HIDE DEF result, prev
<1>4. result.fd_snap \in FdMap /\ result.ioctls \in Seq(Entry)
  BY <1>2 DEF ParseState
<1>5. MarkNew(result.ioctls, prev) \in Seq(Entry) /\ MarkedOnce(MarkNew(result.ioctls, prev))
  BY <1>4, MarkNewMarks
<1> QED
  BY <1>3, <1>4, <1>5 DEF ParsedFile

LEMMA MarksAre ==
    MarksInv <=> \A s \in Step : \A file \in {parsed[s], annotated[s]} \ {None} :
                   MarkedOnce(file.ioctl_sequence)
BY DEF MarksInv, MarkedOnce

LEMMA ParseStep ==
    ASSUME FilesInv, NEW argv \in SUBSET Step, parse(argv)
    PROVE  FilesInv'
<1>1. /\ \A s \in argv : traces[s] # None
      /\ parsed' = [s \in Step |-> IF s \in argv THEN ParsedBy(argv)[s] ELSE parsed[s]]
      /\ UNCHANGED <<traces, annotated>>
  BY DEF parse
<1>2. \A s \in argv : /\ ParsedBy(argv)[s] \in ParsedFile /\ ParsedBy(argv)[s] # None
                      /\ MarkedOnce(ParsedBy(argv)[s].ioctl_sequence)
  BY <1>1, ParsedByFile, NoneAssumption
<1>3. {parsed, annotated}' \subseteq [Step -> {None} \cup ParsedFile]
  BY <1>1, <1>2 DEF FilesInv
<1>4. \A s \in Step : /\ annotated'[s] # None => parsed'[s] # None
                      /\ parsed'[s] # None => traces'[s] # None
  BY <1>1, <1>2 DEF FilesInv
<1>5. MarksInv'
  BY <1>1, <1>2, MarksAre DEF FilesInv, MarksInv, MarkedOnce
<1> QED
  BY <1>1, <1>3, <1>4, <1>5 DEF FilesInv

LEMMA AnnotateStep ==
    ASSUME FilesInv, NEW s \in Step, annotate(s)
    PROVE  FilesInv'
<1>1. /\ parsed[s] # None /\ annotated' = [annotated EXCEPT ![s] = parsed[s]]
      /\ UNCHANGED <<traces, parsed>>
  BY DEF annotate
<1>2. annotated \in [Step -> {None} \cup ParsedFile] /\ parsed \in [Step -> {None} \cup ParsedFile]
  BY DEF FilesInv
<1>3. \A t \in Step : annotated'[t] = IF t = s THEN parsed[s] ELSE annotated[t]
  BY <1>1, <1>2
<1>4. {parsed, annotated}' \subseteq [Step -> {None} \cup ParsedFile]
  BY <1>1, <1>2
<1>5. MarksInv'
  BY <1>1, <1>3 DEF FilesInv, MarksInv
<1> QED
  BY <1>1, <1>3, <1>4, <1>5 DEF FilesInv

LEMMA StepTracedFiles ==
    ASSUME FilesInv, TraceInv, StepTraced
    PROVE  FilesInv'
<1>1. /\ traces' = [traces EXCEPT ![tracing.step] = log] /\ UNCHANGED <<parsed, annotated>>
  BY DEF StepTraced
<1>2. log \in Trace /\ log # None
  BY NoneAssumption DEF TraceInv, TracedTypeOK, Trace
<1>3. /\ traces' \in [Step -> {None} \cup Trace]
      /\ \A s \in Step : traces[s] # None => traces'[s] # None
  BY <1>1, <1>2 DEF FilesInv
<1>4. MarksInv'
  BY <1>1 DEF FilesInv, MarksInv
<1> QED
  BY <1>1, <1>3, <1>4 DEF FilesInv

LEMMA FilesStill ==
    ASSUME FilesInv, UNCHANGED <<traces, parsed, annotated>>
    PROVE  FilesInv'
BY DEF FilesInv, MarksInv

-----------------------------------------------------------------------------
(* The reproducibility check.                                              *)

LEMMA TimesType == \A seq \in Seq(Entry) : \A c : Times(seq, c) \in Nat
<1> SUFFICES ASSUME NEW seq \in Seq(Entry), NEW c  PROVE Times(seq, c) \in Nat
  OBVIOUS
<1>1. IsFiniteSet(DOMAIN seq)
  <2>1. DOMAIN seq = 1..Len(seq) /\ Len(seq) \in Nat
    OBVIOUS
  <2> QED
    BY <2>1, FS_Interval
<1> DEFINE occurrences == {i \in DOMAIN seq : seq[i].request_code = c}
<1>2. IsFiniteSet(occurrences)
  BY <1>1, FS_Subset
<1> QED
  BY <1>2, FS_CardinalityType DEF Times

LEMMA CounterIsOne ==
    ASSUME NEW lines \in Seq(Line)
    PROVE  Counter(parse_lines(lines).ioctls) \in CounterType
<1>1. parse_lines(lines).ioctls \in Seq(Entry)
  BY ParsedType DEF ParseState
<1> QED
  BY <1>1, TimesType DEF Counter, CounterType

(* What a report tells of the runs it was made of.                         *)
TellsOf(r, runs) ==
    /\ \A c \in Code :
         LET hits == Cardinality(RunsWith(runs, c))
         IN IF hits \in 1..(NumRuns - 1)
            THEN /\ c \in r.non_deterministic /\ c \in r.frequency_unstable
                 /\ r.occurs[c] = hits
            ELSE c \notin r.non_deterministic
    /\ \A c \in DOMAIN r.frequency_stable, k \in 1..NumRuns :
         r.frequency_stable[c] > 0 /\ runs[k][c] = r.frequency_stable[c]

LEMMA ReportIsRight ==
    ASSUME NEW runs \in Seq(CounterType), Len(runs) = NumRuns
    PROVE  ReportOK(Report(runs)) /\ TellsOf(Report(runs), runs)
<1> DEFINE K == 1..NumRuns
           with(c) == RunsWith(runs, c)
           all == {c \in Code : with(c) # {}}
           unstable == {c \in all : Cardinality(CountsOf(runs, c)) > 1}
           r == Report(runs)
<1>1. /\ NumRuns \in Nat /\ NumRuns > 0 /\ DOMAIN runs = K
      /\ \A k \in K, c \in Code : runs[k][c] \in Nat
  <2>1. NumRuns \in Nat \ {0}
    BY LadderAssumption
  <2>2. DOMAIN runs = K /\ \A k \in K : runs[k] \in CounterType
    BY <2>1
  <2> QED
    BY <2>1, <2>2 DEF CounterType
<1>2. IsFiniteSet(K) /\ Cardinality(K) = NumRuns
  BY <1>1, FS_Interval
<1>3. \A c : /\ Cardinality(with(c)) \in 0..NumRuns
             /\ with(c) = K <=> Cardinality(with(c)) = NumRuns
             /\ with(c) = {} <=> Cardinality(with(c)) = 0
  <2> TAKE c
  <2>1. with(c) \in SUBSET K
    BY <1>1 DEF RunsWith
  <2> HIDE DEF with, K
  <2>2. /\ IsFiniteSet(with(c)) /\ Cardinality(with(c)) <= NumRuns
        /\ Cardinality(with(c)) = NumRuns <=> with(c) = K
    BY <1>2, <2>1, FS_Subset
  <2>3. Cardinality(with(c)) \in Nat /\ (Cardinality(with(c)) = 0 <=> with(c) = {})
    BY <2>2, FS_CardinalityType, FS_EmptySet
  <2> QED
    BY <1>1, <2>2, <2>3
<1>4. \A c : IsFiniteSet(CountsOf(runs, c)) /\ Cardinality(CountsOf(runs, c)) \in Nat
  <2> TAKE c
  <2> DEFINE f == [k \in K |-> runs[k][c]]
  <2>1. f \in Surjection(K, CountsOf(runs, c))
    BY <1>1 DEF Surjection, CountsOf
  <2>2. IsFiniteSet(CountsOf(runs, c))
    BY <1>2, <2>1, FS_Surjection
  <2> QED
    BY <2>2, FS_CardinalityType
<1>5. /\ r.occurs = [c \in all |-> Cardinality(with(c))]
      /\ r.non_deterministic = {c \in all : with(c) # K}
      /\ r.frequency_unstable = unstable
      /\ r.frequency_stable = [c \in all \ unstable |-> runs[1][c]]
  BY <1>1 DEF Report
<1>6. \A c : with(c) = {k \in K : runs[k][c] > 0}
  BY <1>1 DEF RunsWith
<1> HIDE DEF r, unstable, with
(* A code is called non-deterministic just if some runs have it, not all.  *)
<1>7. \A c \in Code : c \in r.non_deterministic <=> Cardinality(with(c)) \in 1..(NumRuns - 1)
  BY <1>1, <1>3, <1>5
(* Two such runs differ, so that the counts do.                            *)
<1>8. ASSUME NEW c \in r.non_deterministic  PROVE c \in unstable
  <2>1. c \in all /\ c \in Code /\ with(c) # {} /\ with(c) # K
    BY <1>5, <1>8
  <2>2. PICK k \in K : ~(runs[k][c] > 0)
    BY <1>6, <2>1
  <2>3. PICK j \in K : runs[j][c] > 0
    BY <1>6, <2>1
  <2>4. runs[k][c] \in CountsOf(runs, c) /\ runs[j][c] \in CountsOf(runs, c)
    BY <1>1 DEF CountsOf
  <2>5. Cardinality(CountsOf(runs, c)) > 1
    <3>1. Cardinality(CountsOf(runs, c)) # 0 /\ Cardinality(CountsOf(runs, c)) # 1
      BY <1>4, <2>2, <2>3, <2>4, FS_EmptySet, FS_Singleton
    <3> QED
      BY <1>4, <3>1
  <2> QED
    BY <2>1, <2>5 DEF unstable
(* A stable code has the one count that run 1 has, and it is not 0.        *)
<1>9. ASSUME NEW c \in all \ unstable, NEW k \in K
      PROVE  runs[1][c] > 0 /\ runs[k][c] = runs[1][c]
  <2>1. 1 \in K
    BY <1>1
  <2>2. \A j \in K : runs[j][c] = runs[1][c]
    <3>1. ~(Cardinality(CountsOf(runs, c)) > 1) /\ runs[1][c] \in CountsOf(runs, c)
      BY <1>1, <2>1 DEF unstable, CountsOf
    <3>2. Cardinality(CountsOf(runs, c)) = 1
      <4>1. Cardinality(CountsOf(runs, c)) # 0
        BY <1>4, <3>1, FS_EmptySet
      <4> QED
        BY <1>4, <3>1, <4>1
    <3>3. PICK x : CountsOf(runs, c) = {x}
      BY <1>4, <3>2, FS_Singleton
    <3> QED
      BY <1>1, <2>1, <3>3 DEF CountsOf
  <2>3. PICK j \in K : runs[j][c] > 0
    BY <1>6
  <2> QED
    BY <2>2, <2>3
<1>10. ReportOK(r)
  <2>1. \A c \in all : r.occurs[c] \in 1..NumRuns
    BY <1>1, <1>3, <1>5
  <2> QED
    BY <1>5, <2>1 DEF ReportOK, unstable
<1>11. TellsOf(r, runs)
  <2>1. \A c \in Code : IF Cardinality(with(c)) \in 1..(NumRuns - 1)
                        THEN /\ c \in r.non_deterministic /\ c \in r.frequency_unstable
                             /\ r.occurs[c] = Cardinality(with(c))
                        ELSE c \notin r.non_deterministic
    BY <1>5, <1>7, <1>8
  <2>2. \A c \in DOMAIN r.frequency_stable, k \in K :
           r.frequency_stable[c] > 0 /\ runs[k][c] = r.frequency_stable[c]
    BY <1>5, <1>9
  <2> QED
    BY <2>1, <2>2 DEF TellsOf, with
<1> QED
  BY <1>10, <1>11 DEF r

ChecksInv ==
    /\ used \in Nat
    /\ repro_logs \in [Step -> Seq(CounterType)] /\ per_run_counts \in Seq(CounterType)
    /\ DOMAIN reports = Step /\ \A s \in Step : reports[s] # None => ReportOK(reports[s])
    /\ Len(per_run_counts) < NumRuns
    /\ tracing = None => per_run_counts = <<>>
    /\ \A s \in Step : /\ Len(repro_logs[s]) <= NumRuns
                       /\ reports[s] # None => Len(repro_logs[s]) = NumRuns
    /\ RunsInv /\ ReportsInv

(* A run that is counted has its log, and says what is in it.              *)
LEMMA CountedStep ==
    ASSUME TraceInv, ChecksInv, Checking, NEW counter \in CounterType, Counted(counter),
           repro_logs' \in [Step -> Seq(CounterType)],
           \A s \in Step \ {tracing.step} : repro_logs'[s] = repro_logs[s],
           Len(repro_logs'[tracing.step]) \in RunNumber..NumRuns,
           Len(repro_logs'[tracing.step]) >= Len(repro_logs[tracing.step]),
           repro_logs'[tracing.step][RunNumber] = counter,
           \A k \in 1..Len(per_run_counts) :
              repro_logs'[tracing.step][k] = repro_logs[tracing.step][k]
    PROVE  TraceInv' /\ ChecksInv' /\ UNCHANGED <<traces, parsed, annotated>>
<1> DEFINE s0 == tracing.step
           runs == Append(per_run_counts, counter)
           logs == repro_logs'[s0]
<1>1. /\ tracing \in Tracing /\ s0 \in Step /\ tracing.for = "repro" /\ tracing # None
      /\ log \in Seq(Line) /\ NumRuns \in Nat \ {0}
  BY LadderAssumption DEF Checking, TraceInv, Tracing, TracedTypeOK
<1>2. /\ runs \in Seq(CounterType) /\ Len(runs) = RunNumber
      /\ RunNumber \in Nat /\ RunNumber <= NumRuns
      /\ Len(per_run_counts) \in Nat /\ RunNumber = Len(per_run_counts) + 1
      /\ \A k \in 1..RunNumber :
           runs[k] = IF k = RunNumber THEN counter ELSE per_run_counts[k]
  BY <1>1 DEF ChecksInv, RunNumber
<1>3. \A s \in Step : /\ Len(repro_logs[s]) \in Nat /\ Len(repro_logs'[s]) \in Nat
                      /\ repro_logs'[s] \in Seq(CounterType)
  BY DEF ChecksInv
<1>4. used' \in Nat /\ UNCHANGED <<traces, parsed, annotated>>
  BY <1>1 DEF Counted, ChecksInv
<1>5. \A s \in Step : /\ Len(repro_logs'[s]) <= NumRuns
                      /\ reports[s] # None => Len(repro_logs'[s]) = NumRuns
  BY <1>1, <1>2, <1>3 DEF ChecksInv
<1>6. \A k \in 1..RunNumber : runs[k] = logs[k]
  <2>1. \A k \in 1..Len(per_run_counts) : per_run_counts[k] = repro_logs[s0][k]
    BY <1>1, <1>2 DEF ChecksInv, RunsInv
  <2>2. \A k \in 1..RunNumber : k = RunNumber \/ k \in 1..Len(per_run_counts)
    BY <1>2
  <2> QED
    BY <1>2, <2>1, <2>2
(* No other check runs, before or after: that of the others is as it was.  *)
<1>7. \A s \in Step \ {s0} : reports[s] # None => reports[s] = Report(repro_logs'[s])
  BY DEF ChecksInv, ReportsInv, CheckRuns
<1>8. CASE RunNumber = NumRuns
  <2>1. /\ reports' = [reports EXCEPT ![s0] = Report(runs)]
        /\ tracing' = None /\ per_run_counts' = <<>>
        /\ files' = [p \in Process |-> <<>>] /\ log' = <<>> /\ reached' = <<>>
    BY <1>8 DEF Counted
  <2>2. TraceInv'
    BY <2>1, EndInv
  <2>3. ReportOK(Report(runs))
    BY <1>2, <1>8, ReportIsRight
  <2>4. runs = logs
    <3>1. logs \in Seq(CounterType) /\ Len(logs) = RunNumber
      BY <1>1, <1>3, <1>8
    <3> HIDE DEF runs, logs
    <3> QED
      BY <1>2, <1>6, <3>1
  <2>5. /\ DOMAIN reports' = Step
        /\ \A s \in Step : reports'[s] = IF s = s0 THEN Report(runs) ELSE reports[s]
    BY <1>1, <2>1 DEF ChecksInv
  <2>6. Len(logs) = NumRuns
    BY <1>2, <1>8, <2>4
  <2> HIDE DEF s0, runs
  <2>7. \A s \in Step : reports'[s] # None => ReportOK(reports'[s])
    BY <2>3, <2>5 DEF ChecksInv
  <2>8. \A s \in Step : reports'[s] # None => Len(repro_logs'[s]) = NumRuns
    BY <1>5, <2>5, <2>6
  <2>9. ReportsInv'
    <3>1. \A s \in Step : reports'[s] # None => reports'[s] = Report(repro_logs'[s])
      BY <1>7, <2>4, <2>5
    <3> QED
      BY <3>1 DEF ReportsInv
  <2>10. RunsInv'
    BY <2>1 DEF RunsInv, Checking
  <2>11. ChecksInv'
    BY <1>1, <1>4, <1>5, <2>1, <2>5, <2>7, <2>8, <2>9, <2>10 DEF ChecksInv
  <2> QED
    BY <1>4, <2>2, <2>11
<1>9. CASE RunNumber # NumRuns
  <2>1. /\ per_run_counts' = runs /\ Start /\ UNCHANGED <<reports, tracing>>
    BY <1>9 DEF Counted
  <2>2. TraceInv'
    BY <1>1, <2>1, StartInv
  <2>3. ReportsInv'
    BY <1>7, <2>1 DEF ReportsInv, CheckRuns, Checking
  <2>4. Len(per_run_counts') < NumRuns
    BY <1>1, <1>2, <1>9, <2>1
  <2>5. Len(per_run_counts') <= Len(logs) /\ DOMAIN per_run_counts' = 1..RunNumber
    BY <1>1, <1>2, <1>3, <2>1
  <2>6. RunsInv' /\ tracing' # None
    BY <1>1, <1>6, <2>1, <2>5 DEF RunsInv, Checking
  <2>7. ChecksInv'
    BY <1>2, <1>4, <1>5, <2>1, <2>3, <2>4, <2>6 DEF ChecksInv
  <2> QED
    BY <1>4, <2>2, <2>7
<1> QED
  BY <1>8, <1>9

LEMMA RunTracedStep ==
    ASSUME TraceInv, ChecksInv, RunTraced
    PROVE  TraceInv' /\ ChecksInv' /\ UNCHANGED <<traces, parsed, annotated>>
<1> DEFINE counter == Counter(parse_lines(log).ioctls)
           s0 == tracing.step
           old == repro_logs[s0]
           new == IF RunNumber \in DOMAIN old THEN [old EXCEPT ![RunNumber] = counter]
                                              ELSE Append(old, counter)
<1>1. Checking /\ Counted(counter) /\ repro_logs' = [repro_logs EXCEPT ![s0] = new]
  BY DEF RunTraced
<1>2. counter \in CounterType
  BY CounterIsOne DEF TraceInv, TracedTypeOK
<1>3. s0 \in Step /\ NumRuns \in Nat
  BY <1>1, LadderAssumption DEF Checking, TraceInv, Tracing
<1>4. /\ old \in Seq(CounterType) /\ Len(old) <= NumRuns
      /\ RunNumber \in Nat /\ RunNumber >= 1 /\ RunNumber <= NumRuns
      /\ Len(per_run_counts) <= Len(old)
  BY <1>1, <1>3 DEF ChecksInv, RunNumber, RunsInv
<1> HIDE DEF counter, old
<1>5. /\ new \in Seq(CounterType)
      /\ Len(new) >= Len(old) /\ Len(new) \in RunNumber..NumRuns
      /\ new[RunNumber] = counter
      /\ \A k \in 1..Len(per_run_counts) : new[k] = old[k]
  <2>0. \A k \in 1..Len(per_run_counts) : k # RunNumber /\ k \in 1..Len(old)
    BY <1>4 DEF RunNumber
  <2>1. CASE RunNumber \in DOMAIN old
    BY <1>2, <1>3, <1>4, <2>0, <2>1
  <2>2. CASE RunNumber \notin DOMAIN old
    <3>1. Len(old) < RunNumber
      BY <1>4, <2>2
    <3>2. Len(old) + 1 = RunNumber
      BY <1>4, <3>1 DEF RunNumber
    <3> QED
      BY <1>2, <1>3, <1>4, <2>0, <2>2, <3>2
  <2> QED
    BY <2>1, <2>2
<1> HIDE DEF new
<1>6. /\ repro_logs' \in [Step -> Seq(CounterType)]
      /\ \A s \in Step : repro_logs'[s] = IF s = s0 THEN new ELSE repro_logs[s]
  BY <1>1, <1>3, <1>5 DEF ChecksInv
<1>7. /\ \A s \in Step \ {tracing.step} : repro_logs'[s] = repro_logs[s]
      /\ repro_logs'[tracing.step] = new
  BY <1>3, <1>6
<1> QED
  BY <1>1, <1>2, <1>5, <1>6, <1>7, CountedStep DEF old

LEMMA StraceFailsStep ==
    ASSUME TraceInv, ChecksInv, StraceFails
    PROVE  TraceInv' /\ ChecksInv' /\ UNCHANGED <<traces, parsed, annotated>>
<1> DEFINE s0 == tracing.step
           old == repro_logs[s0]
<1>1. Checking /\ UNCHANGED repro_logs
  BY DEF StraceFails
<1>2. s0 \in Step /\ NumRuns \in Nat /\ log \in Seq(Line)
  BY <1>1, LadderAssumption DEF Checking, TraceInv, Tracing, TracedTypeOK
<1>3. CASE RunNumber \in DOMAIN old
  <2>1. Counted(old[RunNumber])
    BY <1>3 DEF StraceFails
  <2>2. old \in Seq(CounterType) /\ Len(old) <= NumRuns
    BY <1>2 DEF ChecksInv
  <2>3. old[RunNumber] \in CounterType /\ Len(old) \in RunNumber..NumRuns
    BY <1>2, <1>3, <2>2
  <2>4. Len(old) >= Len(old) /\ repro_logs' = repro_logs
    BY <1>1, <2>2
  <2>5. repro_logs' \in [Step -> Seq(CounterType)]
    BY <1>1 DEF ChecksInv
  <2> QED
    BY <1>1, <2>1, <2>3, <2>4, <2>5, CountedStep
<1>4. CASE RunNumber \notin DOMAIN old
  <2>1. /\ tracing' = None /\ per_run_counts' = <<>> /\ UNCHANGED fileVars
        /\ files' = [p \in Process |-> <<>>] /\ log' = <<>> /\ reached' = <<>>
        /\ used' = used + Len(log) + 1
    BY <1>4 DEF StraceFails, NotTraced
  <2>2. TraceInv'
    BY <2>1, EndInv
  <2>3. RunsInv'
    BY <2>1 DEF RunsInv, Checking
(* A step with a report has the logs of all runs.                          *)
  <2>4. reports[s0] = None
    <3>1. RunNumber \in Nat /\ 1 <= RunNumber /\ RunNumber <= NumRuns
      BY <1>2 DEF ChecksInv, RunNumber
    <3>2. old \in Seq(CounterType) /\ (reports[s0] # None => Len(old) = NumRuns)
      BY <1>2 DEF ChecksInv
    <3> QED
      BY <1>4, <3>1, <3>2
  <2>5. NumRuns \in Nat \ {0}
    BY LadderAssumption
  <2>6. ReportsInv'
    <3>1. \A s \in Step : reports[s] # None => reports[s] = Report(repro_logs[s])
      BY <2>4 DEF ChecksInv, ReportsInv, CheckRuns
    <3> QED
      BY <1>1, <2>1, <3>1 DEF ReportsInv, fileVars
  <2>7. ChecksInv'
    BY <1>1, <1>2, <2>1, <2>3, <2>5, <2>6 DEF ChecksInv, fileVars
  <2> QED
    BY <2>1, <2>2, <2>7 DEF fileVars
<1> QED
  BY <1>3, <1>4

(* A check that begins has no run yet, and what is not a check has none.   *)
LEMMA ChecksStill ==
    ASSUME ChecksInv, used' \in Nat, tracing' \in {None} \cup Tracing,
           UNCHANGED <<repro_logs, reports>>,
           \/ UNCHANGED <<tracing, per_run_counts>>
           \/ ~Checking /\ per_run_counts' = <<>>
    PROVE  ChecksInv'
<1>1. CASE UNCHANGED <<tracing, per_run_counts>>
  BY <1>1 DEF ChecksInv, RunsInv, ReportsInv, CheckRuns, Checking
<1>2. CASE ~Checking /\ per_run_counts' = <<>>
  <2>1. NumRuns \in Nat \ {0}
    BY LadderAssumption
  <2>2. ReportsInv'
    BY <1>2 DEF ChecksInv, ReportsInv, CheckRuns
  <2>3. RunsInv'
    <3>1. \A s \in Step : Len(repro_logs[s]) \in Nat
      BY DEF ChecksInv
    <3>2. Checking' => tracing'.step \in Step
      BY DEF Checking, Tracing
    <3> QED
      BY <1>2, <3>1, <3>2 DEF RunsInv
  <2> QED
    BY <1>2, <2>1, <2>2, <2>3 DEF ChecksInv
<1> QED
  BY <1>1, <1>2

-----------------------------------------------------------------------------
(* The invariant, piece by piece.                                          *)

LEMMA Pieces ==
    /\ LadderInv <=> TraceInv /\ FilesInv /\ ChecksInv
    /\ LadderInv' <=> TraceInv' /\ FilesInv' /\ ChecksInv'
<1>1. \A x : x \in Tracing => x.step \in Step
  BY DEF Tracing
<1> QED
  BY <1>1 DEF LadderInv, TypeOK, TraceInv, FilesInv, ChecksInv

LEMMA InitInv == Init => LadderInv
<1> SUFFICES ASSUME Init  PROVE LadderInv
  OBVIOUS
<1>1. TracedTypeOK /\ Live = {} /\ Labels = <<>>
  BY ParseEmpty DEF Init, TracedTypeOK, Files, Live, Labels, ParseStart
<1>2. TraceInv
  BY <1>1, FS_EmptySet DEF Init, TraceInv, LabelsInv, LabelsAreRight
<1>3. FilesInv
  BY DEF Init, Nowhere, FilesInv, MarksInv
<1>4. NumRuns \in Nat \ {0}
  BY LadderAssumption
<1>5. ChecksInv
  BY <1>4 DEF Init, Nowhere, ChecksInv, RunsInv, Checking, ReportsInv
<1> QED
  BY <1>2, <1>3, <1>5, Pieces

LEMMA NextInv == LadderInv /\ [Next]_vars => LadderInv'
<1> SUFFICES ASSUME LadderInv, [Next]_vars  PROVE LadderInv'
  OBVIOUS
<1>1. TraceInv /\ FilesInv /\ ChecksInv
  BY Pieces
<1>2. /\ used \in Nat /\ log \in Seq(Line) /\ tracing \in {None} \cup Tracing
      /\ tracing = None => per_run_counts = <<>>
  BY <1>1 DEF TraceInv, TracedTypeOK, ChecksInv
<1>3. ASSUME NEW s \in Step, NEW purpose \in {"ladder", "repro"}, TraceStarts(purpose, s)
      PROVE  TraceInv' /\ FilesInv' /\ tracing' \in Tracing
  <2>1. tracing' \in Tracing
    BY <1>3 DEF TraceStarts, Tracing
  <2> QED
    BY <1>1, <1>3, <2>1, StartInv, FilesStill DEF TraceStarts, fileVars
<1>4. CASE \E s \in Step : TraceStep(s)
  <2>1. PICK s \in Step : TraceStarts("ladder", s) /\ UNCHANGED per_run_counts /\ tracing = None
    BY <1>4 DEF TraceStep, TraceStarts
  <2>2. ChecksInv'
    BY <1>1, <1>2, <1>3, <2>1, ChecksStill DEF TraceStarts, fileVars, Checking
  <2> QED
    BY <1>3, <2>1, <2>2, Pieces
<1>5. CASE \E s \in Step : CheckStep(s)
  <2>1. PICK s \in Step : TraceStarts("repro", s) /\ per_run_counts' = <<>>
    BY <1>5 DEF CheckStep
  <2>2. ChecksInv'
    BY <1>1, <1>2, <1>3, <2>1, ChecksStill DEF TraceStarts, fileVars, Checking
  <2> QED
    BY <1>3, <2>1, <2>2, Pieces
<1>6. CASE \E s \in Step : annotate(s)
  <2>1. PICK s \in Step : annotate(s)
    BY <1>6
  <2>2. FilesInv'
    BY <1>1, <2>1, AnnotateStep
  <2> QED
    BY <1>1, <1>2, <2>1, <2>2, TraceStill, ChecksStill, Pieces DEF annotate
<1>7. CASE \E argv \in (SUBSET Step) \ {{}} : parse(argv)
  <2>1. PICK argv \in SUBSET Step : parse(argv)
    BY <1>7
  <2>2. FilesInv'
    BY <1>1, <2>1, ParseStep
  <2> QED
    BY <1>1, <1>2, <2>1, <2>2, TraceStill, ChecksStill, Pieces DEF parse
<1>8. CASE TraceLine
  <2>1. TraceInv'
    BY <1>1, <1>8, TracedStep DEF TraceLine
  <2> QED
    BY <1>1, <1>2, <1>8, <2>1, FilesStill, ChecksStill, Pieces DEF TraceLine, fileVars
<1>9. CASE StepTraced
  <2>1. TraceInv' /\ used' \in Nat
    BY <1>2, <1>9, EndInv DEF StepTraced, NotTraced
  <2>2. ~Checking /\ per_run_counts = <<>>
    BY <1>1, <1>9 DEF ChecksInv, RunsInv, Checking, StepTraced
  <2>3. ChecksInv'
    BY <1>1, <1>9, <2>1, <2>2, ChecksStill DEF StepTraced
  <2> QED
    BY <1>1, <1>9, <2>1, <2>3, StepTracedFiles, Pieces
<1>10. CASE RunTraced
  BY <1>1, <1>10, RunTracedStep, FilesStill, Pieces
<1>11. CASE StraceFails
  BY <1>1, <1>11, StraceFailsStep, FilesStill, Pieces
<1>12. CASE UNCHANGED vars
  BY <1>1, <1>2, <1>12, TraceStill, FilesStill, ChecksStill, Pieces DEF vars, fileVars
<1> QED
  BY <1>4, <1>5, <1>6, <1>7, <1>8, <1>9, <1>10, <1>11, <1>12 DEF Next, Over

(* The inductive invariant of the ladder's tools: the types, that a run    *)
(* of a check has its log, the marks, the parser's map, the labels and     *)
(* what a report says.                                                     *)
THEOREM LadderInvariant == Spec => []LadderInv
BY InitInv, NextInv, PTL DEF Spec

(* Every variable has its type: each report that of its check's runs, each *)
(* annotated step parsed, each parsed step traced.                         *)
THEOREM TypesHold == Spec => []TypeOK
BY LadderInvariant, PTL DEF LadderInv

(* While strace's log is of one process and has every open and close, each *)
(* ioctl in it is labelled with the device its fd named, for logs of any   *)
(* length and any reuse of fds.                                            *)
THEOREM LabelsRight == Spec => []LabelsAreRight
BY LadderInvariant, PTL DEF LadderInv

(* What the report says of a checked step, each warning, the number in it  *)
(* and each stable count, is what the logs of its runs say, while no check *)
(* makes them anew, for any number of runs and codes and whichever of them *)
(* left an old log.                                                        *)
THEOREM ReportIsOfRuns == Spec => []ReportTellsOfRuns
<1>1. LadderInv => ReportTellsOfRuns
  <2> SUFFICES ASSUME LadderInv  PROVE ReportTellsOfRuns
    OBVIOUS
  <2> SUFFICES ASSUME NEW s \in Step, reports[s] # None, ~CheckRuns(s)
               PROVE  LET hits(c) == Cardinality(RunsWith(repro_logs[s], c))
                          stable == reports[s].frequency_stable
                      IN /\ \A c \in Code :
                              IF hits(c) \in 1..(NumRuns - 1)
                              THEN /\ repro_cell(s, c) = <<"warn", hits(c)>>
                                   /\ freq_status(s) = "vary"
                                   /\ c \in reports[s].frequency_unstable
                              ELSE repro_cell(s, c) = <<"ok">>
                         /\ \A c \in DOMAIN stable, k \in 1..NumRuns :
                              stable[c] > 0 /\ repro_logs[s][k][c] = stable[c]
    BY DEF ReportTellsOfRuns, repro_status
  <2>1. /\ repro_logs[s] \in Seq(CounterType) /\ Len(repro_logs[s]) = NumRuns
        /\ reports[s] = Report(repro_logs[s])
    BY DEF LadderInv, TypeOK, ReportsInv
  <2>2. TellsOf(reports[s], repro_logs[s])
    BY <2>1, ReportIsRight
  <2> QED
    BY <2>2 DEF TellsOf, repro_cell, freq_status
<1> QED
  BY <1>1, LadderInvariant, PTL

-----------------------------------------------------------------------------
(* What build_schema.py and generate_report.py make of the files.          *)

LEMMA SequenceOf ==
    ASSUME LadderInv, NEW s \in Built
    PROVE  /\ s \in Step /\ annotated[s] \in ParsedFile
           /\ Sequence(s) \in Seq(Entry) /\ MarkedOnce(Sequence(s))
<1>1. s \in Step /\ annotated[s] \in ParsedFile
  BY Pieces DEF Built, FilesInv
<1>2. Sequence(s) \in Seq(Entry)
  BY <1>1 DEF Sequence, ParsedFile
<1>3. MarkedOnce(Sequence(s))
  BY <1>1 DEF LadderInv, MarksInv, MarkedOnce, Sequence, Built
<1> QED
  BY <1>1, <1>2, <1>3

LEMMA StepBefore ==
    ASSUME NEW S \in SUBSET Step, NEW s \in Step, Before(s, S) # {}
    PROVE  Max(Before(s, S)) \in Before(s, S) /\ \A t \in Before(s, S) : t <= Max(Before(s, S))
<1>1. NumSteps \in Nat \ {0}
  BY LadderAssumption
<1>2. Before(s, S) \in (SUBSET (0..NumSteps)) \ {{}}
  <2>1. ASSUME NEW t \in Before(s, S)  PROVE t \in 0..NumSteps
    <3>1. t \in 1..NumSteps
      BY DEF Before, Step
    <3> QED
      BY <1>1, <3>1
  <2> QED
    BY <2>1
<1>3. /\ Max(Before(s, S)) \in Before(s, S)
      /\ \A t \in Before(s, S) : Max(Before(s, S)) >= t
  BY <1>1, <1>2, MaxIsIn
<1> QED
  BY <1>1, <1>2, <1>3

LEMMA PrevSequenceOf ==
    ASSUME LadderInv, NEW s \in Built
    PROVE  PrevSequence(s) \in Seq(Entry)
<1>1. Built \in SUBSET Step /\ s \in Step
  BY DEF Built
<1>2. CASE Before(s, Built) = {}
  BY <1>2 DEF PrevSequence
<1>3. CASE Before(s, Built) # {}
  <2>1. Max(Before(s, Built)) \in Built
    BY <1>1, <1>3, StepBefore DEF Before
  <2> QED
    BY <1>3, <2>1, SequenceOf DEF PrevSequence
<1> QED
  BY <1>2, <1>3

LEMMA CodesFinite ==
    ASSUME NEW seq \in Seq(Entry)
    PROVE  /\ Len(seq) \in Nat /\ DOMAIN seq = 1..Len(seq) /\ IsFiniteSet(DOMAIN seq)
           /\ Codes(seq) \subseteq Code /\ IsFiniteSet(Codes(seq))
<1>1. Len(seq) \in Nat /\ DOMAIN seq = 1..Len(seq) /\ \A i \in DOMAIN seq : seq[i] \in Entry
  OBVIOUS
<1>2. IsFiniteSet(DOMAIN seq)
  BY <1>1, FS_Interval
<1> DEFINE f == [i \in DOMAIN seq |-> seq[i].request_code]
<1>3. f \in Surjection(DOMAIN seq, Codes(seq))
  BY DEF Surjection, Codes
<1>4. IsFiniteSet(Codes(seq))
  BY <1>2, <1>3, FS_Surjection
<1>5. Codes(seq) \subseteq Code
  BY <1>1 DEF Codes, Entry
<1> QED
  BY <1>1, <1>2, <1>4, <1>5

(* In the table of new codes each has one row, and its number.             *)
LEMMA RowsAreCodes ==
    ASSUME LadderInv, NEW s \in Built
    PROVE  /\ Cardinality(uniq(s)) = Cardinality(new_ioctls(s))
           /\ Cardinality(new_ioctls(s)) <= Cardinality(new_codes(s))
<1> DEFINE seq == Sequence(s)
           rows == new_ioctls(s)
           f == [i \in rows |-> seq[i].request_code]
<1>1. seq \in Seq(Entry) /\ MarkedOnce(seq)
  BY SequenceOf
<1>2. /\ rows \subseteq DOMAIN seq /\ rows \subseteq Nat
      /\ \A i \in rows : seq[i].is_new /\ seq[i].request_code \in new_codes(s)
  BY <1>1, CodesFinite DEF new_ioctls
<1>3. IsFiniteSet(rows) /\ IsFiniteSet(new_codes(s))
  <2>1. IsFiniteSet(DOMAIN seq) /\ IsFiniteSet(Codes(seq))
    BY <1>1, CodesFinite
  <2>2. new_codes(s) \subseteq Codes(seq)
    BY DEF new_codes
  <2> QED
    BY <1>2, <2>1, <2>2, FS_Subset
<1>4. \A i, j \in rows : i # j => seq[i].request_code # seq[j].request_code
  <2>1. \A i, j \in rows : i < j => seq[i].request_code # seq[j].request_code
    BY <1>1, <1>2, CodesFinite DEF MarkedOnce
  <2> QED
    BY <1>2, <2>1
<1>5. uniq(s) = {seq[i].request_code : i \in rows}
  BY DEF uniq
<1> HIDE DEF rows, seq
<1>6. f \in Bijection(rows, uniq(s))
  <2>1. f \in [rows -> uniq(s)]
    BY <1>5
  <2>2. \A i, j \in rows : f[i] = f[j] => i = j
    BY <1>4
  <2>3. \A c \in uniq(s) : \E i \in rows : f[i] = c
    BY <1>5
  <2> HIDE DEF f
  <2> QED
    BY <2>1, <2>2, <2>3 DEF Bijection, Injection, IsInjective, Surjection
<1>7. Cardinality(uniq(s)) = Cardinality(rows)
  BY <1>3, <1>6, FS_Bijection DEF ExistsBijection
<1>8. uniq(s) \subseteq new_codes(s)
  BY <1>2, <1>5
<1>9. Cardinality(uniq(s)) <= Cardinality(new_codes(s))
  BY <1>3, <1>8, FS_Subset
<1> QED
  BY <1>7, <1>9 DEF rows

LEMMA MarkNewCodes ==
    ASSUME NEW seq \in Seq(Entry), NEW prev
    PROVE  Codes(MarkNew(seq, prev)) = Codes(seq)
<1> DEFINE marked == MarkNew(seq, prev)
<1>1. /\ DOMAIN marked = DOMAIN seq
      /\ \A i \in DOMAIN seq : marked[i].request_code = seq[i].request_code
  BY MarkNewMarks
<1> HIDE DEF marked
<1>2. Codes(marked) = Codes(seq)
  BY <1>1 DEF Codes
<1> QED
  BY <1>2 DEF marked

(* Parsed by one command, each code that the step before lacks is marked.  *)
LEMMA AllListed ==
    ASSUME LadderInv, NEW s \in Built,
           \A t \in Built : traces[t] # None /\ annotated[t] = ParsedBy(Built)[t]
    PROVE  uniq(s) = new_codes(s)
<1> DEFINE ioctls(t) == parse_lines(traces[t]).ioctls
           prev == Before(s, Built)
           X == IF prev = {} THEN {} ELSE Codes(ioctls(Max(prev)))
<1>1. Built \in SUBSET Step /\ s \in Step
  BY DEF Built
<1>2. \A t \in Built : ioctls(t) \in Seq(Entry)
  <2> TAKE t \in Built
  <2>1. traces[t] \in Seq(Line)
    BY Pieces DEF Built, FilesInv, Trace
  <2> QED
    BY <2>1, ParsedType DEF ParseState
<1> DEFINE before(t) == IF Before(t, Built) = {} THEN {}
                        ELSE Codes(ioctls(Max(Before(t, Built))))
<1>3. \A t \in Built : Sequence(t) = MarkNew(ioctls(t), before(t))
  <2> TAKE t \in Built
  <2>1. ParsedBy(Built)[t] = [fd_map |-> parse_lines(traces[t]).fd_snap,
                              ioctl_sequence |-> MarkNew(ioctls(t), before(t))]
    BY DEF ParsedBy
  <2> HIDE DEF ioctls, before
  <2> QED
    BY <2>1 DEF Sequence
<1>4. Sequence(s) = MarkNew(ioctls(s), X)
  BY <1>3
<1>5. Codes(PrevSequence(s)) = X
  <2>1. CASE prev = {}
    BY <2>1 DEF PrevSequence, Codes
  <2>2. CASE prev # {}
    <3>1. Max(prev) \in Built
      BY <1>1, <2>2, StepBefore DEF Before
    <3>2. Codes(Sequence(Max(prev))) = Codes(ioctls(Max(prev)))
      <4> HIDE DEF ioctls, before
      <4> QED
        BY <1>2, <1>3, <3>1, MarkNewCodes
    <3> QED
      BY <2>2, <3>2 DEF PrevSequence
  <2> QED
    BY <2>1, <2>2
<1> DEFINE seq == ioctls(s)
           marked == MarkNew(seq, X)
<1>6. /\ seq \in Seq(Entry) /\ Len(seq) \in Nat /\ DOMAIN seq = 1..Len(seq)
      /\ Codes(marked) = Codes(seq) /\ DOMAIN marked = DOMAIN seq
      /\ \A i \in DOMAIN seq : marked[i].request_code = seq[i].request_code
  BY <1>2, MarkNewMarks, MarkNewCodes, CodesFinite
<1> HIDE DEF seq, X
<1>7. new_codes(s) = Codes(seq) \ X
  BY <1>4, <1>5, <1>6 DEF new_codes, seq
<1>8. ASSUME NEW c \in new_codes(s)  PROVE c \in uniq(s)
  <2> DEFINE where == {i \in DOMAIN seq : seq[i].request_code = c}
  <2>1. where \in (SUBSET (0..Len(seq))) \ {{}}
    BY <1>6, <1>7 DEF Codes
  <2>2. PICK i \in where : \A j \in where : i <= j
    <3> HIDE DEF where
    <3> QED
      BY <1>6, <2>1, FirstExists
  <2>3. \A j \in 1..(i - 1) : seq[j].request_code # c
    BY <1>6, <2>2
  <2>4. marked[i].is_new
    BY <1>7, <2>2, <2>3 DEF MarkNew
  <2>5. i \in new_ioctls(s)
    BY <1>4, <1>6, <2>2, <2>4 DEF new_ioctls, seq
  <2> QED
    BY <1>4, <1>6, <2>2, <2>5 DEF uniq, seq
<1>9. uniq(s) \subseteq new_codes(s)
  BY DEF uniq, new_ioctls
<1> QED
  BY <1>8, <1>9

LEMMA NewListed == LadderInv => NewIoctlsListed
BY RowsAreCodes, AllListed DEF NewIoctlsListed

-----------------------------------------------------------------------------
(* Totals.                                                                 *)
IsTotal(F, D, h) ==
    F = [s \in SUBSET D |-> IF s = {} THEN 0
                            ELSE h[CHOOSE x \in s : TRUE] + F[s \ {CHOOSE x \in s : TRUE}]]

LEMMA TotalExists ==
    ASSUME NEW D, IsFiniteSet(D), NEW h \in [D -> Int]
    PROVE  \E F \in [SUBSET D -> Int] : IsTotal(F, D, h)
<1> DEFINE pick == [s \in SUBSET D |-> CHOOSE x \in s : TRUE]
           step == [q \in Int \X D |-> h[q[2]] + q[1]]
<1>1. \A s \in (SUBSET D) \ {{}} : pick[s] \in s
  OBVIOUS
<1>2. step \in [Int \X D -> Int]
  OBVIOUS
<1>3. PICK F \in [SUBSET D -> Int] : IsFold(F, D, 0, step, pick)
  <2>1. 0 \in Int
    OBVIOUS
  <2> HIDE DEF step, pick
  <2> QED
    BY <1>1, <1>2, <2>1, FoldExists, Zenon
<1>4. \A s \in (SUBSET D) \ {{}} :
        step[<<F[s \ {pick[s]}], pick[s]>>]
          = h[CHOOSE x \in s : TRUE] + F[s \ {CHOOSE x \in s : TRUE}]
  <2> TAKE s \in (SUBSET D) \ {{}}
  <2> DEFINE x == CHOOSE x \in s : TRUE
  <2>1. x \in s /\ pick[s] = x
    OBVIOUS
  <2>2. s \ {x} \in SUBSET D /\ x \in D
    BY <2>1
  <2> HIDE DEF x, pick
  <2>3. F[s \ {x}] \in Int
    BY <2>2
  <2>4. step[<<F[s \ {x}], x>>] = h[x] + F[s \ {x}]
    BY <2>2, <2>3
  <2> QED
    BY <2>1, <2>4 DEF x
<1>5. F = [s \in SUBSET D |-> IF s = {} THEN 0 ELSE step[<<F[s \ {pick[s]}], pick[s]>>]]
  BY <1>3 DEF IsFold
<1> DEFINE Sum(s) == h[CHOOSE x \in s : TRUE] + F[s \ {CHOOSE x \in s : TRUE}]
           Step1(s) == step[<<F[s \ {pick[s]}], pick[s]>>]
<1>6. \A s \in (SUBSET D) \ {{}} : Step1(s) = Sum(s)
  BY <1>4
<1>7. F = [s \in SUBSET D |-> IF s = {} THEN 0 ELSE Step1(s)]
  BY <1>5
<1>8. F = [s \in SUBSET D |-> IF s = {} THEN 0 ELSE Sum(s)]
  <2> HIDE DEF Sum, Step1
  <2> QED
    BY <1>6, <1>7
<1> QED
  BY <1>8 DEF IsTotal

(* The order in which the elements are taken does not matter.              *)
AddsUp(F, D, h) ==
    /\ F[{}] = 0
    /\ \A s \in SUBSET D : F[s] \in Int
    /\ \A s \in SUBSET D : \A x \in s : F[s] = h[x] + F[s \ {x}]

LEMMA TotalAny ==
    ASSUME NEW D, IsFiniteSet(D), NEW h \in [D -> Int], NEW F, IsTotal(F, D, h)
    PROVE  AddsUp(F, D, h)
<1> DEFINE any(s) == CHOOSE x \in s : TRUE
           Good(s) == F[s] \in Int /\ \A x \in s : F[s] = h[x] + F[s \ {x}]
           P == {k \in Nat : \A s \in SUBSET D : Cardinality(s) <= k => Good(s)}
<1>1. \A s \in SUBSET D : IsFiniteSet(s) /\ Cardinality(s) \in Nat
  BY FS_Subset, FS_CardinalityType
<1>2. \A s \in SUBSET D : F[s] = IF s = {} THEN 0 ELSE h[any(s)] + F[s \ {any(s)}]
  BY DEF IsTotal
<1>3. F[{}] = 0
  BY <1>2
<1>4. \A s \in (SUBSET D) \ {{}} : any(s) \in s
  OBVIOUS
<1> HIDE DEF any
<1>5. 0 \in P
  <2>1. \A s \in SUBSET D : Cardinality(s) <= 0 => s = {}
    BY <1>1, FS_EmptySet
  <2>2. Good({})
    BY <1>3
  <2> HIDE DEF Good
  <2> QED
    BY <2>1, <2>2
<1>6. ASSUME NEW k \in Nat, k \in P  PROVE k + 1 \in P
  <2> SUFFICES ASSUME NEW s \in SUBSET D, Cardinality(s) <= k + 1  PROVE Good(s)
    OBVIOUS
  <2>1. CASE s = {}
    BY <1>3, <2>1
  <2>2. CASE s # {}
    <3> DEFINE m == any(s)
    <3>1. m \in s /\ F[s] = h[m] + F[s \ {m}]
      BY <1>2, <1>4, <2>2
    <3> HIDE DEF m
    <3>2. \A x \in s : Cardinality(s \ {x}) <= k
      <4> TAKE x \in s
      <4>1. Cardinality(s \ {x}) = Cardinality(s) - 1
        BY <1>1, FS_RemoveElement
      <4> QED
        BY <1>1, <4>1
    <3>3. \A x \in s : s \ {x} \in SUBSET D /\ Good(s \ {x})
      <4> TAKE x \in s
      <4>1. s \ {x} \in SUBSET D
        OBVIOUS
      <4> QED
        BY <1>6, <3>2, <4>1
    <3>4. F[s] \in Int /\ \A x \in s : h[x] \in Int
      <4>1. \A x \in s : h[x] \in Int
        OBVIOUS
      <4>2. F[s \ {m}] \in Int
        BY <3>1, <3>3
      <4> QED
        BY <3>1, <4>1, <4>2
    <3>5. ASSUME NEW x \in s  PROVE F[s] = h[x] + F[s \ {x}]
      <4>1. CASE x = m
        BY <3>1, <4>1
      <4>2. CASE x # m
        <5>1. F[s \ {m}] = h[x] + F[(s \ {m}) \ {x}]
          BY <3>1, <3>3, <4>2
        <5>2. F[s \ {x}] = h[m] + F[(s \ {x}) \ {m}]
          BY <3>1, <3>3, <4>2
        <5>3. (s \ {m}) \ {x} = (s \ {x}) \ {m}
          OBVIOUS
        <5>4. F[s \ {m}] \in Int /\ F[s \ {x}] \in Int /\ h[x] \in Int /\ h[m] \in Int
          BY <3>1, <3>3, <3>4
        <5>5. F[(s \ {x}) \ {m}] \in Int
          <6>1. (s \ {x}) \ {m} \in SUBSET D /\ Cardinality((s \ {x}) \ {m}) <= k
            <7>1. Cardinality((s \ {x}) \ {m}) <= Cardinality(s \ {x})
              BY <1>1, <3>3, FS_RemoveElement, FS_Subset
            <7> QED
              BY <1>1, <3>2, <3>3, <7>1
          <6> QED
            BY <1>6, <6>1
        <5>6. F[s \ {m}] = h[x] + F[(s \ {x}) \ {m}]
          BY <5>1, <5>3
        <5>7. h[m] + F[s \ {m}] = h[x] + F[s \ {x}]
          BY <5>2, <5>4, <5>5, <5>6
        <5> QED
          BY <3>1, <5>7
      <4> QED
        BY <4>1, <4>2
    <3> QED
      BY <3>4, <3>5
  <2> QED
    BY <2>1, <2>2
<1>7. Nat \subseteq P
  <2> HIDE DEF P
  <2> QED
    BY <1>5, <1>6, SetInduction
<1>8. \A s \in SUBSET D : Good(s)
  <2> TAKE s \in SUBSET D
  <2> QED
    BY <1>1, <1>7
<1> QED
  BY <1>3, <1>8 DEF AddsUp

LEMMA FiniteSteps == IsFiniteSet(Step)
<1>1. NumSteps \in Nat
  BY LadderAssumption
<1> QED
  BY <1>1, FS_Interval DEF Step

Differences(h, w, D) ==
    \A t \in D : h[t] = w[t] - (IF Before(t, D) = {} THEN 0 ELSE w[Max(Before(t, D))])

UpTo(s, D) == {t \in D : t <= s}

(* A quantity that goes up by h[s] from the step before s, among those of  *)
(* D, is at each step the total of h so far.                               *)
LEMMA Telescope ==
    ASSUME NEW D \in SUBSET Step, NEW h \in [D -> Int], NEW w \in [D -> Int],
           Differences(h, w, D), NEW s \in D, NEW F, AddsUp(F, UpTo(s, D), h)
    PROVE  F[UpTo(s, D)] = w[s]
<1> DEFINE U == UpTo(s, D)
           P == {k \in Nat : \A t \in U : t <= k => F[UpTo(t, D)] = w[t]}
<1>1. NumSteps \in Nat \ {0} /\ \A t \in D : t \in Nat \ {0}
  <2>1. NumSteps \in Nat \ {0}
    BY LadderAssumption
  <2>2. \A t \in D : t \in 1..NumSteps
    BY DEF Step
  <2> QED
    BY <2>1, <2>2
<1>2. \A t \in U : t \in D /\ t <= s /\ t \in Step
  BY DEF UpTo
<1>3. /\ F[{}] = 0 /\ \A r \in SUBSET U : F[r] \in Int
      /\ \A r \in SUBSET U : \A x \in r : F[r] = h[x] + F[r \ {x}]
  BY DEF AddsUp
<1>4. 0 \in P
  BY <1>1, <1>2
<1>5. ASSUME NEW k \in Nat, k \in P  PROVE k + 1 \in P
  <2> SUFFICES ASSUME NEW t \in U, t <= k + 1  PROVE F[UpTo(t, D)] = w[t]
    <3> HIDE DEF U
    <3> QED
      OBVIOUS
  <2>1. UpTo(t, D) \in SUBSET U /\ t \in UpTo(t, D) /\ UpTo(t, D) \ {t} = Before(t, D)
    BY <1>1, <1>2 DEF Before, UpTo
  <2>2. F[UpTo(t, D)] = h[t] + F[Before(t, D)]
    BY <1>3, <2>1
  <2>3. CASE Before(t, D) = {}
    BY <1>2, <1>3, <2>2, <2>3 DEF Differences, UpTo
  <2>4. CASE Before(t, D) # {}
    <3> DEFINE m == Max(Before(t, D))
    <3>1. m \in Before(t, D) /\ \A r \in Before(t, D) : r <= m
      BY <1>2, <2>4, StepBefore
    <3> HIDE DEF m
    <3>2. m \in U /\ m <= k
      BY <1>1, <1>2, <3>1 DEF Before, UpTo
    <3>3. UpTo(m, D) = Before(t, D)
      BY <1>1, <1>2, <3>1 DEF Before, UpTo
    <3>4. F[Before(t, D)] = w[m]
      BY <1>5, <3>2, <3>3
    <3>5. h[t] = w[t] - w[m]
      BY <1>2, <2>4 DEF m, Differences
    <3>6. h[t] \in Int /\ w[t] \in Int /\ w[m] \in Int
      BY <1>2, <3>2
    <3> QED
      BY <2>2, <3>4, <3>5, <3>6
  <2> QED
    BY <2>3, <2>4
<1>6. Nat \subseteq P
  <2> HIDE DEF P
  <2> QED
    BY <1>4, <1>5, SetInduction
<1>7. s \in U /\ s \in Nat
  BY <1>1 DEF UpTo
<1> QED
  BY <1>6, <1>7

-----------------------------------------------------------------------------
(* A total that is written as an operator's is that of a function.         *)
Pick(r) == CHOOSE x \in r : TRUE

LEMMA TotalOfNet ==
    ASSUME NEW U, IsFiniteSet(U), NEW h \in [U -> Int],
           \A t \in U : net_event_delta(t) = h[t]
    PROVE  \E F : AddsUp(F, U, h) /\ Total(net_event_delta, U) = F[U]
<1> DEFINE Here(F, r) == net_event_delta(Pick(r)) + F[r \ {Pick(r)}]
           There(F, r) == h[Pick(r)] + F[r \ {Pick(r)}]
           IsIter(F) == F = [r \in SUBSET U |-> IF r = {} THEN 0 ELSE Here(F, r)]
           F == CHOOSE F : IsIter(F)
<1>1. ASSUME NEW G  PROVE IsIter(G) <=> IsTotal(G, U, h)
  <2>1. \A r \in (SUBSET U) \ {{}} : Pick(r) \in U
    BY DEF Pick
  <2>2. \A r \in (SUBSET U) \ {{}} : Here(G, r) = There(G, r)
    BY <2>1
  <2>3. IsTotal(G, U, h) <=> G = [r \in SUBSET U |-> IF r = {} THEN 0 ELSE There(G, r)]
    BY DEF IsTotal, Pick
  <2>4. [r \in SUBSET U |-> IF r = {} THEN 0 ELSE Here(G, r)]
          = [r \in SUBSET U |-> IF r = {} THEN 0 ELSE There(G, r)]
    <3> HIDE DEF Here, There
    <3> QED
      BY <2>2
  <2> HIDE DEF Here, There
  <2> QED
    BY <2>3, <2>4
<1>2. Total(net_event_delta, U) = F[U]
  BY DEF Total, FoldSet, MapThenFoldSet, Pick
<1>3. IsTotal(F, U, h)
  <2> HIDE DEF IsIter
  <2>1. \E G : IsTotal(G, U, h)
    BY TotalExists
  <2> QED
    BY <1>1, <2>1
<1>4. AddsUp(F, U, h)
  <2> HIDE DEF F
  <2> QED
    BY <1>3, TotalAny
<1> QED
  BY <1>2, <1>4

Delta(t, c) == IF c \in DOMAIN event_delta(t) THEN event_delta(t)[c] ELSE 0

LEMMA TotalOfCode ==
    ASSUME NEW c, NEW U, IsFiniteSet(U), NEW h \in [U -> Int],
           \A t \in U : Delta(t, c) = h[t]
    PROVE  \E F : AddsUp(F, U, h) /\ Total(LAMBDA t : Delta(t, c), U) = F[U]
<1> DEFINE Here(F, r) == Delta(Pick(r), c) + F[r \ {Pick(r)}]
           There(F, r) == h[Pick(r)] + F[r \ {Pick(r)}]
           IsIter(F) == F = [r \in SUBSET U |-> IF r = {} THEN 0 ELSE Here(F, r)]
           F == CHOOSE F : IsIter(F)
<1>1. ASSUME NEW G  PROVE IsIter(G) <=> IsTotal(G, U, h)
  <2>1. \A r \in (SUBSET U) \ {{}} : Pick(r) \in U
    BY DEF Pick
  <2>2. \A r \in (SUBSET U) \ {{}} : Here(G, r) = There(G, r)
    BY <2>1
  <2>3. IsTotal(G, U, h) <=> G = [r \in SUBSET U |-> IF r = {} THEN 0 ELSE There(G, r)]
    BY DEF IsTotal, Pick
  <2>4. [r \in SUBSET U |-> IF r = {} THEN 0 ELSE Here(G, r)]
          = [r \in SUBSET U |-> IF r = {} THEN 0 ELSE There(G, r)]
    <3> HIDE DEF Here, There
    <3> QED
      BY <2>2
  <2> HIDE DEF Here, There
  <2> QED
    BY <2>3, <2>4
<1>2. Total(LAMBDA t : Delta(t, c), U) = F[U]
  BY DEF Total, FoldSet, MapThenFoldSet, Pick
<1>3. IsTotal(F, U, h)
  <2> HIDE DEF IsIter
  <2>1. \E G : IsTotal(G, U, h)
    BY TotalExists
  <2> QED
    BY <1>1, <2>1
<1>4. AddsUp(F, U, h)
  <2> HIDE DEF F
  <2> QED
    BY <1>3, TotalAny
<1> QED
  BY <1>2, <1>4

(* What a total of the differences is, and so what the deltas add up to.   *)
LEMMA DifferencesAddUp ==
    ASSUME NEW D \in SUBSET Step, NEW w \in [D -> Int], NEW h \in [D -> Int],
           Differences(h, w, D), NEW s \in D
    PROVE  /\ IsFiniteSet(UpTo(s, D)) /\ [t \in UpTo(s, D) |-> h[t]] \in [UpTo(s, D) -> Int]
           /\ \A F : AddsUp(F, UpTo(s, D), [t \in UpTo(s, D) |-> h[t]])
                       => F[UpTo(s, D)] = w[s]
<1> DEFINE U == UpTo(s, D)
           g == [t \in U |-> h[t]]
<1>1. U \in SUBSET D /\ U \in SUBSET Step
  BY DEF UpTo
<1>2. IsFiniteSet(U) /\ g \in [U -> Int]
  BY <1>1, FiniteSteps, FS_Subset
<1>3. ASSUME NEW F, AddsUp(F, U, g)  PROVE F[U] = w[s]
  <2>1. AddsUp(F, U, h)
    <3>1. \A r \in SUBSET U : \A x \in r : g[x] = h[x]
      OBVIOUS
    <3> HIDE DEF g, U
    <3> QED
      BY <1>3, <3>1 DEF AddsUp
  <2> QED
    BY <2>1, Telescope
<1> QED
  BY <1>2, <1>3

LEMMA NetDeltasAddUp ==
    ASSUME LadderInv, NEW s \in Built
    PROVE  Total(net_event_delta, UpTo(s, Built)) = Len(Sequence(s))
<1> DEFINE w == [t \in Built |-> Len(Sequence(t))]
           h == [t \in Built |-> net_event_delta(t)]
           U == UpTo(s, Built)
           g == [t \in U |-> h[t]]
<1>1. Built \in SUBSET Step
  BY DEF Built
<1>2. w \in [Built -> Int] /\ h \in [Built -> Int]
  <2>1. ASSUME NEW t \in Built
        PROVE  Len(Sequence(t)) \in Nat /\ Len(PrevSequence(t)) \in Nat
    BY SequenceOf, PrevSequenceOf, CodesFinite
  <2> QED
    BY <2>1 DEF net_event_delta
<1>3. Differences(h, w, Built)
  <2> SUFFICES ASSUME NEW t \in Built
               PROVE  h[t] = w[t] - (IF Before(t, Built) = {} THEN 0
                                     ELSE w[Max(Before(t, Built))])
    BY Zenon DEF Differences
  <2>1. CASE Before(t, Built) = {}
    BY <2>1 DEF net_event_delta, PrevSequence
  <2>2. CASE Before(t, Built) # {}
    <3>1. Max(Before(t, Built)) \in Built
      BY <1>1, <2>2, StepBefore DEF Before
    <3> QED
      BY <2>2, <3>1 DEF net_event_delta, PrevSequence
  <2> QED
    BY <2>1, <2>2
<1>4. \A t \in U : net_event_delta(t) = g[t]
  BY DEF UpTo
<1>5. w[s] = Len(Sequence(s))
  OBVIOUS
<1> HIDE DEF w, h
<1>6. /\ IsFiniteSet(U) /\ g \in [U -> Int]
      /\ \A F : AddsUp(F, U, g) => F[U] = w[s]
  BY <1>1, <1>2, <1>3, DifferencesAddUp
<1> HIDE DEF g, U
<1>7. PICK F : AddsUp(F, U, g) /\ Total(net_event_delta, U) = F[U]
  BY <1>4, <1>6, TotalOfNet
<1> QED
  BY <1>5, <1>6, <1>7 DEF U

LEMMA CodeDeltasAddUp ==
    ASSUME LadderInv, NEW s \in Built, NEW c \in Code
    PROVE  Total(LAMBDA t : Delta(t, c), UpTo(s, Built)) = Times(Sequence(s), c)
<1> DEFINE w == [t \in Built |-> Times(Sequence(t), c)]
           h == [t \in Built |-> Delta(t, c)]
           U == UpTo(s, Built)
           g == [t \in U |-> h[t]]
<1>1. Built \in SUBSET Step
  BY DEF Built
<1>2. ASSUME NEW t \in Built
      PROVE  /\ Times(Sequence(t), c) \in Nat /\ Times(PrevSequence(t), c) \in Nat
             /\ Delta(t, c) = Times(Sequence(t), c) - Times(PrevSequence(t), c)
  <2>1. Times(Sequence(t), c) \in Nat /\ Times(PrevSequence(t), c) \in Nat
    BY SequenceOf, PrevSequenceOf, TimesType
  <2>2. ASSUME NEW seq \in Seq(Entry), c \notin Codes(seq)  PROVE Times(seq, c) = 0
    <3>1. {i \in DOMAIN seq : seq[i].request_code = c} = {}
      BY <2>2 DEF Codes
    <3> QED
      BY <3>1, FS_EmptySet DEF Times
  <2>3. CASE c \in DOMAIN event_delta(t)
    BY <2>1, <2>3 DEF Delta, event_delta
  <2>4. CASE c \notin DOMAIN event_delta(t)
    <3>1. \/ c \notin Codes(Sequence(t)) /\ c \notin Codes(PrevSequence(t))
          \/ Times(Sequence(t), c) = Times(PrevSequence(t), c)
      BY <2>4 DEF event_delta
    <3>2. Times(Sequence(t), c) = Times(PrevSequence(t), c)
      BY <2>2, <3>1, SequenceOf, PrevSequenceOf
    <3> QED
      BY <2>1, <2>4, <3>2 DEF Delta
  <2> QED
    BY <2>1, <2>3, <2>4
<1>3. w \in [Built -> Int] /\ h \in [Built -> Int]
  BY <1>2
<1>4. Differences(h, w, Built)
  <2> SUFFICES ASSUME NEW t \in Built
               PROVE  h[t] = w[t] - (IF Before(t, Built) = {} THEN 0
                                     ELSE w[Max(Before(t, Built))])
    BY Zenon DEF Differences
  <2>1. CASE Before(t, Built) = {}
    <3>1. PrevSequence(t) = <<>>
      BY <2>1 DEF PrevSequence
    <3>2. Times(<<>>, c) = 0
      <4>1. {i \in DOMAIN <<>> : <<>>[i].request_code = c} = {}
        OBVIOUS
      <4> QED
        BY <4>1, FS_EmptySet DEF Times
    <3> QED
      BY <1>2, <2>1, <3>1, <3>2
  <2>2. CASE Before(t, Built) # {}
    <3>1. Max(Before(t, Built)) \in Built
      BY <1>1, <2>2, StepBefore DEF Before
    <3>2. PrevSequence(t) = Sequence(Max(Before(t, Built)))
      BY <2>2 DEF PrevSequence
    <3> QED
      BY <1>2, <2>2, <3>1, <3>2
  <2> QED
    BY <2>1, <2>2
<1>5. \A t \in U : Delta(t, c) = g[t]
  BY DEF UpTo
<1>6. w[s] = Times(Sequence(s), c)
  OBVIOUS
<1> HIDE DEF w, h
<1>7. /\ IsFiniteSet(U) /\ g \in [U -> Int]
      /\ \A F : AddsUp(F, U, g) => F[U] = w[s]
  BY <1>1, <1>3, <1>4, DifferencesAddUp
<1> HIDE DEF g, U
<1>8. PICK F : AddsUp(F, U, g) /\ Total(LAMBDA t : Delta(t, c), U) = F[U]
  BY <1>5, <1>7, TotalOfCode
<1> QED
  BY <1>6, <1>7, <1>8 DEF U

LEMMA DeltasAdd == LadderInv => DeltasAddUp
<1> SUFFICES ASSUME LadderInv, NEW s \in Built
             PROVE  /\ Total(net_event_delta, {t \in Built : t <= s}) = Len(Sequence(s))
                    /\ \A c \in Code :
                         Total(LAMBDA t : IF c \in DOMAIN event_delta(t)
                                          THEN event_delta(t)[c] ELSE 0,
                               {t \in Built : t <= s}) = Times(Sequence(s), c)
  BY DEF DeltasAddUp
<1>1. Total(net_event_delta, {t \in Built : t <= s}) = Len(Sequence(s))
  BY NetDeltasAddUp DEF UpTo
<1>2. ASSUME NEW c \in Code
      PROVE  Total(LAMBDA t : IF c \in DOMAIN event_delta(t)
                              THEN event_delta(t)[c] ELSE 0,
                   {t \in Built : t <= s}) = Times(Sequence(s), c)
  BY CodeDeltasAddUp DEF UpTo, Delta
<1> QED
  BY <1>1, <1>2

-----------------------------------------------------------------------------
(* Each code has one tier, and two of the tiers are flagged.               *)
OfTier(seq, t) == {c \in Codes(seq) : Tier(c) = t}

LEMMA TiersOf ==
    ASSUME NEW seq \in Seq(Entry)
    PROVE  /\ \A c \in Codes(seq) : Tier(c) \in Tiers
           /\ \A t : IsFiniteSet(OfTier(seq, t)) /\ Cardinality(OfTier(seq, t)) \in Nat
           /\ \A t, u : t # u => OfTier(seq, t) \cap OfTier(seq, u) = {}
<1>1. \A c \in Codes(seq) : Tier(c) \in Tiers
  BY LadderAssumption DEF Tier, Tiers
<1>2. ASSUME NEW t
      PROVE  IsFiniteSet(OfTier(seq, t)) /\ Cardinality(OfTier(seq, t)) \in Nat
  <2>1. IsFiniteSet(OfTier(seq, t))
    BY CodesFinite, FS_Subset DEF OfTier
  <2> QED
    BY <2>1, FS_CardinalityType
<1>3. \A t, u : t # u => OfTier(seq, t) \cap OfTier(seq, u) = {}
  BY DEF OfTier
<1> QED
  BY <1>1, <1>2, <1>3

LEMMA DisjointUnion ==
    ASSUME NEW S, NEW T, IsFiniteSet(S), IsFiniteSet(T), S \cap T = {}
    PROVE  IsFiniteSet(S \cup T) /\ Cardinality(S \cup T) = Cardinality(S) + Cardinality(T)
<1>1. Cardinality(S) \in Nat /\ Cardinality(T) \in Nat /\ Cardinality(S \cap T) = 0
  BY FS_CardinalityType, FS_EmptySet
<1>2. /\ IsFiniteSet(S \cup T)
      /\ Cardinality(S \cup T) = Cardinality(S) + Cardinality(T) - Cardinality(S \cap T)
  BY FS_Union
<1> QED
  BY <1>1, <1>2

LEMMA FlaggedOfTwoTiers ==
    ASSUME LadderInv, NEW s \in Built
    PROVE  needs_review_count(s) = Cardinality({c \in Codes(Sequence(s)) : needs_review(c)})
<1> DEFINE seq == Sequence(s)
           flagged == {c \in Codes(seq) : needs_review(c)}
<1>1. seq \in Seq(Entry)
  BY SequenceOf
<1>2. confidence_summary(s) = [t \in Tiers |-> Cardinality(OfTier(seq, t))]
  BY DEF confidence_summary, OfTier
<1>3. flagged = OfTier(seq, "low") \cup OfTier(seq, "none")
  BY DEF OfTier, needs_review, Tier
<1> HIDE DEF seq, flagged
<1>4. Cardinality(flagged) = Cardinality(OfTier(seq, "low")) + Cardinality(OfTier(seq, "none"))
  <2>1. OfTier(seq, "low") \cap OfTier(seq, "none") = {}
    BY <1>1, TiersOf
  <2> QED
    BY <1>1, <1>3, <2>1, TiersOf, DisjointUnion
<1> QED
  BY <1>2, <1>4 DEF needs_review_count, Tiers, flagged, seq

LEMMA TiersPartition ==
    ASSUME LadderInv, NEW s \in Built
    PROVE  Total(LAMBDA t : confidence_summary(s)[t], Tiers)
             = Cardinality(Codes(Sequence(s)))
<1> DEFINE seq == Sequence(s)
           h == confidence_summary(s)
           N(t) == Cardinality(OfTier(seq, t))
<1>1. seq \in Seq(Entry)
  BY SequenceOf
<1>2. h = [t \in Tiers |-> N(t)]
  BY DEF confidence_summary, OfTier
<1> HIDE DEF seq
<1>3. \A t : N(t) \in Nat
  BY <1>1, TiersOf
<1> HIDE DEF h, N
<1>4. h \in [Tiers -> Int]
  BY <1>2, <1>3
<1>5. IsFiniteSet(Tiers)
  <2>1. IsFiniteSet({"high"}) /\ IsFiniteSet({"medium"})
        /\ IsFiniteSet({"low"}) /\ IsFiniteSet({"none"})
    BY FS_Singleton
  <2>2. IsFiniteSet({"high"} \cup {"medium"}) /\ IsFiniteSet({"low"} \cup {"none"})
    BY <2>1, FS_Union
  <2>3. IsFiniteSet(({"high"} \cup {"medium"}) \cup ({"low"} \cup {"none"}))
    BY <2>2, FS_Union
  <2>4. Tiers = ({"high"} \cup {"medium"}) \cup ({"low"} \cup {"none"})
    BY DEF Tiers
  <2> QED
    BY <2>3, <2>4
<1> DEFINE F == CHOOSE F : IsTotal(F, Tiers, h)
<1>6. Total(LAMBDA t : h[t], Tiers) = F[Tiers]
  BY DEF Total, FoldSet, MapThenFoldSet, IsTotal
<1>7. AddsUp(F, Tiers, h)
  <2>1. IsTotal(F, Tiers, h)
    BY <1>4, <1>5, TotalExists
  <2> HIDE DEF F
  <2> QED
    BY <1>4, <1>5, <2>1, TotalAny
<1> HIDE DEF F
<1>8. F[Tiers] = N("high") + (N("medium") + (N("low") + N("none")))
  <2>1. \A r \in SUBSET Tiers : F[r] \in Int /\ \A t \in r : F[r] = N(t) + F[r \ {t}]
    BY <1>2, <1>7 DEF AddsUp
  <2>2. F[{"none"}] = N("none") + F[{}]
    <3>1. {"none"} \in SUBSET Tiers /\ {"none"} \ {"none"} = {}
      BY DEF Tiers
    <3> QED
      BY <2>1, <3>1
  <2>3. F[{"low", "none"}] = N("low") + F[{"none"}]
    <3>1. {"low", "none"} \in SUBSET Tiers /\ {"low", "none"} \ {"low"} = {"none"}
      BY DEF Tiers
    <3> QED
      BY <2>1, <3>1
  <2>4. F[{"medium", "low", "none"}] = N("medium") + F[{"low", "none"}]
    <3>1. /\ {"medium", "low", "none"} \in SUBSET Tiers
          /\ {"medium", "low", "none"} \ {"medium"} = {"low", "none"}
      BY DEF Tiers
    <3> QED
      BY <2>1, <3>1
  <2>5. F[Tiers] = N("high") + F[{"medium", "low", "none"}]
    <3>1. Tiers \ {"high"} = {"medium", "low", "none"} /\ "high" \in Tiers
      BY DEF Tiers
    <3> QED
      BY <2>1, <3>1
  <2>6. F[{}] = 0
    BY <1>7 DEF AddsUp
  <2> QED
    BY <1>3, <2>2, <2>3, <2>4, <2>5, <2>6
<1> DEFINE H == OfTier(seq, "high")
           M == OfTier(seq, "medium")
           L == OfTier(seq, "low")
           O == OfTier(seq, "none")
<1>9. Codes(seq) = H \cup (M \cup (L \cup O))
  <2>1. \A c \in Codes(seq) : Tier(c) \in {"high", "medium", "low", "none"}
    BY <1>1, TiersOf DEF Tiers
  <2> QED
    BY <2>1 DEF OfTier
<1>10. /\ IsFiniteSet(H) /\ IsFiniteSet(M) /\ IsFiniteSet(L) /\ IsFiniteSet(O)
       /\ L \cap O = {} /\ M \cap (L \cup O) = {} /\ H \cap (M \cup (L \cup O)) = {}
  <2>1. /\ L \cap O = {} /\ M \cap L = {} /\ M \cap O = {}
        /\ H \cap M = {} /\ H \cap L = {} /\ H \cap O = {}
    BY <1>1, TiersOf
  <2>2. IsFiniteSet(H) /\ IsFiniteSet(M) /\ IsFiniteSet(L) /\ IsFiniteSet(O)
    BY <1>1, TiersOf
  <2> HIDE DEF H, M, L, O
  <2> QED
    BY <2>1, <2>2
<1>11. Cardinality(Codes(seq))
         = Cardinality(H) + (Cardinality(M) + (Cardinality(L) + Cardinality(O)))
  <2> HIDE DEF H, M, L, O
  <2>1. IsFiniteSet(L \cup O) /\ Cardinality(L \cup O) = Cardinality(L) + Cardinality(O)
    BY <1>10, DisjointUnion
  <2>2. /\ IsFiniteSet(M \cup (L \cup O))
        /\ Cardinality(M \cup (L \cup O)) = Cardinality(M) + Cardinality(L \cup O)
    BY <1>10, <2>1, DisjointUnion
  <2>3. Cardinality(H \cup (M \cup (L \cup O)))
          = Cardinality(H) + Cardinality(M \cup (L \cup O))
    BY <1>10, <2>2, DisjointUnion
  <2> QED
    BY <1>9, <2>1, <2>2, <2>3
<1>12. F[Tiers] = Cardinality(Codes(seq))
  BY <1>8, <1>11 DEF N
<1> QED
  BY <1>6, <1>12 DEF h, seq

LEMMA FlaggedReviewed == LadderInv => FlaggedAreReviewed
BY FlaggedOfTwoTiers, TiersPartition DEF FlaggedAreReviewed

(* The report's table of new codes lists each once and no more than are    *)
(* counted, and all of them if the steps were parsed together.             *)
THEOREM NewRowsListed == Spec => []NewIoctlsListed
BY LadderInvariant, NewListed, PTL

(* Whatever was traced again or parsed in parts, the schema's deltas up to *)
(* a step add up to the ioctls of that step, in all and code by code.      *)
THEOREM DeltasRight == Spec => []DeltasAddUp
BY LadderInvariant, DeltasAdd, PTL

(* The report flags as many codes for review as annotate_static.py does,   *)
(* and every code of a step has one tier.                                  *)
THEOREM FlaggedRight == Spec => []FlaggedAreReviewed
BY LadderInvariant, FlaggedReviewed, PTL
=============================================================================
