------------------------------- MODULE Ladder -------------------------------
(***************************************************************************)
(* The ladder of CUDA programs and what is made of their strace logs:      *)
(* parse_trace.py marks the codes that are new, annotate_static.py adds    *)
(* what is known of a code, check_reproducibility.py traces a program      *)
(* several times, build_schema.py puts all together and generate_report.py *)
(* renders it.  The tools share only files, and are run in any order.      *)
(***************************************************************************)
EXTENDS ParseTrace, Integers

CONSTANTS
    NumSteps,   \* the length of STEP_ORDER
    Lookup,     \* ioctl_table.json: code -> confidence, or "" if it has none
    NumRuns,    \* --runs
    MaxLines,   \* bound: lines of all logs together, and one for each log
    Together    \* bound: a ladder and a check in one behaviour

Step == 1..NumSteps
Tiers == {"high", "medium", "low", "none"}

ASSUME LadderAssumption ==
    /\ {NumSteps, NumRuns} \subseteq Nat \ {0} /\ MaxLines \in Nat /\ Together \in BOOLEAN
    /\ DOMAIN Lookup \subseteq Code
    /\ \A c \in DOMAIN Lookup : Lookup[c] \in Tiers \cup {""}

Trace == Seq(Line)
ParsedFile == [fd_map : FdMap, ioctl_sequence : Seq(Entry)]
CounterType == [Code -> Nat]
Tracing == [for : {"ladder", "repro"}, step : Step]

(* A file that does not exist is not one with some contents.               *)
ASSUME NoneAssumption == None \notin Trace \cup ParsedFile \cup Tracing

VARIABLES
    tracing,    \* what strace runs for: [for, step], or None
    used,       \* what the logs before this one take of MaxLines
    traces,     \* traces/<step>.log, or None
    parsed,     \* parsed/<step>.json, or None
    annotated,  \* annotated/<step>.json, or None
    repro_logs, \* per step, what its repro_<step>_run<k>.log hold
    per_run_counts,  \* of the check that runs
    reports     \* parsed/<step>_repro_report.json, or None

fileVars == <<traces, parsed, annotated, reports>>
vars == <<traceVars, tracing, used, fileVars, repro_logs, per_run_counts>>

Nowhere == [s \in Step |-> None]

Init ==
    /\ files = [p \in Process |-> <<>>] /\ log = <<>> /\ reached = <<>>
    /\ tracing = None /\ used = 0
    /\ traces = Nowhere /\ parsed = Nowhere /\ annotated = Nowhere
    /\ reports = Nowhere
    /\ repro_logs = [s \in Step |-> <<>>] /\ per_run_counts = <<>>
-----------------------------------------------------------------------------
Codes(seq) == {seq[i].request_code : i \in DOMAIN seq}
Times(seq, c) == Cardinality({i \in DOMAIN seq : seq[i].request_code = c})
Counter(seq) == [c \in Code |-> Times(seq, c)]

Room == used + Len(log) + 2 <= MaxLines

TraceStarts(purpose, s) ==
    /\ tracing = None /\ Room
    /\ tracing' = [for |-> purpose, step |-> s]
    /\ Start
    /\ UNCHANGED <<used, fileVars, repro_logs>>

(* strace -f -o traces/<step>.log, as the traces were taken.               *)
TraceStep(s) ==
    /\ Together \/ \A t \in Step : repro_logs[t] = <<>>
    /\ TraceStarts("ladder", s)
    /\ UNCHANGED per_run_counts

TraceLine ==
    /\ tracing # None /\ Room
    /\ Traced
    /\ UNCHANGED <<tracing, used, fileVars, repro_logs, per_run_counts>>

NotTraced ==
    /\ files' = [p \in Process |-> <<>>] /\ log' = <<>> /\ reached' = <<>>
    /\ used' = used + Len(log) + 1

(* No program runs without a call: it opens its libraries.                 *)
StepTraced ==
    /\ tracing # None /\ tracing.for = "ladder" /\ log # <<>>
    /\ traces' = [traces EXCEPT ![tracing.step] = log]
    /\ tracing' = None
    /\ NotTraced
    /\ UNCHANGED <<parsed, annotated, reports, repro_logs, per_run_counts>>
-----------------------------------------------------------------------------
(* Mutant: a code is new each time it occurs.                              *)
MarkEach(seq, prev) ==
    [i \in DOMAIN seq |->
       [device |-> seq[i].device, request_code |-> seq[i].request_code,
        is_new |-> seq[i].request_code \notin prev]]

(* A code is new where it first occurs, unless the step before has it.     *)
MarkNew(seq, prev) ==
    [i \in DOMAIN seq |->
       [device |-> seq[i].device, request_code |-> seq[i].request_code,
        is_new |-> /\ seq[i].request_code \notin prev
                   /\ \A j \in 1..(i - 1) : seq[j].request_code # seq[i].request_code]]

Before(s, S) == {t \in S : t < s}

(* What one command makes of the logs of the steps in argv, in order: each *)
(* is compared with the one before it in argv, the first with nothing.     *)
ParsedBy(argv) ==
    [s \in argv |->
       LET prev == Before(s, argv)
           result == parse_lines(traces[s])
       IN [fd_map |-> result.fd_snap,
           ioctl_sequence |-> MarkNew(result.ioctls,
               IF prev = {} THEN {} ELSE Codes(parse_lines(traces[Max(prev)]).ioctls))]]

parse(argv) ==
    /\ tracing = None
    /\ \A s \in argv : traces[s] # None
    /\ parsed' = [s \in Step |-> IF s \in argv THEN ParsedBy(argv)[s] ELSE parsed[s]]
    /\ UNCHANGED <<traceVars, tracing, used, traces, annotated, reports, repro_logs,
                   per_run_counts>>

(* What the annotation says of a code is a function of the code: Tier and  *)
(* needs_review.                                                           *)
annotate(s) ==
    /\ tracing = None
    /\ parsed[s] # None
    /\ annotated' = [annotated EXCEPT ![s] = parsed[s]]
    /\ UNCHANGED <<traceVars, tracing, used, traces, parsed, reports, repro_logs,
                   per_run_counts>>

needs_review(c) == c \notin DOMAIN Lookup \/ Lookup[c] \in {"", "low", "none"}
Tier(c) == IF c \in DOMAIN Lookup /\ Lookup[c] # "" THEN Lookup[c] ELSE "none"
-----------------------------------------------------------------------------
(* Mutant: a run in which the code is missing does not count.              *)
PresentCounts(runs, c) == {runs[k][c] : k \in DOMAIN runs} \ {0}

CountsOf(runs, c) == {runs[k][c] : k \in DOMAIN runs}
RunsWith(runs, c) == {k \in DOMAIN runs : runs[k][c] > 0}

Report(runs) ==
    LET all == {c \in Code : RunsWith(runs, c) # {}}
        unstable == {c \in all : Cardinality(CountsOf(runs, c)) > 1}
    IN [occurs |-> [c \in all |-> Cardinality(RunsWith(runs, c))],
        non_deterministic |-> {c \in all : RunsWith(runs, c) # DOMAIN runs},
        frequency_unstable |-> unstable,
        frequency_stable |-> [c \in all \ unstable |-> runs[1][c]]]

(* check: a step's program is traced NumRuns times.                        *)
CheckStep(s) ==
    /\ Together \/ traces = Nowhere
    /\ TraceStarts("repro", s)
    /\ per_run_counts' = <<>>

Checking == tracing # None /\ tracing.for = "repro"
CheckRuns(s) == Checking /\ tracing.step = s
RunNumber == Len(per_run_counts) + 1

(* After the last run the report is written, else the next run starts.     *)
Counted(counter) ==
    LET runs == Append(per_run_counts, counter)
    IN /\ used' = used + Len(log) + 1
       /\ IF RunNumber = NumRuns
          THEN /\ reports' = [reports EXCEPT ![tracing.step] = Report(runs)]
               /\ tracing' = None /\ per_run_counts' = <<>>
               /\ files' = [p \in Process |-> <<>>] /\ log' = <<>> /\ reached' = <<>>
          ELSE /\ per_run_counts' = runs
               /\ Start
               /\ UNCHANGED <<reports, tracing>>
       /\ UNCHANGED <<traces, parsed, annotated>>

RunTraced ==
    LET counter == Counter(parse_lines(log).ioctls)
        s == tracing.step
    IN /\ Checking /\ log # <<>>
       /\ repro_logs' = [repro_logs EXCEPT ![s] =
            IF RunNumber \in DOMAIN @ THEN [@ EXCEPT ![RunNumber] = counter]
                                      ELSE Append(@, counter)]
       /\ Counted(counter)

(* Mutant: a log that is missing counts as an empty one.                   *)
StraceFailsUnseen ==
    /\ Checking /\ log = <<>>
    /\ Counted(IF RunNumber \in DOMAIN repro_logs[tracing.step]
               THEN repro_logs[tracing.step][RunNumber] ELSE Counter(<<>>))
    /\ UNCHANGED repro_logs

(* strace fails: that is a warning, and the log that an earlier check left *)
(* is parsed; without one, check ends without a report.                    *)
StraceFails ==
    /\ Checking /\ log = <<>>
    /\ IF RunNumber \in DOMAIN repro_logs[tracing.step]
       THEN Counted(repro_logs[tracing.step][RunNumber])
       ELSE /\ tracing' = None /\ per_run_counts' = <<>>
            /\ NotTraced /\ UNCHANGED fileVars
    /\ UNCHANGED repro_logs

Over ==
    /\ tracing = None /\ ~Room
    /\ UNCHANGED vars

Next ==
    \/ \E s \in Step : TraceStep(s) \/ annotate(s) \/ CheckStep(s)
    \/ \E argv \in (SUBSET Step) \ {{}} : parse(argv)
    \/ TraceLine \/ StepTraced \/ RunTraced \/ StraceFails \/ Over

Spec == Init /\ [][Next]_vars
-----------------------------------------------------------------------------
(* build_schema.py, when it is run now: steps in order, each against the   *)
(* annotated step before it.                                               *)
Built == {s \in Step : annotated[s] # None}
Sequence(s) == annotated[s].ioctl_sequence
PrevSequence(s) ==
    IF Before(s, Built) = {} THEN <<>> ELSE Sequence(Max(Before(s, Built)))

new_codes(s) == Codes(Sequence(s)) \ Codes(PrevSequence(s))
new_ioctls(s) ==
    {i \in DOMAIN Sequence(s) :
       Sequence(s)[i].request_code \in new_codes(s) /\ Sequence(s)[i].is_new}

(* Mutant: only codes of this step are compared.                           *)
DeltaOfCurrent(s) ==
    [c \in Codes(Sequence(s)) |-> Times(Sequence(s), c) - Times(PrevSequence(s), c)]

event_delta(s) ==
    [c \in {c \in Codes(Sequence(s)) \cup Codes(PrevSequence(s)) :
              Times(Sequence(s), c) # Times(PrevSequence(s), c)} |->
        Times(Sequence(s), c) - Times(PrevSequence(s), c)]
net_event_delta(s) == Len(Sequence(s)) - Len(PrevSequence(s))

(* Mutant: each ioctl counts, not each code.                               *)
TierOfIoctls(s) ==
    [t \in Tiers |-> Cardinality({i \in DOMAIN Sequence(s) :
                                    Tier(Sequence(s)[i].request_code) = t})]

confidence_summary(s) ==
    [t \in Tiers |-> Cardinality({c \in Codes(Sequence(s)) : Tier(c) = t})]

(* generate_report.py: the rows of the table of new codes, the number      *)
(* flagged for review, and what it says of reproducibility.                *)
uniq(s) == {Sequence(s)[i].request_code : i \in new_ioctls(s)}
needs_review_count(s) == confidence_summary(s)["low"] + confidence_summary(s)["none"]

repro_cell(s, c) ==
    IF reports[s] = None THEN <<"?">>
    ELSE IF c \in reports[s].non_deterministic
         THEN <<"warn", reports[s].occurs[c]>> ELSE <<"ok">>

(* "Presence reproducibility" of a step is good once it was checked.       *)
repro_status(s) == IF reports[s] = None THEN "not checked" ELSE "ok"

freq_status(s) ==
    IF reports[s] = None THEN "not checked"
    ELSE IF reports[s].frequency_unstable # {} THEN "vary" ELSE "ok"
-----------------------------------------------------------------------------
ReportOK(r) ==
    /\ DOMAIN r.occurs \subseteq Code /\ \A c \in DOMAIN r.occurs : r.occurs[c] \in 1..NumRuns
    /\ r.non_deterministic \cup r.frequency_unstable \subseteq DOMAIN r.occurs
    /\ DOMAIN r.frequency_stable = DOMAIN r.occurs \ r.frequency_unstable

TypeOK ==
    /\ TracedTypeOK
    /\ tracing \in {None} \cup Tracing /\ used \in Nat
    /\ traces \in [Step -> {None} \cup Trace]
    /\ {parsed, annotated} \subseteq [Step -> {None} \cup ParsedFile]
    /\ repro_logs \in [Step -> Seq(CounterType)] /\ per_run_counts \in Seq(CounterType)
    /\ DOMAIN reports = Step /\ \A s \in Step : reports[s] # None => ReportOK(reports[s])
    /\ tracing # None => tracing.step \in Step /\ files[Root] # <<>>
    /\ tracing = None => log = <<>> /\ per_run_counts = <<>> /\ Live = {}
    /\ Len(per_run_counts) < NumRuns
    /\ \A s \in Step :
         /\ annotated[s] # None => parsed[s] # None
         /\ parsed[s] # None => traces[s] # None
         /\ Len(repro_logs[s]) <= NumRuns
         /\ reports[s] # None => Len(repro_logs[s]) = NumRuns

Total(f(_), S) == FoldSet(LAMBDA s, n : f(s) + n, 0, S)

(* Whatever was traced again or parsed in parts, the deltas of the steps   *)
(* up to one add up to that step's ioctls, in all and code by code.        *)
DeltasAddUp ==
    \A s \in Built :
        LET upTo == {t \in Built : t <= s}
            Delta(t, c) == IF c \in DOMAIN event_delta(t) THEN event_delta(t)[c] ELSE 0
        IN /\ Total(net_event_delta, upTo) = Len(Sequence(s))
           /\ \A c \in Code : Total(LAMBDA t : Delta(t, c), upTo) = Times(Sequence(s), c)

(* The table of new ioctls has no more codes than the number beside it     *)
(* says, each once; when what is annotated was parsed from the present     *)
(* logs by one command, it has them all.                                   *)
NewIoctlsListed ==
    \A s \in Built :
        /\ Cardinality(uniq(s)) = Cardinality(new_ioctls(s))
        /\ Cardinality(new_ioctls(s)) <= Cardinality(new_codes(s))
        /\ (\A t \in Built : traces[t] # None /\ annotated[t] = ParsedBy(Built)[t])
             => uniq(s) = new_codes(s)

(* The report's number of codes flagged for review is that of the codes    *)
(* annotate_static.py flagged, and each code has one tier.                 *)
FlaggedAreReviewed ==
    \A s \in Built :
        /\ needs_review_count(s) = Cardinality({c \in Codes(Sequence(s)) : needs_review(c)})
        /\ Total(LAMBDA t : confidence_summary(s)[t], Tiers) = Cardinality(Codes(Sequence(s)))

(* What the report says of a checked step is what the logs of the check    *)
(* say, old ones that were parsed again among them.  A code has a warning, *)
(* with the number of runs that made it, just when some made it and some   *)
(* did not; no warning stands below "all codes fire stable count", and its *)
(* code is in the table of those whose count varies; a code called stable  *)
(* was counted so often in every run.  "Presence reproducibility" says     *)
(* only that there was a check, and a code of no run has no warning.       *)
ReportTellsOfRuns ==
    \A s \in Step : repro_status(s) = "ok" /\ ~CheckRuns(s) =>
        LET hits(c) == Cardinality(RunsWith(repro_logs[s], c))
            stable == reports[s].frequency_stable
        IN /\ \A c \in Code :
                IF hits(c) \in 1..(NumRuns - 1)
                THEN /\ repro_cell(s, c) = <<"warn", hits(c)>>
                     /\ freq_status(s) = "vary"
                     /\ c \in reports[s].frequency_unstable
                ELSE repro_cell(s, c) = <<"ok">>
           /\ \A c \in DOMAIN stable, k \in 1..NumRuns :
                stable[c] > 0 /\ repro_logs[s][k][c] = stable[c]
-----------------------------------------------------------------------------
(* Why all this holds.  A run of a check has its log, an old or a new one, *)
(* and what was counted is what the logs hold.                             *)
RunsInv ==
    IF Checking
    THEN LET logs == repro_logs[tracing.step]
         IN /\ Len(per_run_counts) <= Len(logs)
            /\ \A k \in DOMAIN per_run_counts : per_run_counts[k] = logs[k]
    ELSE per_run_counts = <<>>

(* A report is that of the logs, but while they are made anew.             *)
ReportsInv ==
    \A s \in Step :
        reports[s] # None /\ ~CheckRuns(s) => reports[s] = Report(repro_logs[s])

(* Of the ioctls with one code at most the first is marked as new.         *)
MarksInv ==
    \A s \in Step : \A file \in {parsed[s], annotated[s]} \ {None} :
        LET seq == file.ioctl_sequence
        IN \A i \in DOMAIN seq : seq[i].is_new =>
             \A j \in 1..(i - 1) : seq[j].request_code # seq[i].request_code

(* While the log is of one process and whole, the parser's map at its end  *)
(* is the kernel's, for the devices.                                       *)
LabelsInv ==
    /\ IsFiniteSet(Live)
    /\ LogComplete =>
         /\ Len(Labels) = Len(reached)
         /\ tracing # None => \A f \in Fd :
              parse_lines(log).fd_map[f] =
                IF files[Root][f] \in Device THEN files[Root][f] ELSE None

LadderInv ==
    /\ TypeOK /\ RunsInv /\ ReportsInv /\ MarksInv /\ LabelsInv
    /\ LabelsAreRight
=============================================================================
