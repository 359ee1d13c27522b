------------------------------ MODULE Evaluate ------------------------------
(***************************************************************************)
(* The optimizer's live evaluation (optimizer/evaluate.py): every program  *)
(* of a harness is captured twice with run.sh, handle offsets are inferred *)
(* from the two traces, the second trace is replayed with the baseline and *)
(* with the candidate offsets, and a gate (optimizer/metrics.py) turns the *)
(* two summaries into a row and a score, which gepa_runner.py maximises.   *)
(*                                                                         *)
(* run.sh writes sniffed/<stem>.jsonl, where <stem> is the program's file  *)
(* name: a program that does not start leaves the file as it was.  Traces  *)
(* are known here by the capture that wrote them.                          *)
(***************************************************************************)
EXTENDS Integers, Sequences

CONSTANTS
    Stems,              \* file names of programs, without their suffix
    MaxPrograms,        \* bound: programs of a harness
    MaxSkipped,         \* bound: skipped ioctls of a replay
    MaxCommon,          \* bound: requests both offset files have
    MaxSkipRegression   \* the harness's max_skip_regression

ASSUME BoundsAssumption ==
    /\ MaxPrograms \in Nat \ {0}
    /\ {MaxSkipped, MaxCommon, MaxSkipRegression} \subseteq Nat

VARIABLES
    programs,       \* the harness: the stem of each program
    prog,           \* the program being evaluated
    step,           \* the step it has reached
    captures,       \* how many of its captures are kept
    sniffed,        \* sniffed/<stem>.jsonl
    runDir,         \* run_root/<stem>/: the pair of traces and the offsets
    base,           \* b_sum: what the baseline replay printed
    cand,           \* c_sum: what the candidate replay printed
    rows,           \* one row per program done
    total_score,    \* in ten-thousandths
    all_ok

current == <<programs, prog>>
files == <<sniffed, runDir>>
summaries == <<base, cand>>
results == <<rows, total_score, all_ok>>
vars == <<current, step, captures, files, summaries, results>>

\* Scores are counted in ten-thousandths: One is a perfect agreement.
One == 10000

-----------------------------------------------------------------------------
(* Traces, summaries and rows.                                             *)

\* A trace, or that there is none.
Traces == [by : (0 .. MaxPrograms) \X (0 .. 1),
           state : {"good", "empty", "torn", "missing"}]
NoTrace == [by |-> <<0, 0>>, state |-> "missing"]
Pairs == [0 .. 1 -> Traces]
NoPair == [c \in 0 .. 1 |-> NoTrace]
Summaries == [failed : 0 .. 1, skipped : 0 .. MaxSkipped]
NoSummary == [failed |-> -1, skipped |-> -1]
\* <stem>_run0.jsonl and <stem>_run1.jsonl, and the pair the offsets beside
\* them were inferred from.
Dirs == [pair : Pairs, offsets : Pairs]

stem == programs[prog]

\* What program prog's capture number captures would leave in sniffed/: its
\* trace, whole, empty or cut off, or whatever was there, as run.sh goes on
\* when the program fails.
TracesLeft ==
    {sniffed[stem]} \cup
    {[by |-> <<prog, captures>>, state |-> s] : s \in {"good", "empty", "torn"}}

\* run.sh -c counts the lines of the trace and parses each: it fails when
\* there is no trace or the last line of it is cut off.
RunShSucceeds(trace) == trace.state \in {"good", "empty"}

Init ==
    /\ programs \in UNION {[1 .. n -> Stems] : n \in 0 .. MaxPrograms}
    /\ prog = 1
    /\ step = "begin"
    /\ captures = 0
    /\ sniffed \in [Stems -> {NoTrace, [by |-> <<0, 0>>, state |-> "good"]}]
    /\ runDir = [s \in Stems |-> [pair |-> NoPair, offsets |-> NoPair]]
    /\ base = NoSummary
    /\ cand = NoSummary
    /\ rows = <<>>
    /\ total_score = 0
    /\ all_ok = TRUE

-----------------------------------------------------------------------------
(* The harness and one program after another.                              *)

\* A row reports the summaries; used is what it was made from.
Row(ok, score) ==
    [program |-> prog, ok |-> ok, score |-> score, base |-> base, cand |-> cand,
     used |-> runDir[stem]]

\* A plausible bug: the captures of the program before are counted in.
AddRowKeepsCaptures(ok, score) ==
    /\ rows' = Append(rows, Row(ok, score))
    /\ total_score' = total_score + score
    /\ all_ok' = (all_ok /\ ok)
    /\ prog' = prog + 1
    /\ step' = "program"
    /\ base' = NoSummary
    /\ cand' = NoSummary
    /\ UNCHANGED <<programs, captures, runDir>>

\* The program's row is done: on with the next one.
AddRow(ok, score) ==
    /\ rows' = Append(rows, Row(ok, score))
    /\ total_score' = total_score + score
    /\ all_ok' = (all_ok /\ ok)
    /\ prog' = prog + 1
    /\ step' = "program"
    /\ captures' = 0
    /\ base' = NoSummary
    /\ cand' = NoSummary
    /\ UNCHANGED <<programs, runDir>>

\* No program, or a baseline file that cannot be parsed, is an exception.
Begin ==
    /\ step = "begin"
    /\ \/ step' = "raised"
       \/ programs # <<>> /\ step' = "program"
    /\ UNCHANGED <<current, captures, files, summaries, results>>

\* --dry-run: the harness is read and nothing else happens.
DryRun ==
    /\ step = "begin"
    /\ programs # <<>>
    /\ step' = "dry"
    /\ UNCHANGED <<current, captures, files, summaries, results>>

\* There is no such file, or it is not below cuda-ioctl-map: a failed row
\* that adds nothing to the score.
MissingProgram ==
    /\ step = "program"
    /\ prog <= Len(programs)
    /\ AddRow(FALSE, 0)
    /\ UNCHANGED sniffed

StartProgram ==
    /\ step = "program"
    /\ prog <= Len(programs)
    /\ step' = "capture"
    /\ UNCHANGED <<current, captures, files, summaries, results>>

\* nvcc or make fails, and with them run.sh, before the program runs.
CompileFails ==
    /\ step = "capture"
    /\ AddRow(FALSE, -One)
    /\ UNCHANGED sniffed

\* The program ran, or not, and its trace cannot be used.
CaptureFails ==
    /\ step = "capture"
    /\ \E trace \in TracesLeft :
        /\ ~ RunShSucceeds(trace) \/ trace.state = "empty"
        /\ sniffed' = [sniffed EXCEPT ![stem] = trace]
    /\ AddRow(FALSE, -One)

\* A plausible bug: nobody looks whether the trace is empty.
CaptureKeptAny ==
    /\ step = "capture"
    /\ \E trace \in TracesLeft :
        /\ RunShSucceeds(trace)
        /\ sniffed' = [sniffed EXCEPT ![stem] = trace]
        /\ runDir' = [runDir EXCEPT ![stem].pair[captures] = trace]
    /\ captures' = captures + 1
    /\ step' = IF captures' = 2 THEN "infer" ELSE "capture"
    /\ UNCHANGED <<current, summaries, results>>

\* The trace is copied to the run directory; the second one completes the
\* pair.
CaptureKept ==
    /\ step = "capture"
    /\ \E trace \in TracesLeft :
        /\ RunShSucceeds(trace)
        /\ trace.state # "empty"
        /\ sniffed' = [sniffed EXCEPT ![stem] = trace]
        /\ runDir' = [runDir EXCEPT ![stem].pair[captures] = trace]
    /\ captures' = captures + 1
    /\ step' = IF captures' = 2 THEN "infer" ELSE "capture"
    /\ UNCHANGED <<current, summaries, results>>

\* A plausible bug: the offsets file is the run's, not the program's.
InferForRun ==
    /\ step = "infer"
    /\ runDir' = [s \in Stems |->
                    [runDir[s] EXCEPT !.offsets = runDir[stem].pair]]
    /\ step' = "baseline"
    /\ UNCHANGED <<current, captures, sniffed, summaries, results>>

\* find_handle_offsets.py compares the pair and writes the offsets beside it.
Infer ==
    /\ step = "infer"
    /\ runDir' = [runDir EXCEPT ![stem].offsets = runDir[stem].pair]
    /\ step' = "baseline"
    /\ UNCHANGED <<current, captures, sniffed, summaries, results>>

InferenceFails ==
    /\ step = "infer"
    /\ AddRow(FALSE, -One)
    /\ UNCHANGED sniffed

\* Either replay may end without its summary line; its exit code is only
\* reported.
ReplayBaseline ==
    /\ step = "baseline"
    /\ base' \in Summaries \cup {NoSummary}
    /\ step' = "candidate"
    /\ UNCHANGED <<current, captures, files, cand, results>>

ReplayCandidate ==
    /\ step = "candidate"
    /\ cand' \in Summaries \cup {NoSummary}
    /\ step' = "score"
    /\ UNCHANGED <<current, captures, files, base, results>>

-----------------------------------------------------------------------------
(* The gate, the score and the end.                                        *)

\* A plausible bug: skips do not count.
GateIgnoresSkips == cand # NoSummary /\ cand.failed = 0

\* metrics.score_gate: a baseline without a summary gates nothing.
GatePasses ==
    /\ cand # NoSummary
    /\ cand.failed = 0
    /\ base # NoSummary =>
        cand.skipped - base.skipped <= MaxSkipRegression

\* metrics.compare_handle_offsets: of the requests in both files, the share
\* whose offsets agree; of no request, all.
Agreement(both, exact) == IF both = 0 THEN One ELSE (exact * One) \div both

Discounted(score) == IF cand.skipped > 0 THEN (score * 85) \div 100 ELSE score

ScorePasses ==
    /\ step = "score"
    /\ GatePasses
    /\ \E both \in 0 .. MaxCommon : \E exact \in 0 .. both :
        AddRow(TRUE, Discounted(Agreement(both, exact)))
    /\ UNCHANGED sniffed

ScoreFails ==
    /\ step = "score"
    /\ ~ GatePasses
    /\ AddRow(FALSE, -One)
    /\ UNCHANGED sniffed

Report ==
    /\ step = "program"
    /\ prog > Len(programs)
    /\ step' = "reported"
    /\ UNCHANGED <<current, captures, files, summaries, results>>

\* subprocess.TimeoutExpired, an error of the file system, or an offsets file
\* that cannot be parsed: the exception leaves evaluate_harness and every row
\* with it.  A capture that timed out may have written its trace by then.
Raise ==
    /\ step \in {"capture", "infer", "baseline", "candidate", "score"}
    /\ step' = "raised"
    /\ sniffed' \in IF step = "capture"
                    THEN {[sniffed EXCEPT ![stem] = trace] : trace \in TracesLeft}
                    ELSE {sniffed}
    /\ UNCHANGED <<current, captures, runDir, summaries, results>>

Next ==
    \/ Begin \/ DryRun \/ MissingProgram \/ StartProgram
    \/ CompileFails \/ CaptureFails \/ CaptureKept
    \/ Infer \/ InferenceFails
    \/ ReplayBaseline \/ ReplayCandidate
    \/ ScorePasses \/ ScoreFails
    \/ Report \/ Raise

Spec == Init /\ [][Next]_vars

\* main: the exit code.
ExitsZero == step = "dry" \/ (step = "reported" /\ all_ok)

\* A plausible bug: a failed evaluation keeps its average.
GepaScoreUncapped == IF step = "raised" THEN -One * Len(programs) ELSE total_score

\* gepa_runner's evaluator: the score GEPA sees, times the number of
\* programs; an evaluation that raised scores -1.
GepaScoreTimesN ==
    LET n == Len(programs) IN
    IF step = "raised" THEN -One * n
    ELSE IF all_ok \/ 2 * total_score < -One * n THEN total_score
    ELSE (-One * n) \div 2

-----------------------------------------------------------------------------
(* Properties.                                                             *)

Rows == [program : 1 .. MaxPrograms, ok : BOOLEAN, score : -One .. One,
         base : Summaries \cup {NoSummary}, cand : Summaries \cup {NoSummary},
         used : Dirs]

\* The variables have their types, a program's captures are numbered below
\* two while it is captured, and the rows done are those of the programs
\* before this one, in order.
TypeOK ==
    /\ programs \in Seq(Stems)
    /\ Len(programs) <= MaxPrograms
    /\ prog \in 1 .. Len(programs) + 1
    /\ step \in {"begin", "program", "capture", "infer", "baseline",
                 "candidate", "score", "reported", "dry", "raised"}
    /\ captures \in 0 .. 2
    /\ step = "capture" => captures < 2
    /\ sniffed \in [Stems -> Traces]
    /\ runDir \in [Stems -> Dirs]
    /\ {base, cand} \subseteq Summaries \cup {NoSummary}
    /\ rows \in Seq(Rows)
    /\ Len(rows) = prog - 1
    /\ total_score \in Int
    /\ all_ok \in BOOLEAN

\* What a row that is reported as ok has behind it.
Earned(row) ==
    /\ row.cand \in Summaries
    /\ row.cand.failed = 0
    /\ row.base # NoSummary =>
        row.cand.skipped <= row.base.skipped + MaxSkipRegression
    /\ \A c \in 0 .. 1 : row.used.pair[c].state = "good"

\* Exit code 0 of a live run is earned by every program of the harness
\* (optimizer/README.md: "only if every program row reports ok"): there is a
\* row for each, whose candidate replay printed a summary without a failure
\* and, where the baseline replay printed one too, without more skips than
\* the harness allows, on a whole pair of traces.
ExitZeroEarned ==
    ExitsZero /\ step # "dry" =>
        /\ Len(rows) = Len(programs)
        /\ \A r \in DOMAIN rows : rows[r].ok /\ Earned(rows[r])

\* A harness that fails never beats one that passes, although a missing
\* program adds 0 to the sum and a perfect one adds 1: GEPA sees at most
\* -1/2 for a harness with a failed row or an exception, at least 0 for one
\* without (gepa_runner.py's evaluator).
FailureNeverWins ==
    LET n == Len(programs) IN
    step \in {"reported", "raised"} =>
        IF step = "reported" /\ \A r \in DOMAIN rows : rows[r].ok
        THEN GepaScoreTimesN >= 0
        ELSE 2 * GepaScoreTimesN <= -One * n

\* Program r has its files to itself: no other program has its stem.
OwnStem(r) == \A q \in DOMAIN programs : programs[q] = programs[r] => q = r

\* What the run directory keeps is what a scored row was scored on, as long
\* as no other program has its stem: the pair, and offsets inferred from
\* that pair, which no later program, failure or exception touches
\* (optimizer/README.md: the pairs are preserved under optimizer/runs).
ArtifactsMatchRows ==
    \A r \in DOMAIN rows :
        rows[r].cand # NoSummary /\ OwnStem(r) =>
            /\ runDir[programs[r]] = rows[r].used
            /\ rows[r].used.offsets = rows[r].used.pair

\* A scored pair is two captures of the row's program, in order
\* (optimizer/README.md: "captures twice per program").
PairsAreTwoCaptures ==
    \A r \in DOMAIN rows :
        rows[r].cand # NoSummary =>
            \A c \in 0 .. 1 : rows[r].used.pair[c].by = <<r, c>>

\* Why exit codes and scores can be relied on: all_ok and the sum speak for
\* the rows, an ok row is earned when it is written, and the traces kept so
\* far are whole.
EvaluateInv ==
    /\ TypeOK
    /\ all_ok <=> \A r \in DOMAIN rows : rows[r].ok
    /\ \A r \in DOMAIN rows : rows[r].ok => Earned(rows[r])
    /\ all_ok => total_score >= 0
    /\ step \in {"capture", "infer", "baseline", "candidate", "score"} =>
        /\ prog <= Len(programs)
        /\ \A c \in 0 .. captures - 1 : runDir[stem].pair[c].state = "good"
    /\ step \in {"infer", "baseline", "candidate", "score"} => captures = 2
    /\ step = "program" => captures = 0
    /\ step = "reported" => prog > Len(programs)
    /\ step = "begin" => captures = 0

=============================================================================
