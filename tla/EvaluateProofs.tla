--------------------------- MODULE EvaluateProofs ---------------------------
(***************************************************************************)
(* Exit code 0 is earned and a failure never wins, for harnesses of any    *)
(* length and any bounds on skips and on common requests.                  *)
(***************************************************************************)
EXTENDS Evaluate, TLAPS

AtWork == {"capture", "infer", "baseline", "candidate", "score"}

\* An agreement is between 0 and One.
LEMMA AgreementBounds ==
    ASSUME NEW both \in Nat, NEW exact \in 0 .. both
    PROVE  Agreement(both, exact) \in 0 .. One
<1>1. CASE both = 0
  BY <1>1 DEF Agreement, One
<1>2. CASE both # 0
  <2> DEFINE q == (exact * One) \div both
  <2>1. q \in Int /\ both * q <= exact * One /\ exact * One < both * q + both
    BY <1>2 DEF One
  <2>2. q >= 0
    BY <2>1, <1>2 DEF One
  <2>3. q <= One
    <3>1. SUFFICES ASSUME q >= One + 1 PROVE FALSE
      BY <2>1 DEF One
    <3>2. both * q >= both * (One + 1)
      BY <3>1, <2>1, <1>2 DEF One
    <3>3. both * (One + 1) > exact * One
      BY <1>2 DEF One
    <3> QED BY <2>1, <3>2, <3>3 DEF One
  <2> QED BY <1>2, <2>1, <2>2, <2>3 DEF Agreement, One
<1> QED BY <1>1, <1>2

\* Nor does the discount for skips leave these bounds.
LEMMA DiscountBounds ==
    ASSUME NEW score \in 0 .. One
    PROVE  Discounted(score) \in 0 .. One
BY DEF Discounted, One

\* A score of a passing row is a score.
LEMMA ScoreRange ==
    ASSUME NEW score \in 0 .. One
    PROVE  score \in -One .. One /\ score >= 0
<1>1. score \in Int /\ score >= 0 /\ score <= One /\ One \in Int /\ -One \in Int /\ -One <= 0
  BY DEF One
<1> QED BY <1>1

\* Before anything runs.
LEMMA InitInv == Init => EvaluateInv
<1> SUFFICES ASSUME Init PROVE EvaluateInv
  OBVIOUS
<1> USE BoundsAssumption
<1>1. programs \in Seq(Stems) /\ Len(programs) <= MaxPrograms /\ Len(programs) \in Nat
  BY DEF Init
<1>2. NoTrace \in Traces /\ [by |-> <<0, 0>>, state |-> "good"] \in Traces
  BY DEF NoTrace, Traces
<1>3. sniffed \in [Stems -> Traces]
  <2>1. {NoTrace, [by |-> <<0, 0>>, state |-> "good"]} \subseteq Traces
    BY <1>2
  <2>2. sniffed \in [Stems -> {NoTrace, [by |-> <<0, 0>>, state |-> "good"]}]
    BY DEF Init
  <2> HIDE DEF NoTrace
  <2> QED BY <2>1, <2>2
<1>4. runDir \in [Stems -> Dirs]
  <2>1. NoPair \in Pairs
    BY <1>2 DEF Pairs, NoPair
  <2>2. [pair |-> NoPair, offsets |-> NoPair] \in Dirs
    BY <2>1 DEF Dirs
  <2> QED BY <2>2 DEF Init
<1>5. rows \in Seq(Rows) /\ Len(rows) = prog - 1
  BY DEF Init
<1>6. TypeOK
  BY <1>1, <1>3, <1>4, <1>5 DEF Init, TypeOK
<1> QED BY <1>6 DEF Init, EvaluateInv

\* A row added keeps the invariant, if it is earned when it is ok.
LEMMA AddRowInv ==
    ASSUME EvaluateInv, prog <= Len(programs),
           NEW good \in BOOLEAN, NEW score \in -One .. One,
           good => Earned(Row(good, score)) /\ score >= 0,
           AddRow(good, score), sniffed' \in [Stems -> Traces]
    PROVE  EvaluateInv'
<1> USE BoundsAssumption
<1> DEFINE row == Row(good, score)
<1>1. row \in Rows
  <2>1. stem \in Stems /\ runDir[stem] \in Dirs
    BY DEF EvaluateInv, TypeOK, stem
  <2>2. prog \in 1 .. MaxPrograms
    BY DEF EvaluateInv, TypeOK
  <2> QED BY <2>1, <2>2 DEF EvaluateInv, TypeOK, Rows, Row
<1>2. row.ok = good /\ row.score = score
  BY DEF Row
<1> HIDE DEF row
<1>3. rows' = Append(rows, row) /\ prog' = prog + 1 /\ step' = "program"
  BY DEF AddRow, row
<1>4. rows \in Seq(Rows) /\ Len(rows) = prog - 1 /\ prog \in 1 .. Len(programs) + 1
  BY DEF EvaluateInv, TypeOK
<1>5. /\ rows' \in Seq(Rows) /\ Len(rows') = prog' - 1
      /\ \A r \in DOMAIN rows' :
            (r \in DOMAIN rows /\ rows'[r] = rows[r]) \/ (r = prog /\ rows'[r] = row)
      /\ \A r \in DOMAIN rows : r \in DOMAIN rows' /\ rows'[r] = rows[r]
      /\ prog \in DOMAIN rows' /\ rows'[prog] = row
  BY <1>1, <1>3, <1>4
<1>6. /\ programs' = programs /\ runDir' = runDir /\ captures' = 0
      /\ base' = NoSummary /\ cand' = NoSummary
      /\ total_score' = total_score + score /\ all_ok' = (all_ok /\ good)
  BY DEF AddRow
<1>7. TypeOK'
  <2>1. all_ok' \in BOOLEAN
    BY <1>6
  <2>2. total_score' \in Int
    BY <1>6 DEF EvaluateInv, TypeOK, One
  <2>3. programs' \in Seq(Stems) /\ Len(programs') <= MaxPrograms
        /\ prog' \in 1 .. Len(programs') + 1
    BY <1>3, <1>4, <1>6 DEF EvaluateInv, TypeOK
  <2>4. runDir' \in [Stems -> Dirs] /\ {base', cand'} \subseteq Summaries \cup {NoSummary}
    BY <1>6 DEF EvaluateInv, TypeOK
  <2> QED BY <2>1, <2>2, <2>3, <2>4, <1>3, <1>5, <1>6 DEF TypeOK
<1>8. all_ok' <=> \A r \in DOMAIN rows' : rows'[r].ok
  <2>1. rows'[prog].ok = good
    BY <1>2, <1>5
  <2>2. all_ok <=> \A r \in DOMAIN rows : rows[r].ok
    BY DEF EvaluateInv
  <2> QED BY <2>1, <2>2, <1>2, <1>5, <1>6
<1>9. \A r \in DOMAIN rows' : rows'[r].ok => Earned(rows'[r])
  BY <1>2, <1>5 DEF EvaluateInv, Earned, row
<1>10. all_ok' => total_score' >= 0
  <2>1. all_ok' => all_ok /\ good
    BY <1>6
  <2>2. all_ok => total_score >= 0
    BY DEF EvaluateInv
  <2>3. total_score \in Int
    BY DEF EvaluateInv, TypeOK
  <2> QED BY <2>1, <2>2, <2>3, <1>6 DEF One
<1>11. /\ step' \notin AtWork \cup {"reported", "begin"}
       /\ captures' = 0
  BY <1>3, <1>6 DEF AtWork
<1> QED
  <2>1. (\A r \in DOMAIN rows : rows[r].ok => Earned(rows[r]))'
    BY <1>9 DEF Earned
  <2> QED BY <1>7, <1>8, <2>1, <1>10, <1>11 DEF EvaluateInv, AtWork

\* What a capture leaves is a trace.
LEMMA TracesLeftType ==
    ASSUME TypeOK, prog <= Len(programs), captures < 2
    PROVE  /\ stem \in Stems
           /\ TracesLeft \subseteq Traces
           /\ \A trace \in TracesLeft : [sniffed EXCEPT ![stem] = trace] \in [Stems -> Traces]
<1> USE BoundsAssumption
<1>1. stem \in Stems
  BY DEF TypeOK, stem
<1>2. prog \in 0 .. MaxPrograms /\ captures \in 0 .. 1
  BY DEF TypeOK
<1>3. TracesLeft \subseteq Traces
  <2>1. sniffed[stem] \in Traces
    BY <1>1 DEF TypeOK
  <2> QED BY <2>1, <1>2 DEF TracesLeft, Traces
<1> QED BY <1>1, <1>3 DEF TypeOK

\* A trace kept extends the whole traces of the pair.
LEMMA CaptureKeptInv == EvaluateInv /\ CaptureKept => EvaluateInv'
<1> SUFFICES ASSUME EvaluateInv, CaptureKept PROVE EvaluateInv'
  OBVIOUS
<1>1. /\ TypeOK /\ step = "capture" /\ prog <= Len(programs) /\ captures \in 0 .. 1
      /\ \A c \in 0 .. captures - 1 : runDir[stem].pair[c].state = "good"
  BY DEF EvaluateInv, TypeOK, CaptureKept
<1>2. PICK trace \in TracesLeft :
        /\ RunShSucceeds(trace) /\ trace.state # "empty"
        /\ sniffed' = [sniffed EXCEPT ![stem] = trace]
        /\ runDir' = [runDir EXCEPT ![stem].pair[captures] = trace]
  BY DEF CaptureKept
<1>3. /\ stem \in Stems /\ trace \in Traces /\ sniffed' \in [Stems -> Traces]
  BY <1>1, <1>2, TracesLeftType
<1>4. trace.state = "good"
  BY <1>2 DEF RunShSucceeds
<1>5. /\ programs' = programs /\ prog' = prog /\ base' = base /\ cand' = cand
      /\ rows' = rows /\ total_score' = total_score /\ all_ok' = all_ok
      /\ captures' = captures + 1
      /\ step' = IF captures' = 2 THEN "infer" ELSE "capture"
  BY DEF CaptureKept, current, summaries, results
<1>6. runDir[stem] \in Dirs /\ runDir[stem].pair \in Pairs
  BY <1>1, <1>3 DEF TypeOK, Dirs
<1> DEFINE pair == [runDir[stem].pair EXCEPT ![captures] = trace]
<1>7. /\ pair \in Pairs
      /\ \A c \in 0 .. captures : pair[c].state = "good"
  BY <1>1, <1>3, <1>4, <1>6 DEF Pairs
<1>8. /\ runDir' = [runDir EXCEPT ![stem] = [runDir[stem] EXCEPT !.pair = pair]]
  BY <1>2, <1>3, <1>6 DEF Dirs
<1> HIDE DEF pair
<1>9. [runDir[stem] EXCEPT !.pair = pair] \in Dirs
  BY <1>6, <1>7 DEF Dirs
<1>10. runDir' \in [Stems -> Dirs] /\ runDir'[stem].pair = pair
  BY <1>1, <1>3, <1>6, <1>8, <1>9 DEF TypeOK, Dirs
<1>11. stem' = stem
  BY <1>5 DEF stem
<1>12. TypeOK'
  BY <1>1, <1>3, <1>5, <1>10 DEF TypeOK
<1>13. \A c \in 0 .. captures' - 1 : runDir'[stem'].pair[c].state = "good"
  <2>1. captures' - 1 = captures
    BY <1>1, <1>5
  <2>2. runDir'[stem'].pair = pair
    BY <1>10, <1>11
  <2> QED BY <2>1, <2>2, <1>7
<1>14. (\A r \in DOMAIN rows : rows[r].ok => Earned(rows[r]))'
  BY <1>5 DEF EvaluateInv, Earned
<1> QED BY <1>1, <1>5, <1>12, <1>13, <1>14 DEF EvaluateInv

\* Steps that change neither rows nor the pair.
LEMMA QuietInv ==
    ASSUME EvaluateInv, TypeOK',
           UNCHANGED <<programs, prog, captures, rows, total_score, all_ok>>,
           \A s \in Stems : runDir'[s].pair = runDir[s].pair,
           step' \in AtWork => prog <= Len(programs) /\ (step \in AtWork \/ captures = 0),
           step' \in AtWork \ {"capture"} => captures = 2,
           step' \in {"program", "begin"} => captures = 0,
           step' = "reported" => prog > Len(programs)
    PROVE  EvaluateInv'
<1>1. (\A r \in DOMAIN rows : rows[r].ok => Earned(rows[r]))'
  BY DEF EvaluateInv, Earned
<1>2. ASSUME step' \in AtWork, NEW c \in 0 .. captures' - 1
      PROVE  (runDir[stem].pair[c].state)' = "good"
  <2>1. stem' = stem /\ stem \in Stems
    BY <1>2 DEF stem, EvaluateInv, TypeOK
  <2>2. step \in AtWork
    BY <1>2 DEF AtWork
  <2>3. runDir[stem].pair[c].state = "good"
    BY <1>2, <2>2 DEF EvaluateInv, AtWork
  <2> QED BY <2>1, <2>3
<1> QED BY <1>1, <1>2 DEF EvaluateInv, AtWork

\* The offsets are written beside the pair, which stays.
LEMMA InferInv == EvaluateInv /\ Infer => EvaluateInv'
<1> SUFFICES ASSUME EvaluateInv, Infer PROVE EvaluateInv'
  OBVIOUS
<1>1. /\ TypeOK /\ step = "infer" /\ prog <= Len(programs) /\ captures = 2
  BY DEF EvaluateInv, Infer
<1>2. /\ programs' = programs /\ prog' = prog /\ base' = base /\ cand' = cand
      /\ rows' = rows /\ total_score' = total_score /\ all_ok' = all_ok
      /\ captures' = captures /\ sniffed' = sniffed /\ step' = "baseline"
  BY DEF Infer, current, summaries, results
<1>3. stem \in Stems /\ runDir[stem] \in Dirs
  BY <1>1 DEF TypeOK, stem
<1> DEFINE dir == [pair |-> runDir[stem].pair, offsets |-> runDir[stem].pair]
<1>4. runDir' = [runDir EXCEPT ![stem] = dir]
  <2>1. runDir' = [runDir EXCEPT ![stem].offsets = runDir[stem].pair]
    BY DEF Infer
  <2>2. [runDir[stem] EXCEPT !.offsets = runDir[stem].pair] = dir
    BY <1>3 DEF Dirs
  <2> HIDE DEF dir
  <2> QED BY <2>1, <2>2
<1>5. dir \in Dirs /\ dir.pair = runDir[stem].pair
  BY <1>3 DEF Dirs
<1> HIDE DEF dir
<1>6. runDir' \in [Stems -> Dirs] /\ \A s \in Stems : runDir'[s].pair = runDir[s].pair
  BY <1>1, <1>3, <1>4, <1>5 DEF TypeOK
<1>7. TypeOK'
  BY <1>1, <1>2, <1>6 DEF TypeOK
<1> QED BY <1>1, <1>2, <1>6, <1>7, QuietInv DEF AtWork

\* The gate is what earns a row.
LEMMA ScorePassesInv == EvaluateInv /\ ScorePasses => EvaluateInv'
<1> SUFFICES ASSUME EvaluateInv, ScorePasses PROVE EvaluateInv'
  OBVIOUS
<1> USE BoundsAssumption
<1>1. /\ TypeOK /\ step = "score" /\ prog <= Len(programs) /\ captures = 2
      /\ \A c \in 0 .. captures - 1 : runDir[stem].pair[c].state = "good"
      /\ sniffed' = sniffed /\ GatePasses
  BY DEF EvaluateInv, ScorePasses
<1>2. PICK both \in 0 .. MaxCommon : \E exact \in 0 .. both :
        AddRow(TRUE, Discounted(Agreement(both, exact)))
  BY DEF ScorePasses
<1>3. PICK exact \in 0 .. both : AddRow(TRUE, Discounted(Agreement(both, exact)))
  BY <1>2
<1> DEFINE score == Discounted(Agreement(both, exact))
<1>4. score \in 0 .. One
  BY AgreementBounds, DiscountBounds
<1> HIDE DEF score
<1>5. Earned(Row(TRUE, score))
  <2>1. cand \in Summaries /\ cand.failed = 0
    BY <1>1 DEF TypeOK, GatePasses
  <2>2. base # NoSummary => cand.skipped <= base.skipped + MaxSkipRegression
    BY <1>1 DEF TypeOK, GatePasses, Summaries
  <2> QED BY <1>1, <2>1, <2>2 DEF Earned, Row
<1>6. sniffed' \in [Stems -> Traces]
  BY <1>1 DEF TypeOK
<1>7. AddRow(TRUE, score)
  BY <1>3 DEF score
<1>8. score \in -One .. One /\ score >= 0
  BY <1>4, ScoreRange
<1>9. TRUE \in BOOLEAN /\ (TRUE => Earned(Row(TRUE, score)) /\ score >= 0)
  BY <1>5, <1>8
<1> QED BY <1>1, <1>6, <1>7, <1>8, <1>9, AddRowInv, Zenon

\* The other ways a program's row is written: it fails.
LEMMA FailureInv ==
    ASSUME EvaluateInv, prog <= Len(programs), sniffed' \in [Stems -> Traces],
           AddRow(FALSE, 0) \/ AddRow(FALSE, -One)
    PROVE  EvaluateInv'
<1>1. FALSE \in BOOLEAN /\ 0 \in -One .. One /\ -One \in -One .. One
  BY DEF One
<1>2. CASE AddRow(FALSE, 0)
  BY <1>1, <1>2, AddRowInv, Zenon
<1>3. CASE AddRow(FALSE, -One)
  BY <1>1, <1>3, AddRowInv, Zenon
<1> QED BY <1>2, <1>3

\* Every step of evaluate_harness.
LEMMA StepInv == EvaluateInv /\ [Next]_vars => EvaluateInv'
<1> SUFFICES ASSUME EvaluateInv, [Next]_vars PROVE EvaluateInv'
  OBVIOUS
<1>0. TypeOK /\ sniffed \in [Stems -> Traces]
  BY DEF EvaluateInv, TypeOK
<1>1. CASE Begin \/ DryRun
  <2>1. TypeOK'
    BY <1>0, <1>1 DEF Begin, DryRun, TypeOK, current, files, summaries, results
  <2> QED BY <2>1, <1>1, QuietInv
          DEF Begin, DryRun, EvaluateInv, AtWork, current, files, summaries, results
<1>2. CASE MissingProgram
  BY <1>0, <1>2, FailureInv DEF MissingProgram
<1>3. CASE StartProgram
  <2>1. TypeOK'
    BY <1>0, <1>3 DEF StartProgram, EvaluateInv, TypeOK, current, files, summaries, results
  <2> QED BY <2>1, <1>3, QuietInv
          DEF StartProgram, EvaluateInv, AtWork, current, files, summaries, results
<1>4. CASE CompileFails \/ InferenceFails \/ ScoreFails
  BY <1>0, <1>4, FailureInv DEF CompileFails, InferenceFails, ScoreFails, EvaluateInv
<1>5. CASE CaptureFails
  <2>1. step = "capture" /\ prog <= Len(programs) /\ captures < 2 /\ AddRow(FALSE, -One)
    BY <1>0, <1>5 DEF CaptureFails, EvaluateInv, TypeOK
  <2>2. sniffed' \in [Stems -> Traces]
    BY <1>0, <1>5, <2>1, TracesLeftType DEF CaptureFails
  <2> QED BY <2>1, <2>2, FailureInv
<1>6. CASE CaptureKept
  BY <1>6, CaptureKeptInv
<1>7. CASE Infer
  BY <1>7, InferInv
<1>8. CASE ReplayBaseline \/ ReplayCandidate
  <2>1. TypeOK'
    BY <1>0, <1>8
       DEF ReplayBaseline, ReplayCandidate, TypeOK, current, files, summaries, results
  <2> QED BY <2>1, <1>8, QuietInv
          DEF ReplayBaseline, ReplayCandidate, EvaluateInv, AtWork, current, files,
              summaries, results
<1>9. CASE ScorePasses
  BY <1>9, ScorePassesInv
<1>10. CASE Report
  <2>1. TypeOK'
    BY <1>0, <1>10 DEF Report, TypeOK, current, files, summaries, results
  <2> QED BY <2>1, <1>10, QuietInv
          DEF Report, EvaluateInv, AtWork, current, files, summaries, results
<1>11. CASE Raise
  <2>1. sniffed' \in [Stems -> Traces]
    <3>1. CASE step = "capture"
      <4>1. prog <= Len(programs) /\ captures < 2
        BY <3>1, <1>0 DEF EvaluateInv, TypeOK
      <4>2. PICK trace \in TracesLeft : sniffed' = [sniffed EXCEPT ![stem] = trace]
        BY <3>1, <1>11 DEF Raise
      <4> QED BY <1>0, <4>1, <4>2, TracesLeftType
    <3>2. CASE step # "capture"
      BY <1>0, <3>2, <1>11 DEF Raise
    <3> QED BY <3>1, <3>2
  <2>2. TypeOK'
    BY <1>0, <1>11, <2>1 DEF Raise, TypeOK, current, summaries, results
  <2> QED BY <2>2, <1>11, QuietInv
          DEF Raise, EvaluateInv, AtWork, current, summaries, results
<1>12. CASE UNCHANGED vars
  <2>1. TypeOK'
    BY <1>0, <1>12 DEF vars, TypeOK, current, files, summaries, results
  <2> QED BY <2>1, <1>12, QuietInv
          DEF vars, EvaluateInv, AtWork, current, files, summaries, results
<1> QED BY <1>1, <1>2, <1>3, <1>4, <1>5, <1>6, <1>7, <1>8, <1>9, <1>10, <1>11, <1>12
        DEF Next

\* What the invariant says of the exit code and of GEPA's score.
LEMMA InvEarned == EvaluateInv => ExitZeroEarned
BY DEF EvaluateInv, ExitZeroEarned, ExitsZero, TypeOK

\* A failing harness is cut to -1/2, a passing one has no negative row.
LEMMA InvFailureLoses == EvaluateInv => FailureNeverWins
<1> SUFFICES ASSUME EvaluateInv PROVE FailureNeverWins
  OBVIOUS
<1>1. Len(programs) \in Nat /\ total_score \in Int
  BY DEF EvaluateInv, TypeOK
<1>2. CASE step = "raised"
  <2>1. GepaScoreTimesN = -One * Len(programs)
    BY <1>2 DEF GepaScoreTimesN
  <2>2. 2 * GepaScoreTimesN <= -One * Len(programs)
    BY <1>1, <2>1 DEF One
  <2> QED BY <1>2, <2>2 DEF FailureNeverWins
<1>3. CASE step = "reported" /\ all_ok
  BY <1>1, <1>3 DEF FailureNeverWins, GepaScoreTimesN, EvaluateInv
<1>4. CASE step = "reported" /\ ~ all_ok
  <2>1. GepaScoreTimesN = IF 2 * total_score < -One * Len(programs)
                          THEN total_score ELSE (-One * Len(programs)) \div 2
    BY <1>4 DEF GepaScoreTimesN
  <2>2. 2 * GepaScoreTimesN <= -One * Len(programs)
    BY <1>1, <2>1 DEF One
  <2> QED BY <1>4, <2>2 DEF FailureNeverWins, EvaluateInv
<1> QED BY <1>2, <1>3, <1>4 DEF FailureNeverWins

\* The types, and the reasons behind the two theorems below, hold of every
\* harness of evaluate.py.
THEOREM EvaluationInvariant == Spec => []EvaluateInv
<1>1. Init => EvaluateInv
  BY InitInv
<1>2. EvaluateInv /\ [Next]_vars => EvaluateInv'
  BY StepInv
<1> QED BY <1>1, <1>2, PTL DEF Spec

\* The variables of evaluate.py keep their types, and the rows and the
\* score they add up to their ranges, for harnesses of any length.
THEOREM TypesHold == Spec => []TypeOK
<1>1. EvaluateInv => TypeOK
  BY DEF EvaluateInv
<1> QED BY <1>1, EvaluationInvariant, PTL

\* Exit code 0 of a live run of evaluate.py is earned by every program of
\* the harness, however many there are.
THEOREM ExitCodeEarned == Spec => []ExitZeroEarned
BY EvaluationInvariant, InvEarned, PTL

\* The score gepa_runner.py reports of a harness that failed is never above
\* that of one that passed.
THEOREM FailureLoses == Spec => []FailureNeverWins
BY EvaluationInvariant, InvFailureLoses, PTL

-----------------------------------------------------------------------------
(* The artifacts.                                                          *)

\* A row without a namesake has its directory as it left it, and what was
\* scored was inferred from the pair beside it.
ArtifactsInv ==
    /\ \A r \in DOMAIN rows : OwnStem(r) => runDir[programs[r]] = rows[r].used
    /\ \A r \in DOMAIN rows :
        rows[r].cand # NoSummary => rows[r].used.offsets = rows[r].used.pair
    /\ cand # NoSummary => step \in {"score", "raised"}
    /\ step \in {"baseline", "candidate", "score"} =>
        runDir[stem].offsets = runDir[stem].pair

\* The directory a row is made from is the one its program leaves.
LEMMA AddRowArtifacts ==
    ASSUME EvaluateInv, ArtifactsInv, prog <= Len(programs), step # "raised",
           NEW good \in BOOLEAN, NEW score \in -One .. One, AddRow(good, score)
    PROVE  ArtifactsInv'
<1> USE BoundsAssumption
<1> DEFINE row == Row(good, score)
<1>1. row \in Rows
  <2>1. stem \in Stems /\ runDir[stem] \in Dirs
    BY DEF EvaluateInv, TypeOK, stem
  <2>2. prog \in 1 .. MaxPrograms
    BY DEF EvaluateInv, TypeOK
  <2> QED BY <2>1, <2>2 DEF EvaluateInv, TypeOK, Rows, Row
<1>2. row.used = runDir[programs[prog]] /\ row.cand = cand
  BY DEF Row, stem
<1>3. cand # NoSummary => runDir[programs[prog]].offsets = runDir[programs[prog]].pair
  BY DEF ArtifactsInv, stem
<1> HIDE DEF row
<1>4. /\ rows' = Append(rows, row) /\ step' = "program" /\ cand' = NoSummary
      /\ programs' = programs /\ runDir' = runDir
  BY DEF AddRow, row
<1>5. rows \in Seq(Rows) /\ Len(rows) = prog - 1 /\ prog \in 1 .. Len(programs) + 1
  BY DEF EvaluateInv, TypeOK
<1>6. \A r \in DOMAIN rows' :
         (r \in DOMAIN rows /\ rows'[r] = rows[r]) \/ (r = prog /\ rows'[r] = row)
  BY <1>1, <1>4, <1>5
<1>7. ASSUME NEW r \in DOMAIN rows'
      PROVE  /\ OwnStem(r)' => runDir'[programs'[r]] = rows'[r].used
             /\ rows'[r].cand # NoSummary => rows'[r].used.offsets = rows'[r].used.pair
  BY <1>2, <1>3, <1>4, <1>6, <1>7 DEF ArtifactsInv, OwnStem
<1> QED BY <1>4, <1>7 DEF ArtifactsInv

\* A step that adds no row writes to no directory but this program's.
LEMMA NoRowArtifacts ==
    ASSUME EvaluateInv, ArtifactsInv, UNCHANGED <<programs, prog, rows>>,
           \/ runDir' = runDir
           \/ /\ prog <= Len(programs)
              /\ \A s \in Stems : s # stem => runDir'[s] = runDir[s],
           cand' # NoSummary => step' \in {"score", "raised"},
           step' \in {"baseline", "candidate", "score"} =>
               runDir'[stem].offsets = runDir'[stem].pair
    PROVE  ArtifactsInv'
<1>1. stem' = stem
  BY DEF stem
<1>2. /\ rows \in Seq(Rows) /\ Len(rows) = prog - 1 /\ prog \in 1 .. Len(programs) + 1
      /\ programs \in Seq(Stems)
  BY DEF EvaluateInv, TypeOK
<1>3. ASSUME NEW r \in DOMAIN rows, OwnStem(r)
      PROVE  runDir'[programs[r]] = rows[r].used
  <2>1. r \in DOMAIN programs /\ r < prog /\ programs[r] \in Stems
    BY <1>2
  <2>2. prog <= Len(programs) => programs[r] # stem
    BY <1>2, <1>3, <2>1 DEF OwnStem, stem
  <2> QED BY <1>3, <2>1, <2>2 DEF ArtifactsInv
<1>4. \A r \in DOMAIN rows : OwnStem(r)' <=> OwnStem(r)
  BY DEF OwnStem
<1> QED BY <1>1, <1>3, <1>4 DEF ArtifactsInv

\* Every step keeps the artifacts.
LEMMA StepArtifacts ==
    EvaluateInv /\ ArtifactsInv /\ [Next]_vars => ArtifactsInv'
<1> SUFFICES ASSUME EvaluateInv, ArtifactsInv, [Next]_vars PROVE ArtifactsInv'
  OBVIOUS
<1>0. /\ step \in AtWork => prog <= Len(programs)
      /\ prog <= Len(programs) => stem \in Stems
      /\ runDir \in [Stems -> Dirs]
  BY DEF EvaluateInv, TypeOK, AtWork, stem
<1>a. FALSE \in BOOLEAN /\ TRUE \in BOOLEAN /\ 0 \in -One .. One /\ -One \in -One .. One
  BY DEF One
<1>1. CASE MissingProgram \/ CompileFails \/ CaptureFails \/ InferenceFails \/ ScoreFails
  <2>1. /\ prog <= Len(programs) /\ step # "raised"
        /\ AddRow(FALSE, 0) \/ AddRow(FALSE, -One)
    BY <1>0, <1>1
       DEF MissingProgram, CompileFails, CaptureFails, InferenceFails, ScoreFails, AtWork
  <2>2. CASE AddRow(FALSE, 0)
    BY <1>a, <2>1, <2>2, AddRowArtifacts
  <2>3. CASE AddRow(FALSE, -One)
    BY <1>a, <2>1, <2>3, AddRowArtifacts
  <2> QED BY <2>1, <2>2, <2>3
<1>2. CASE ScorePasses
  <2>1. PICK both \in 0 .. MaxCommon : \E exact \in 0 .. both :
            AddRow(TRUE, Discounted(Agreement(both, exact)))
    BY <1>2 DEF ScorePasses
  <2>2. PICK exact \in 0 .. both : AddRow(TRUE, Discounted(Agreement(both, exact)))
    BY <2>1
  <2> DEFINE score == Discounted(Agreement(both, exact))
  <2>3. both \in Nat
    BY BoundsAssumption
  <2>4. score \in -One .. One
    BY <2>3, AgreementBounds, DiscountBounds, ScoreRange
  <2>5. prog <= Len(programs) /\ step # "raised"
    BY <1>0, <1>2 DEF ScorePasses, AtWork
  <2> HIDE DEF score
  <2> QED BY <1>a, <2>2, <2>4, <2>5, AddRowArtifacts DEF score
<1>3. CASE Begin \/ DryRun \/ StartProgram \/ Report \/ Raise
  <2>1. /\ UNCHANGED <<programs, prog, rows, runDir, cand>>
        /\ step \notin {"score", "raised"} \/ step' = "raised"
        /\ step' \notin {"baseline", "candidate", "score"}
    BY <1>3 DEF Begin, DryRun, StartProgram, Report, Raise, current, files, summaries, results
  <2> QED BY <2>1, NoRowArtifacts DEF ArtifactsInv
<1>4. CASE CaptureKept
  <2>1. /\ UNCHANGED <<programs, prog, rows, cand>> /\ step = "capture"
        /\ step' \in {"infer", "capture"}
    BY <1>4 DEF CaptureKept, current, summaries, results
  <2>2. PICK trace \in TracesLeft :
            runDir' = [runDir EXCEPT ![stem].pair[captures] = trace]
    BY <1>4 DEF CaptureKept
  <2>3. \A s \in Stems : s # stem => runDir'[s] = runDir[s]
    BY <1>0, <2>2
  <2> QED BY <1>0, <2>1, <2>3, NoRowArtifacts DEF ArtifactsInv, AtWork
<1>5. CASE Infer
  <2>1. /\ UNCHANGED <<programs, prog, rows, cand>> /\ step = "infer" /\ step' = "baseline"
        /\ runDir' = [runDir EXCEPT ![stem].offsets = runDir[stem].pair]
    BY <1>5 DEF Infer, current, summaries, results
  <2>2. prog <= Len(programs) /\ stem \in Stems
    BY <1>0, <2>1 DEF AtWork
  <2>3. \A s \in Stems : s # stem => runDir'[s] = runDir[s]
    BY <1>0, <2>1
  <2>4. runDir'[stem].offsets = runDir[stem].pair /\ runDir'[stem].pair = runDir[stem].pair
    BY <1>0, <2>1, <2>2 DEF Dirs
  <2> QED BY <2>1, <2>2, <2>3, <2>4, NoRowArtifacts DEF ArtifactsInv
<1>6. CASE ReplayBaseline \/ ReplayCandidate
  <2>1. /\ UNCHANGED <<programs, prog, rows, runDir>>
        /\ step \in {"baseline", "candidate"}
        /\ step' \in {"candidate", "score"} /\ (cand' = cand \/ step' = "score")
    BY <1>6 DEF ReplayBaseline, ReplayCandidate, current, files, results
  <2> QED BY <2>1, NoRowArtifacts DEF ArtifactsInv
<1>7. CASE UNCHANGED vars
  <2>1. UNCHANGED <<programs, prog, rows, runDir, cand, step>>
    BY <1>7 DEF vars, current, files, summaries, results
  <2> QED BY <2>1, NoRowArtifacts DEF ArtifactsInv
<1> QED BY <1>1, <1>2, <1>3, <1>4, <1>5, <1>6, <1>7 DEF Next

\* The run directory keeps what each scored row was scored on, for
\* harnesses of any length, as long as no other program has its name.
THEOREM ArtifactsKept == Spec => []ArtifactsMatchRows
<1>1. Init => ArtifactsInv
  BY DEF Init, ArtifactsInv
<1>2. EvaluateInv /\ ArtifactsInv /\ [Next]_vars => ArtifactsInv'
  BY StepArtifacts
<1>3. ArtifactsInv => ArtifactsMatchRows
  BY DEF ArtifactsInv, ArtifactsMatchRows
<1> QED BY <1>1, <1>2, <1>3, EvaluationInvariant, PTL DEF Spec

=============================================================================
