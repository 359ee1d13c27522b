-------------------------- MODULE ValidationProofs --------------------------
(***************************************************************************)
(* The safety of a validation, for any number of polls.                    *)
(***************************************************************************)
EXTENDS Validation, TLAPS

LEMMA InitEstablishesInv == Init => ValidationInv
<1> SUFFICES ASSUME Init PROVE ValidationInv
  OBVIOUS
<1>1. TypeOK
  <2>1. sentinel \in BOOLEAN /\ signalled \in BOOLEAN
    BY DEF Init
  <2> QED
    BY <2>1, PollAssumption DEF Init, TypeOK, Commands, ReplayStates
<1>2. SnapshotAfterTrace /\ NoReplayForgotten
  BY DEF Init, SnapshotAfterTrace, NoReplayForgotten
<1> QED
  BY <1>1, <1>2, PollAssumption DEF Init, ValidationInv

LEMMA StepKeepsInv == ValidationInv /\ [Next]_vars => ValidationInv'
<1> SUFFICES ASSUME ValidationInv, [Next]_vars PROVE ValidationInv'
  OBVIOUS
<1> USE PollAssumption, SentinelAssumption
    DEF ValidationInv, TypeOK, Commands, ReplayStates, SnapshotAfterTrace,
        NoReplayForgotten, Exits, Proceeds, Keeps, Command, Test
<1>1. CASE RunProgram \/ SnapshotReal
  BY <1>1 DEF RunProgram, SnapshotReal
<1>2. CASE RemoveSentinel
  BY <1>2 DEF RemoveSentinel
<1>3. CASE StartReplay
  BY <1>3 DEF StartReplay
<1>4. CASE PollHit
  BY <1>4 DEF PollHit
<1>5. CASE PollMiss
  BY <1>5 DEF PollMiss
<1>6. CASE Check
  BY <1>6 DEF Check
<1>7. CASE KillReplay
  BY <1>7 DEF KillReplay
<1>8. CASE SnapshotReplay
  BY <1>8 DEF SnapshotReplay
<1>9. CASE Wait
  BY <1>9 DEF Wait
<1>10. CASE Cleanup
  BY <1>10 DEF Cleanup
<1>11. CASE Compare
  BY <1>11 DEF Compare
<1>12. CASE ReplayDies
  BY <1>12 DEF ReplayDies, scriptVars
<1>13. CASE ReplayFinishes
  BY <1>13 DEF ReplayFinishes, scriptVars
<1>14. CASE ReplayExits
  BY <1>14 DEF ReplayExits, scriptVars
<1>15. CASE SignalEndsReplay
  BY <1>15 DEF SignalEndsReplay, scriptVars
<1>16. CASE Over \/ UNCHANGED vars
  BY <1>16 DEF Over, vars, scriptVars
<1> QED
  BY <1>1, <1>2, <1>3, <1>4, <1>5, <1>6, <1>7, <1>8, <1>9, <1>10, <1>11,
     <1>12, <1>13, <1>14, <1>15, <1>16 DEF Next, Script

(* While run_validation.sh polls, a sentinel is this run's replayer's, and *)
(* the script goes on only from one: for any number of polls.              *)
THEOREM ValidationInvariant == Spec => []ValidationInv
BY InitEstablishesInv, StepKeepsInv, PTL DEF Spec

(* The snapshot that is compared is of the driver after this run's replay, *)
(* whatever an earlier run left behind and however late the sentinel is.   *)
THEOREM ValidationSafe == Spec => []SnapshotAfterTrace
<1>1. ValidationInv => SnapshotAfterTrace
  BY DEF ValidationInv
<1> QED
  BY <1>1, ValidationInvariant, PTL

(* A replayer that outlives run_validation.sh with ioctls still to issue   *)
(* has been sent SIGTERM, and exit status 0 means that the replayer was    *)
(* waited for: for any number of polls.                                    *)
THEOREM ReplayNotForgotten == Spec => []NoReplayForgotten
<1>1. ValidationInv => NoReplayForgotten
  BY DEF ValidationInv
<1> QED
  BY <1>1, ValidationInvariant, PTL
=============================================================================
