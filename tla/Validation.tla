----------------------------- MODULE Validation -----------------------------
(***************************************************************************)
(* validation/run_validation.sh with the end of replay/replay.c: a script  *)
(* that starts a replay in the background, learns that it is over from a   *)
(* sentinel file, snapshots the driver and compares.  Under set -e a       *)
(* command that fails ends the script.                                     *)
(***************************************************************************)
EXTENDS Naturals

CONSTANTS
    NumPolls,      \* how often the script looks for the sentinel: 100
    SentinelHere   \* the capture lies in a directory of the project root,
                   \* so that replay.c writes the file the script looks for

ASSUME PollAssumption == NumPolls \in Nat \ {0}
ASSUME SentinelAssumption == SentinelHere \in BOOLEAN

VARIABLES
    script,      \* the script's next command, or "exited"
    status,      \* its exit status, once it exited
    polls,       \* how many looks for the sentinel failed
    sentinel,    \* replay.ready exists
    replay,      \* the replayer: "none", "running", "finished" (its trace is
                 \* replayed and the sentinel was tried), "exited"
    signalled,   \* the script has sent it SIGTERM
    replayExit,  \* its exit status, once it exited
    snapshotOf   \* what the replayer was when the snapshot was taken

scriptVars == <<script, status, polls, snapshotOf>>
vars       == <<scriptVars, sentinel, replay, signalled, replayExit>>

Commands == {"program", "snapshot_real", "remove", "start", "poll", "check", "kill",
             "snapshot_replay", "wait", "cleanup", "compare", "exited"}
ReplayStates == {"none", "running", "finished", "exited"}

Init ==
    /\ script = "program" /\ status = 0
    /\ polls = 0
    /\ sentinel \in BOOLEAN    \* an earlier run may have left it
    /\ replay = "none" /\ signalled = FALSE /\ replayExit = 0
    /\ snapshotOf = "none"
-----------------------------------------------------------------------------
Exits(code) == script' = "exited" /\ status' = code
Proceeds(to) == script' = to /\ UNCHANGED status
Keeps == UNCHANGED <<polls, snapshotOf, sentinel, replay, signalled, replayExit>>

(* A command that succeeds, or fails and ends the script; a test.          *)
Command(at, next) == script = at /\ (Proceeds(next) \/ Exits(1)) /\ Keeps
Test(at, condition, next) == script = at /\ condition /\ Proceeds(next) /\ Keeps

RunProgram == Command("program", "snapshot_real")
SnapshotReal == Command("snapshot_real", "remove")

(* Mutant: a sentinel of an earlier run stays.                             *)
KeepSentinel == Test("remove", TRUE, "start")

RemoveSentinel ==
    /\ script = "remove" /\ Proceeds("start")
    /\ sentinel' = FALSE
    /\ UNCHANGED <<polls, snapshotOf, replay, signalled, replayExit>>

StartReplay ==
    /\ script = "start" /\ Proceeds("poll")
    /\ replay' = "running"
    /\ UNCHANGED <<polls, snapshotOf, sentinel, signalled, replayExit>>

PollHit == Test("poll", sentinel, "check")

(* Mutant: the loop has no bound.                                          *)
PollMissForever == Test("poll", ~sentinel, "poll")

(* Each failed look is followed by a sleep; after the last, the loop ends. *)
PollMiss ==
    /\ script = "poll" /\ ~sentinel
    /\ polls' = polls + 1
    /\ Proceeds(IF polls + 1 = NumPolls THEN "check" ELSE "poll")
    /\ UNCHANGED <<snapshotOf, sentinel, replay, signalled, replayExit>>

(* The file is looked for once more: it may have come during the last      *)
(* sleep.                                                                  *)
Check == Test("check", sentinel, "snapshot_replay") \/ Test("check", ~sentinel, "kill")

(* Mutant: the script gives up without telling the replayer to end.        *)
LeaveReplay == script = "kill" /\ Exits(1) /\ Keeps

(* kill ... || true, then exit 1: the signal is posted, and nothing waits  *)
(* for the replayer to end of it.                                          *)
KillReplay ==
    /\ script = "kill" /\ Exits(1)
    /\ signalled' = TRUE
    /\ UNCHANGED <<polls, snapshotOf, sentinel, replay, replayExit>>

SnapshotReplay ==
    /\ script = "snapshot_replay"
    /\ \/ snapshotOf' = replay /\ Proceeds("wait")
       \/ UNCHANGED snapshotOf /\ Exits(1)
    /\ UNCHANGED <<polls, sentinel, replay, signalled, replayExit>>

Wait == Test("wait", replay = "exited", "cleanup")

Cleanup ==
    /\ script = "cleanup" /\ Proceeds("compare")
    /\ sentinel' = FALSE
    /\ UNCHANGED <<polls, snapshotOf, replay, signalled, replayExit>>

(* compare_snapshots.py decides the script's status; the replayer's own    *)
(* status only makes a warning.                                            *)
Compare == script = "compare" /\ (\E code \in {0, 1} : Exits(code)) /\ Keeps
-----------------------------------------------------------------------------
(* The capture cannot be read, memory is short, the replayer is killed.    *)
ReplayDies ==
    /\ replay = "running"
    /\ replay' = "exited" /\ replayExit' = 1
    /\ UNCHANGED <<scriptVars, sentinel, signalled>>

(* The trace is replayed; the sentinel is written if it can be.            *)
ReplayFinishes ==
    /\ replay = "running"
    /\ replay' = "finished"
    /\ sentinel' \in {sentinel, sentinel \/ SentinelHere}
    /\ UNCHANGED <<scriptVars, signalled, replayExit>>

(* main returns right after, whether or not anyone has looked.             *)
ReplayExits ==
    /\ replay = "finished"
    /\ replay' = "exited" /\ replayExit' \in {0, 1}
    /\ UNCHANGED <<scriptVars, sentinel, signalled>>

(* SIGTERM takes effect when the process is next in user mode, which a     *)
(* replayer inside an ioctl may not be for a long time, or ever.           *)
SignalEndsReplay ==
    /\ signalled /\ replay \in {"running", "finished"}
    /\ replay' = "exited" /\ replayExit' = 1
    /\ UNCHANGED <<scriptVars, sentinel, signalled>>

Script ==
    \/ RunProgram \/ SnapshotReal \/ RemoveSentinel \/ StartReplay
    \/ PollHit \/ PollMiss \/ Check \/ KillReplay
    \/ SnapshotReplay \/ Wait \/ Cleanup \/ Compare

Over == script = "exited" /\ UNCHANGED vars

Next ==
    Script \/ ReplayDies \/ ReplayFinishes \/ ReplayExits \/ SignalEndsReplay \/ Over

Spec == Init /\ [][Next]_vars

(* The script goes on and a replayer that has finished exits; one that is  *)
(* still replaying may hang in an ioctl for ever, SIGTERM or not.          *)
FairSpec == Spec /\ WF_vars(Script) /\ WF_vars(ReplayExits)
-----------------------------------------------------------------------------
(* What is compared is the driver after this run's replay of the whole     *)
(* trace: a sentinel left by an earlier run is never taken for it.         *)
SnapshotAfterTrace == snapshotOf \in {"none", "finished", "exited"}

(* A replayer that is still issuing ioctls after the script is over has    *)
(* been told to end, and a script that reports success has seen its        *)
(* replayer exit.                                                          *)
NoReplayForgotten ==
    script = "exited" => /\ replay = "running" => signalled
                         /\ status = 0 => replay = "exited"

(* The script ends even if the replayer hangs.                             *)
ScriptEnds == <>(script = "exited")

(* run_validation.sh:6: "Run replay (kept alive until snapshotted)".       *)
AliveWhenSnapshotted == snapshotOf \in {"none", "running", "finished"}

TypeOK ==
    /\ script \in Commands /\ status \in {0, 1}
    /\ polls \in 0..NumPolls /\ sentinel \in BOOLEAN
    /\ replay \in ReplayStates /\ signalled \in BOOLEAN /\ replayExit \in {0, 1}
    /\ snapshotOf \in ReplayStates

(* Why these hold: while the script polls, a sentinel can only be this     *)
(* replayer's, the script goes past the check only if it is there, and it  *)
(* goes past the wait only once the replayer has exited.                   *)
ValidationInv ==
    /\ TypeOK
    /\ script \in {"program", "snapshot_real", "remove", "start"}
         => replay = "none" /\ polls = 0
    /\ script \in {"start", "poll", "check"} /\ sentinel => replay \in {"finished", "exited"}
    /\ script \in {"snapshot_replay", "wait", "cleanup", "compare"}
         => replay \in {"finished", "exited"}
    /\ script \in {"cleanup", "compare"} => replay = "exited"
    /\ script = "poll" => polls < NumPolls
    /\ SnapshotAfterTrace /\ NoReplayForgotten
=============================================================================
