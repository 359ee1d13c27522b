# A TLA+ model of the CUDA ioctl capture and replay pipeline

This directory specifies, model-checks and in part proves the program in
`src/cuda-ioctl-map`: it records every ioctl a CUDA program makes to the NVIDIA
driver, learns which bytes of the arguments are handles and file descriptors,
and reissues the calls without CUDA, translating those bytes to live values.
Whether a replay reaches what the capture reached is decided by a chain of
small programs that share only files, so most of what can go wrong lies between
them: fd numbers and handles are reused, closes are not recorded, a program is
killed, an old file is taken for a new one.

Contents: [inventory](#inventory) ·
[modules](#modules-and-the-code-they-model) · [runs](#runs) ·
[fairness](#fairness) · [proofs](#proofs) · [findings](#findings) ·
[assumptions and omissions](#assumptions-and-omissions) · [plan](#plan) ·
[running it](#running-it)

## Inventory

Paths are below `src/cuda-ioctl-map`.

| component | state | operations | interacts through | hard behaviour | correct when |
|---|---|---|---|---|---|
| `intercept/nv_sniff.c`, the LD_PRELOAD interposer | `nv_fd_active`, `nv_fd_path` (fds below `MAX_FDS`), one mutex, `seq_counter`, the stdio buffer of the log | hooked `open`, `openat`, `close`, `ioctl`; constructor, destructor | the traced program's threads; writes `sniffed/<stem>.jsonl` | threads between the kernel's step and the table's or the log's; kills; table limit | its tables agree with the kernel, a returned call is on disk, the log names the right file |
| `replay/replay.py`, `replay/handle_map.py` | fd map, handle map, schemas, four counters | load, one record at a time: open, close, ioctl, skip; summary and exit code | reads the trace and `handle_offsets.json`; opens and ioctls the driver | reuse of fds and handles, missing closes, failures in the middle | each call reaches the counterpart of what it reached in the capture; the summary and exit code mean what they say |
| `replay/replay.c` | the same in fixed tables: `fd_map[MAX_FD_MAP]`, `schemas[MAX_SCHEMAS]`, the hash table | the same, one line at a time; sentinel file at the end | the same, and `replay.ready` for the validation script | tables at their limits, ignored closes, stale entries, unreadable lines | as `replay.py`, as long as the tables suffice |
| `replay/handle_map.h` | `HM_CAPACITY` slots, a count | `hm_init`, `hm_put`, `hm_get` | called by `replay.c` | collisions, wrap-around, a full table, reserved keys, 32-bit hash | it behaves as a bounded map |
| `validation/run_validation.sh` with `tools/snapshot_driver_state.sh`, `tools/compare_snapshots.py` | its place under `set -e`, the sentinel, the background replayer | run, snapshot, start, poll, kill, wait, compare | the sentinel file, signals, exit codes | time-out against a late sentinel, an old sentinel, a replayer that dies or hangs | it compares the state after this run's replay, ends, and leaves no replayer that it has not told to end |
| `optimizer/evaluate.py`, `metrics.py`, `gepa_runner.py`, `run.sh -c` | the rows, the score, `all_ok`; `sniffed/` and the run directory | per program: two captures, inference, two replays, gate, score | runs `run.sh`, `find_handle_offsets.py`, `replay.py`; GEPA maximises its score | one step of several failing, stale traces, name collisions, time-outs | exit 0 is earned by every program; failure never wins; artifacts are those that were scored |
| `tools/find_handle_offsets.py` | four statistics per (request, offset) | pair two traces record by record, vote, write | its output is the replayers' schema | pairs that slip, words that look like handles, thresholds, ties | the schema names the driver's handle offsets |
| `parse_trace.py`, `annotate_static.py` | live fd map, codes seen before | strace line to record; marking of new codes; table lookup | read strace logs, write `parsed/`, `annotated/` | several traced threads and processes in one log | an ioctl is attributed to the device its fd names |
| `build_schema.py`, `generate_report.py` | per-step sets and counts | deltas between ladder steps, tiers, the report's cells | read `annotated/` and the reproducibility reports | steps traced, parsed and annotated at different times | deltas, tables and counts agree with the logs and with each other |
| `check_reproducibility.py` | one counter per run | trace a program several times, compare the counters | runs strace, writes a report that the report generator reads | a run that fails, a code that is missing from some runs | what is called stable was in every run |
| `intercept/collect.sh`, `tools/collect_two_runs.sh` | none of their own | run programs in a row | write `sniffed/`, `baseline/` | partial failure | every listed trace exists |
| `programs/` and the recorded data | – | – | – | – | inputs and outputs, not the tool |

How they interact: a program runs under **nv_sniff** and leaves a trace; two
traces of a program give **find_handle_offsets** a schema; **replay** (either
one) reads a trace and a schema and drives the driver; **run_validation** runs
capture and replay and compares the driver's state; **evaluate** runs the whole
chain for several programs and hands GEPA one number.

`PROJECT.json` lists the components with what is modelled of each, and the
hazards, each at the line where it bites with the properties that watch it.

## Modules and the code they model

`PROJECT.json` maps each definition to the lines it stands for. The composition:

```
TraceCapture ──> Replay ──> ReplayInv ──> ReplayProofs, MCReplay
                    └─────> ReplayC ──> ReplayCInv ──> ReplayProofs, MCReplayC
HandleMapSpec <── (refined by) HandleTable ──> HandleTableProofs, MCHandleTable
Sniffer ──> SnifferProofs, MCSniffer          Validation ──> ValidationProofs
ParseTrace ──> Ladder ──> LadderProofs, MCLadder
FindOffsets ──> FindOffsetsProofs, MCFindOffsets
Evaluate ──> EvaluateProofs, MCEvaluate       FoldProofs ──> LadderProofs, FindOffsetsProofs
```

**TraceCapture** – a captured program, the driver and the records. A call and
its record are one step here. The state the code has is `trace` and `torn` (the
last line may be cut off); the state the model adds is `capFile` and `capObj`
(what the kernel and the driver have open) and `meant`, which keeps beside each
record what the call really reached: the `open` record of the file, and the
records that created the objects its handles name. An argument is a function
from word offsets to values; `Layout` says which offsets the driver takes for
handles, fds and results, which no program of the pipeline knows. `CapClose`
leaves no record, as in `nv_sniff.c`; with `CloseLogged` it may leave one, which
`replay.py` and `check_reproducibility.py` accept.

**Replay** – `replay.py` with `handle_map.py`. `fdMap` and `handleMap` are the
code's, `Schema` the contents of `handle_offsets.json`, which may name offsets
beyond an argument and lack requests. Each branch of the loop is an action:
`ReplayFailedOpen`, `ReplayOpen`, `ReplayOpenError`, `ReplayOpenDenied` (exit 1),
`ReplayClose` (closes the live fd, keeps the entry), `ReplaySkip` (unmapped fd:
not counted as failed), `ReplayIoctl` and `ReplayIoctlFails` (patch handles,
patch fds and issue). The output handle is learned when the reissued call
returns 0, whatever the captured one returned, and only then. `Load` refuses a
torn trace whole. `liveFile`, `liveObj` are the live kernel and driver, which may
fail any call and hand out any free number; `reached` is the counterpart of
`meant`: what each reissued call reached, in terms of the same records.

**ReplayC** – `replay.c` on the same state: fds not below `MAX_FD_MAP` are not
stored (`MappedFd`), new handles are refused when the table is full
(`HandleCapacity`), `load_schemas` enters a request twice when its name looks
like a key, stops at `MaxSchemas` and keeps the first `MaxHandleOffs` handle and
fd offsets of a request (`Kept`), close records are passed over, a failed
open keeps the old entry, the output is looked for after a failed call too, and
a torn last line may be passed over, skipped,
failed or issued. `ReplayInv` and `ReplayCInv` hold the two replayers' inductive
invariants.

**HandleTable**, **HandleMapSpec** – the open-addressing table with its
multiplicative hash, arithmetic modulo the word size, linear probing, the
sentinel and the reserved keys. `HandleMapSpec` is the promise: a map of at most
`Capacity` keys in which the latest value wins, a full map refuses new keys
only, and a lookup answers the stored value. `RefinesMap` instantiates it with
the mapping `entries` (the set of occupied slots' pairs).

**Sniffer** – `nv_sniff.c` with several threads. A call is split where another
thread can run: `RealOpen` (the kernel assigns the fd) → `track_fd` (lock) →
`LogWrite`, `LogFlush` (lock); `untrack_fd` → `RealClose`; `IoctlCheck` →
`RealIoctl` → `LogWrite`, `LogFlush`. The number a thread closed can be another
thread's as soon as the kernel has it back. `log_fp` is open, closed or was never
opened (`LogOff` is an open's return without a log); `IoctlNoMemory` is an ioctl
that is issued and not logged because its snapshots could not be allocated.
`nv_sniff_fini` is the destructor: it runs in a thread that calls `exit`, without
the lock, while the others may be anywhere in a call. `buffer` is what stdio
holds and a `Kill` loses; `Ends` is the end of the process, by that exit or by
the crash of a thread that writes to the log the destructor has closed. `calls`
and `returned` are history.

**FindOffsets** – `find_handle_offsets.py`. One step is one pair of records:
`PairSameCall` while the two captures are still doing the same (`aligned`),
`PairOtherCall` after they have slipped (`Diverge`) and nothing notices as the
requests happen to agree, `Write` when the lists end or two requests differ.
`Compare` is the loop's body: candidates (differ, none of both zero, no lower
half of a pointer), and the words that were zero and were written, whose dict
keeps the order in which they came (`order`), ascending within a record
(`Ascending`) as the loop is. `handle_offsets` are the thresholds;
`output_handle_offset` is the loop over the dict, a fold that keeps the first of
the highest scores. What a word
really is (`Layout`) only the model knows; `WordsOf` says what two runs may hold
in a word of each kind, by one or two values of each case that the tool tells
apart: zero or not, the same or not, and for the word after a candidate, within
the pointer filter's window or not. A pointer may be null, lie in the window
0x7e00–0x7fff (libraries, mappings, stacks) or outside it: the heap and the data
of a program that is loaded anywhere lie at 0x55…, and the filter lets their
lower halves vote. `told` and `misled` are history: how often a handle differed
where the filter does not hide it, and how often a word that is no handle looked
like one, because of such a pointer (`Misleading`) or because two different
calls were compared (`Unrelated`). What comes out has the shape of Replay's
`Schema`.

**ParseTrace** – the traced processes, strace and `parse_trace.py`'s pass.
`Openat`, `Close`, `Ioctl`, `Fork` are what the processes do; the log gets a line
for each, whole, or cut in two if another thread or process may have stopped
while the call ran. `parse_lines` is the code's loop as a fold over the log with
its state `fd_map`, `fd_snap`, `ioctls`; `strip_pid` takes the process away.

**Ladder** – the tools around the parser, which share only files and are run in
any order: `TraceStep`, `TraceLine`, `StepTraced` record `traces/<step>.log`;
`parse(argv)` marks new codes against the log before in one command;
`annotate(s)` stores; `CheckStep`, `RunTraced`, `StraceFails` are a
reproducibility check, in which a run that strace could not make reads the log
of an earlier check, or ends the check without a report. `build_schema.py` and
`generate_report.py` are functions of what is annotated when they run:
`new_codes`, `new_ioctls`, `uniq`, `event_delta`, `net_event_delta`,
`confidence_summary`, `needs_review_count`, `repro_cell`, `repro_status`,
`freq_status`. The rows of a table are the
positions of the ioctls that they are written from (`new_ioctls`), so that a row
too many and a row too few can both be seen.

**Validation** – the script's commands in order, each of which may fail and end
the script (`set -e`), against a replayer that runs, dies, hangs, or finishes,
writes the sentinel and exits. `KillReplay` only posts the signal and exits, as
`kill` does; `SignalEndsReplay` is the kernel's delivery of it, which comes when
the replayer is next in user mode. So a replayer that hangs in an ioctl may
outlive the script, and `NoReplayForgotten` says no more than that it has been
told to end.

**Evaluate** – the loop of `evaluate_harness`. A trace is known by the capture
that wrote it, so that an old one can be told from a new one; `TracesLeft` are
the outcomes of `run.sh:97`, which ignores the program's failure. `AddRow` is
what all the ways to finish a program have in common: row, score, `all_ok`.
Scores are in ten-thousandths. `GepaScoreTimesN` is what `gepa_runner.py`
returns, times the number of programs to stay in the integers.

Definitions commented "Mutant" or "a plausible bug" are not part of a
specification: each is a wrong version of the definition after it, and the
property that must notice it is in `PROJECT.json`.

## Runs

| run | what it asks | bounds | distinct states |
|---|---|---|---|
| `ReplayTraces` | Does every reissued call reach its counterpart (`CounterpartUntilDivergence`), for the reasons the proof gives (`IInv`), do the counters add up (`CountsAddUp`), what is a clean exit worth (`CleanExitIsFaithful`)? | 2 fds, 2 handles, 2 requests (one allocates under an optional parent, one frees and carries an fd), 5 records, closes logged or not | 1.57 M |
| `FindOffsets` | Is a word that does not vary taken for a handle only if it misled often enough (`OnlyVaryingWords`), is each handle that could be told found (`HandlesFound`), and no result passed over (`OutputFound`), for the reasons the proof gives (`FindInv`)? | 4 requests with up to 3 words of 8 kinds, 4 pairs, of the same calls or not, thresholds 2 and 70 % | 0.25 M |
| `Ladder` | Are ioctls labelled right (`LabelsAreRight`), do deltas add up (`DeltasAddUp`), do the tables of new and of flagged codes match their numbers (`NewIoctlsListed`, `FlaggedAreReviewed`), does the reproducibility report tell what the logs of its runs say (`ReportTellsOfRuns`), for the reasons the proof gives (`LadderInv`)? | 3 steps or a check of 2 runs, 2 codes of which one is unknown to the table, 2 processes, 1 fd, 5 lines in all | 1.85 M |
| `LadderThreads` | *violated*: with `strace -f`, reuse of an fd cannot mislabel an ioctl | 1 process with threads, 1 code | – |
| `HandleTable` | Does the table keep its structure (`TableInv`) and refine the map (`RefinesMap`)? | 4 slots, 4-bit words, 8 keys: three that collide, one that wraps, two reserved, more than fit | 8 k |
| `Sniffer` | Do the tables match the kernel (`TablesMatchKernel`, by `SnifferInv`), is the log complete (`ReturnedCallsOnDisk`), ordered (`CausalOrder`) and attributable (`LogNamesFile`), for the reasons the proof gives (`LogInv`), does every call return (`CallsReturn`)? | 2 threads, 2 fds of which 1 tracked, a device and another path, 4 calls, an exit and a kill at any point | 0.33 M |
| `Validation` | Is the snapshot taken after this run's replay (`SnapshotAfterTrace`), is no replayer left that was not told to end (`NoReplayForgotten`), for the reasons the proof gives (`ValidationInv`), does the script end (`ScriptEnds`)? | 20 polls | 800 |
| `ValidationAlive` | *violated*: the replayer is alive when snapshotted | 3 polls | – |
| `ReplayCTables` | Do `replay.c`'s ioctls reach their counterparts where its tables suffice (`IoctlsReachCounterparts`), because the tables lead there (`TablesFollow`)? | 2 fds, 2 handles, requests that allocate and that carry an fd, 5 records, closes logged or not; 1 mapped fd, room for 1 handle, a schema that just fits, 1 offset of each kind kept per request | 5.05 M |
| `ReplayCDownstream` | *violated*: ioctls after a failed open fail | 3 records | – |
| `Evaluate` | Is exit 0 earned by every program (`ExitZeroEarned`), can a failing harness win (`FailureNeverWins`), do the artifacts match the rows (`ArtifactsMatchRows`), is `EvaluateInv` invariant? | 2 programs, equal or different names, 1 skip, 2 common requests | 0.64 M |
| `EvaluateStale` | *violated*: a scored pair is two captures of the program | the same | – |

Why these bounds are enough for the cases that matter:

- A stale mapping needs an fd or handle that is reused: open, (unlogged) close,
  open again and an ioctl are 3 records; allocate, free, allocate, use with the
  open before are 5. Two fds and two handles let the live numbers differ from
  the captured ones, and cross over. The proofs cover any number of each.
- The table's interesting cases are a probe that wraps, one that passes over a
  foreign key, and a full table: four slots have them all. The proof covers the
  real capacity.
- An fd race needs two threads and one number; the second fd is one that the
  tables do not reach. Four calls hold open, close and reopen by the other
  thread and an ioctl on the new file, with the exit of either beside them. The
  proofs cover any number of threads, fds and calls; that calls return, which is
  only checked, is about two calls and one mutex.
- The code's thresholds are 2 records and 5 %, and the share only matters from 41
  records on. With 70 % it matters from 3 records on, so that four pairs hold
  each way to meet one threshold and miss the other; the proof covers any.
- A code that vanishes and comes back needs three steps, a mark that is out of
  date one step that is traced again. Two codes are enough for one that is new
  beside one that is not, and for the table to know one of them. A run and the
  one before it are all that a check compares. `MaxLines` is shared by all logs;
  each takes one line for itself, so that three logs of one ioctl each, or one
  of an open, a close, an open and an ioctl, are within it.
- The validation script only counts its polls; 20 stand for the 100 of the
  code, and the proof covers any number.
- Programs of a harness only meet in the shared score, the trace directory and
  the run directory: two do so in every way.

`ReplayTraces` and the violation run of `ReplayC` use symmetry in fds and
handles; the constants that break it (`MappedFd`) leave only the handles
symmetric in `ReplayCTables`. The runs that check liveness use none.

A state in which TLC finds no step is an error in all runs but `Evaluate`'s;
there the evaluation ends, and so does its behaviour.

## Fairness

- `Sniffer!FairSpec`: weak fairness of `Continue(t)` for each thread. A thread
  inside a hook waits only for the mutex, whose holders do a bounded amount of
  work, and the real calls return (`NVIDIA` ioctls that block for ever are
  excluded). `Continue` includes `Ends`: a process whose destructors ran ends,
  and one that writes to a closed stream does not go on. The program is not
  obliged to make another call, to exit or to be killed.
- `Validation!FairSpec`: weak fairness of the script, whose commands return,
  and of `ReplayExits`, as `main` returns right after the sentinel. Nothing is
  assumed of a replayer that is still issuing ioctls: it may hang, which is
  what the time-out is for, and no more of the signal it is then sent.

The other modules check safety only and assume no fairness.

## Proofs

All theorems are checked by TLAPS with no step left out.

| theorem | says | for every |
|---|---|---|
| `ReplayProofs!TypeCorrect` | `Spec => []TypeOK` | set of fds, handles, requests; layout; schema; trace length |
| `ReplayProofs!ReplayFaithful` | with `SchemaComplete`, `Spec => []CounterpartUntilDivergence` | the same |
| `ReplayProofs!ReplayInvariant` | with `SchemaComplete`, `Spec => []IInv` | the same |
| `ReplayProofs!SummaryAddsUp` | `Spec => []CountsAddUp` | the same |
| `ReplayProofs!CleanExit` | with `SchemaComplete`, `Spec => []CleanExitIsFaithful` | the same |
| `ReplayProofs!CTypeCorrect` | `CSpec => []TypeOK` | the same; mapped fds, room for handles, schema file, limits on entries and offsets |
| `ReplayProofs!CTablesFollow`, `CReplayFaithful` | with `SchemaComplete`, `CSpec => []TablesFollow`, `CSpec => []IoctlsReachCounterparts` | the same |
| `HandleTableProofs!TableCorrect` | `Spec => []TableInv` | capacity, word size, multiplier |
| `HandleTableProofs!TableIsMap` | `Spec => RefinesMap` | the same |
| `SnifferProofs!SnifferIsConsistent`, `TypesHold`, `TablesAlwaysMatch` | `Spec => []SnifferInv`, `Spec => []TypeOK`, `Spec => []TablesMatchKernel` | number of threads, fds, tracked fds and calls; paths |
| `SnifferProofs!LogIsRight`, `ReturnedCallsAreOnDisk`, `LogIsCausal`, `LogAlwaysNamesFile` | `Spec => []LogInv`, `[]ReturnedCallsOnDisk`, `[]CausalOrder`, `[]LogNamesFile` | the same |
| `FindOffsetsProofs!FindInvariant`, `TypesHold` | `Spec => []FindInv`, `Spec => []TypeOK` | requests, layouts, thresholds, number of pairs |
| `FindOffsetsProofs!NoConstantIsAHandle`, `ToldHandlesAreFound`, `OutputIsFound` | `Spec => []OnlyVaryingWords`, `Spec => []HandlesFound`, `Spec => []OutputFound` | the same |
| `LadderProofs!LadderInvariant`, `TypesHold` | `Spec => []LadderInv`, `Spec => []TypeOK` | steps, codes, table, runs of a check; processes, fds, devices; lines |
| `LadderProofs!LabelsRight`, `ReportIsOfRuns` | `Spec => []LabelsAreRight`, `Spec => []ReportTellsOfRuns` | the same |
| `LadderProofs!NewRowsListed`, `DeltasRight`, `FlaggedRight` | `Spec => []NewIoctlsListed`, `Spec => []DeltasAddUp`, `Spec => []FlaggedAreReviewed` | the same |
| `ValidationProofs!ValidationInvariant`, `ValidationSafe`, `ReplayNotForgotten` | `Spec => []ValidationInv`, `Spec => []SnapshotAfterTrace`, `Spec => []NoReplayForgotten` | number of polls, place of the capture |
| `EvaluateProofs!EvaluationInvariant`, `TypesHold`, `ExitCodeEarned`, `FailureLoses`, `ArtifactsKept` | `Spec => []EvaluateInv`, `[]TypeOK`, `[]ExitZeroEarned`, `[]FailureNeverWins`, `[]ArtifactsMatchRows` | stems, length of a harness, bounds on skips and common requests, allowed regression |

**Replay.** The property is not inductive: that a call reaches its counterpart
now says nothing about the maps that the next call will use. The invariant
`IInv` (module ReplayInv) makes the missing link with two functions of the trace
alone: `NamesFile(t, f, i, p)`, record `i` opened the file that captured fd `f`
names just before record `p`, and `NamesObject`, the same for handles.
`CaptureInv` says that the kernel and driver of the capture were as these
functions tell, so that each record's meaning can be read off the trace;
`MapsInv` says that, while the outcomes agree, the replayer's maps lead from each
name to a live file or object created by the same record. Unlogged closes are
the reason for the shape: after one, `NamesFile` still holds of the old file
and the live fd is still open, but the program cannot use it, so nothing more is
needed. A step extends the trace or the replayed prefix by one record, so the
proof is one lemma about prefixes (`PrefixFile`, `PrefixObject`), one about what
a new record adds (`StepFile`, `StepObject`), one on what patching an argument
makes of it (`PatchedReaches`), and one step per action. TLC checks `IInv` in
`ReplayTraces`.

**The exit of replay.py.** The counts are cardinalities of two sets of records
that a step extends by its own record or not at all (`OneMore`). A clean exit
needs more than the end shows: `ExitInv` says that as long as nothing was
skipped, failed or refused, in the capture or in the replay, each record reached
exactly what its captured one did. Opens do by what the capture means by them
(`OpensMeant`), closes by `MapsInv`, and ioctls because they name the same
counterparts by `CounterpartUntilDivergence` and succeeded like them. One lemma
(`CleanStep`) serves all the actions that replay a record.

**ReplayC.** The same argument with less to stand on: the tables have limits,
and closes are ignored, so that the live file of a captured fd stays open until
its entry is overwritten. `TablesInv` therefore asks less than `MapsInv` (only
mapped fds, only handles that fit) and holds longer (a close whose outcome
would differ changes nothing). A handle that comes when the table is full is
lost for good, and which ones are lost depends on the order; `StoredInv` turns
this into counting: the table holds captured outputs only, so as long as there
have been no more of them than it has room for (`Fits`), all of them are in it.
`OutputsInv` says what makes an output a handle: an ioctl that failed has none to
learn, one that succeeded has one. What `load_schemas` keeps of a request may
lack offsets, when there are more than `MaxHandleOffs` of a kind, and never has
one too many (`KeptFewer`); `TablesSuffice` therefore asks that each offset the
driver uses of the records' requests is among those kept, and `FoundSchema`
shows that patching by what was kept is then as good as by the complete
schema. The lemmas on prefixes, records
and patched arguments are those of the Python replayer, and so the proofs are
in the same module. TLC checks `TablesFollow` in
`ReplayCTables`; the rest of `CInv` is its other invariant and what the replay.py
run checks of the shared capture.

**HandleTable.** `TableInv` says that keys are distinct, that no key's probe
sequence meets an empty slot before the key, and that the count is that of the
occupied slots. The lemmas establish that the probes of a key visit every slot
(`ProbesCover`), and where the loop stops (`StopSlotMeaning`). The refinement
uses that an occupied slot is found from its own key (`FoundIsStored`).

**Sniffer.** That the tables match speaks only of fds the program holds, and the
steps that could break it are those of fds that no one holds yet or any more.
`SnifferInv` adds who has them: at each moment an fd is free in the kernel and
inactive in the table (`FreeInv`), in the hands of exactly one thread that
opens or closes it (`OwnerInv`), or held. `OthersGoOn` and `OwnersGoOn` say what
a step of one thread leaves alone of the others; `NoFdMoves` covers the actions
after which the same fds are in the same hands, `HandOut` those by which an fd
passes to the program; the rest is one lemma per action. The property and the
proof need no mutex: that the table's sections are single steps, and that
nobody else touches a number in a thread's hands, is enough.

The log does need it. `LogInv` is about `Log`, the records on disk followed by
those in the buffer. `HistoryInv` ties a call in progress to its thread and to
its file; `BufferInv` says that the buffer is empty but for the one record of the
thread that holds the mutex, whence what the lock is for; `RecordsInv` that the
call of each record has returned or is being flushed, that no call has two, and
that what must be recorded is before its call returns; `NamesInv` that the last
open record of each device fd that is held, or whose open is being flushed, is
that of its file. A call can then begin on an fd only after the record that
names it, and a record can only be followed by those of calls that had not
returned when its own began. The invariant is conditional on the log being open
where the destructor breaks it, and unconditional where it must not.

**Folds.** `parse_lines`, `output_handle_offset` and the sums of deltas are folds
of the community modules: CHOOSE of a function with a recursive equation. That
there is one has to be proved before anything follows from it. FoldProofs does so
once. `SetInduction` is induction over the naturals, stated of a set instead of
an operator and got from the pigeonhole principle: were some number not in a set
that has 0 and is closed under adding one, adding one would map the set's
members below it one to one into those without 0. `FoldExists` builds the
function of a fold by cardinality; `SeqFoldExists` and `SeqFoldRuns` turn a fold
over a sequence into a run of states, one for each element, from which `ParseRun`
and `OutputRun` are read off.

**FindOffsets.** `VotesInv` says that a word that does not vary has a vote only
where it misled, that a handle has a vote for each time it could be told, and
that only words the driver writes are ever written; `CandidatesVary` is the case
analysis over the kinds of words for two records of the same call, pointers in
and out of the filter's window included, and of two different calls nothing is
needed but what a candidate is. None of it asks that the pairing has not
slipped: what a slip can do is counted in `misled`. `WrittenInv` orders the
three counters of an offset and ties the dict to one of them: it has each offset
that was ever written, once (`DistinctAppend`), and those that were written in
each record came with the first one, in ascending order. `OutputIsBest` is the
loop's invariant: what is kept is the first of the dict seen so far with the
highest score among those written often enough. A result written each time is
in the dict and often enough written, and no score exceeds the number of
records, so what is kept was written each time too, and is the lowest such.

**Ladder.** `LadderInv` adds to the types what ties the files to each other. For
the labels, `LabelsInv`: while the log is of one process and whole, the parser's
map after the last line is the kernel's table, seen through what is a device;
each line extends the run of the fold by one step (`ParseAppend`), and while
nothing has been cut, the processes that act are the one whose table it is
(`OneProcess`). For the reports, `RunsInv` (the runs that were counted are the
logs that are there) and `ReportsInv` (a report is that of the logs, unless a
check is making them anew): a check that ends early, for want of a log, can
have no report of an earlier one to contradict. What such a report then says is
one lemma (`ReportIsRight`): a code's count is the number of runs it was in, so
that a warning has a run with it and one without, whose counts differ. For the tables, `MarksInv`: of the ioctls with one code, at most the
first is marked as new, in what was parsed and in what was annotated since. The
other three properties are then about functions of the annotated files, in
whatever state these are: the rows of a table are as many as its codes because
rows are positions with different codes (`RowsAreCodes`), and all of them when
one command marked them against the steps they are compared with (`AllListed`);
deltas add up by `Telescope`, an induction over the steps that were built, in
which the step before is the greatest one below (`StepBefore`); the tiers
partition a step's codes (`TiersPartition`).

**Validation.** `ValidationInv` relates the script's place, the sentinel and the
replayer: after `rm -f replay.ready` and before the snapshot, a sentinel can only
be this replayer's, and after the `wait` the replayer has exited. That a replayer
which still runs was sent the signal needs that the script ends by no other way
once the replay has begun and before the sentinel was seen.

**Evaluate.** `ExitZeroEarned` speaks of the end, and what it needs was true when
each row was written: `EvaluateInv` keeps that `all_ok` and the sum speak for the
rows so far, that an ok row has its evidence, and that the captures kept so far
are whole. All ways to finish a program go through one lemma about `AddRow`
(`AddRowInv`); that an agreement ratio lies between 0 and 1 is a lemma of its own
(`AgreementBounds`). The artifacts need `ArtifactsInv`: a program without a
namesake is the only one that writes to its directory (`NoRowArtifacts`), and a
summary of the candidate exists only after the offsets were written beside the
pair they were inferred from.

Assumptions the proofs use are the named ones of the modules: `ValueAssumption`
(fds, handles and the empty value differ), `LayoutAssumption` (an argument's
handle, fd and output fields lie inside it and apart), `FreesAssumption`,
`CloseLoggedAssumption`, `MaxTraceAssumption` and the schema's; `HandleTable`'s on
capacity and word size; `ReplayC`'s on mapped fds, room for handles and the names
in the schema file, whose offsets are numbers in ascending order; `Sniffer`'s limits and disjoint paths; `FindOffsets`'s
finite layouts in which a pointer's lower half is followed by its upper half;
`Ladder`'s and `ParseTrace`'s that there is a step, a run and an fd, that the
table is of known codes and tiers, and that a missing file (`None`) is no file;
`Validation`'s on its two constants; `Evaluate`'s bounds. TLC evaluates them.
`ReplayFaithful`, `ReplayInvariant`, `CleanExit`, `CTablesFollow` and
`CReplayFaithful` have one hypothesis of their own, `SchemaComplete`: the inferred offsets are the driver's. It is the contract between `find_handle_offsets.py`
and the replayer; the instances satisfy it, and it is not claimed of the tool: `FindOffsets` says
what can be claimed, that handles told apart often enough are in the schema, and
that counters and upper halves of pointers may be there too.

Model-checked only: the liveness properties (`CallsReturn`, `ScriptEnds`), which
are out of the prover's reach. Every invariant that a passing run checks is also
proved.

## Findings

Each is a run that TLC finds violated, of a sentence in the repository.

- `parse_trace.py:5` says that reuse of an fd after a close cannot mislabel an
  ioctl, `parse_trace.py:9` that interleaved output is handled: a close whose
  line strace cut in two matches no pattern, and an ioctl on the file opened next
  gets the old device (`LadderThreads`). `traces/repro_cu_ctx_destroy_run3.log`
  holds such a close at line 957.
- `replay.c:406` says that ioctls on an fd whose open failed will fail too; the
  entry of an earlier open of that fd is still in the table, so they are issued
  on the older file (`ReplayCDownstream`).
- `run_validation.sh:6` says that the replay is kept alive until snapshotted; it
  exits after writing the sentinel (`ValidationAlive`).
- `optimizer/README.md:157` says that `run.sh` always writes the trace; when the
  program does not start, the old trace stays and is copied as both captures
  (`EvaluateStale`).

Disagreements that need no run: `replay.py:13` says that exit code 0 means that
all ioctls returned 0, and skipped ones returned nothing; what it is worth is
`CleanExitIsFaithful`. `generate_report.py:27` heads its table "not seen in any
previous step", and the table is of codes the step before does not have.
`find_handle_offsets.py:40` joins its two thresholds with "OR", and both must be
met (`:205` takes the larger); `:213` says "more than half" where it compares
with `>=`; `:20` and `:85` say that a pointer's upper half is told in both
buffers and from 0x7f00 on, and the code takes either buffer, and from 0x7e00 on;
and the abort after five mismatches (`:151`) is never reached, as the
first one ends the loop. `generate_report.py:57` prints
"Presence reproducibility ✓" of every step that was checked, beside rows with a
warning (`repro_status`); `generate_report.py:100` and
`check_reproducibility.py:153` head the list of unstable codes "present every
run", and a code that is missing from a run is in it, which `ReportTellsOfRuns`
says of every such code; and a row has ✓ for a code that no run of the check
made.

## Assumptions and omissions

About the traced program: it uses only handles that exist and fds of its own
(`Arguments`), closes device fds through `close()` and none that another of its
threads is using, duplicates none and does not fork under the interposer. A
write to a log that the destructor has closed is undefined in C and taken for a
crash. `Replay` reads traces in the order the driver saw the calls;
two threads' overlapping calls may be logged in the other order, which `Sniffer`
does not rule out (`CausalOrder` covers calls that do not overlap).

About what two captures hold: a handle or a counter is not zero in one and
nonzero in the other, a pointer is null in both records of a call or in neither,
and the words of a call that the program sets to a constant or a length are the
same in both (`WordsOf`, `SameCall`). Nothing is assumed of where pointers
point: `OnlyVaryingWords` leaves open that the lower half of one outside the
filter's window becomes a handle offset, and the schema that is checked in has
one, offset 16 of 0xC020464F (`intercept/handle_offsets.json:39`).

About the driver: a call succeeds only on an open file and existing objects, a
new object's handle names no other object, closing a file destroys what was
created through it. Everything else is its choice, including to refuse.

Abstracted: bytes to words at offsets, paths to the record that opened them,
request sizes and the 4096-byte clamp of a captured buffer, JSON syntax to
"parses or does not", log and report texts. In `Evaluate`, the inferred offsets
are known by the pair they came from, and run directories start empty.

How strace and the tables spell a request code is not modelled, so that a code of
the table that no trace can spell (`annotate_static.py` upper-cases the whole of
`0x...`) is a code the table lacks. Sequence numbers, `devices_touched` (from
`fd_snap`, which forgets a device whose fd was used for another), names and
descriptions, and the layout of the report appear in no property. The rates of
`check_reproducibility.py` are ratios of the counts in `Report`. Snapshots of
the driver's state are taken or fail, and compare equal or not: the
normalisation of their text in `compare_snapshots.py` is not modelled.

Not modelled, with the reason in `PROJECT.json`: the recorded data and the CUDA
programs; the collect scripts, which keep no state; GEPA and its language model;
`run.sh`'s replay modes, which only call `replay.py`. An evaluation runs alone:
a program of an earlier one whose capture timed out may still be writing its
trace, which would make the trace stale in the way `EvaluateStale` already shows.

## Plan

Done, in this order: TraceCapture and Replay (what the whole pipeline is for)
with the proof of faithfulness, HandleTable with its refinement proof, Sniffer,
Validation with its proof, ReplayC, Evaluate with its proofs; then FindOffsets
with its proofs, ParseTrace and Ladder, Sniffer's destructor and its failures
with the proof of the tables, and the proofs of the replayer's summary, exit code
and of the artifacts; then the proofs of Sniffer's log, of ReplayC and of the
folds of Ladder and FindOffsets.

Left, in the order of what it would add:

1. That Sniffer with one thread implements the capture of TraceCapture, as a
   refinement: a call is the step that logs it.
2. A second evaluation beside the orphan of a timed-out capture.

## Running it

```
tlc -workers 2 -config ReplayTraces.cfg MCReplay      # module and cfg per run: PROJECT.json
tlapm ReplayProofs.tla
```
