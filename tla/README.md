# A verification of omarchy-m1-video

The repository ships patches for the Apple AVD video decoder driver, the scripts
that build and install the patched module, and experiments that observe decoders on
real hardware and decide whether an observation may be believed. This directory
models the parts whose correctness depends on the order of things: races in the
driver, recorders that must not lie, supervisors that fail half-way, programs that
read a file twice while it may change, and checkers that must accept the truth only.
TLC checks small instances of every module; TLAPS proves the central properties of
eight of them for every value of the constants.

`PROJECT.json` maps every definition to the lines it models and lists the components,
the hazards, the runs and a mutation of the code for every checked property. Paths
below are relative to `src/`; `E/` stands for `experiments/` and `RC/` for
`experiments/hevc-reference-content/`.

## 1. The system and its modules

| part | code | module |
|---|---|---|
| life of a decoder job: runs, interrupt, watchdog, release | patches 0005, 0012 | `AvdJob`, promise in `AvdJobAbs` |
| reference recorder in the driver | `E/hevc-avd-trace/kernel` | `RecorderCore`, `Recorder` |
| command recorder in the driver | `E/hevc-avd-command-trace/kernel` | `RecorderCore`, `CmdRecorder` |
| supervisor of one capture with both recorders | `E/hevc-avd-command-capture/capture.py` | `RecorderCore`, `Supervise` |
| temporary exchange of the module, and its reports | `E/hevc-avd-command-capture/campaign.py`, `E/avd-allocation-qualification/qualify.py` | `ModuleSwap` |
| rebuild, install, uninstall, boot service | `bin/apple-avd-rebuild`, `install.sh`, `uninstall.sh`, `systemd/` | `Rebuild` |
| live campaign and same-run supervisor | `RC/live-campaign/run.py`, `RC/same-run/supervisor.py` | `Campaign` |
| request trace adapters | `E/hevc-controls`, `E/hevc-full-controls` | `ControlTrace` |
| kernel evidence, collectors, validator, join | `RC/same-run`, `RC/va-callsite`, `RC/gst-callsite` | `Evidence`, `SameRun` |
| targets, plan, deployment, admission | `RC/deployment`, `RC/campaign` | `Targets`, `Deployment` |
| synthetic observer and its queue | `RC/adapter.py`, `RC/synthetic_queue.py` | `SnapshotQueue` |
| pending parameter sets of FFmpeg, fixtures, reordering gate | `E/hevc-parameter-sets` | `ParamSets`, `ParameterFixtures` |
| VP9 resize session | `E/vp9-state/model.py` | `Vp9Session` |

How they meet. The driver runs one job at a time (`AvdJob`); the recorders hang on its
hooks and take that for granted. `Supervise` composes a decoder child, both recorders
and the directory of the evidence. `Campaign` and `ModuleSwap` load the recorder
module, run supervised decodes and put the module back; they see one supervised run
as a step that leaves whole, partial or no evidence. What a run leaves is read by
`ControlTrace` and `Evidence`, which `SameRun` composes with the client and the driver
that are being recorded. `Deployment` produces the manifest under which `Campaign`
may start, using the operators of `Targets`. `Rebuild`, `ParamSets`, `Vp9Session` and
`SnapshotQueue` stand alone.

Each `MC*.tla` extends its module with the values of the constants, each `.cfg` is one
run, and each `*Proofs.tla` holds theorems.

### The driver

**AvdJob.** One action per critical section of `job_lock`. A thread walks `M2mRun`,
`DeviceRun`, `InitJob`, `AppendSlice`, `SubmitJob`, `SendEnd` or `QueueStuck`,
`FreeTable`, `RunReturns`; `PmFails`, `RunFails` and `RunHolds` are its error and
held-buffer paths. `IrqEnter`, `IrqHandle`, `IrqCancel` are the handler, which may start
at any time. `WatchdogFires`, `WatchdogClaims`, `WatchdogResets` are the delayed work of
a context. `JobFinish` and `M2mFinish` are the shared finish; `StopStreaming`,
`Release`, `FreeCtx`, `Open` the file operations. Segment contents and buffer results
are abstracted. The WARN_ON(!desc) of avd_device_run() is taken for the assertion it is:
an open context has a coded format. The mem2mem core is external: it starts one job at a
time and none on a closed file. `AvdJobAbs` is the promise: a job has one owner, driver,
hardware or finisher, and passes between them in that order.

**RecorderCore** holds what both recorders and the supervisor share: the phases and
sticky errors of a capture, and the functions atr_open, atr_bind, atr_start, atr_done,
atr_close, atr_seal on it. **Recorder** adds files, buffers, the running job, records,
the control file and the pinned reader of bounded-snapshot.h. Two history variables
count what the device really did. **CmdRecorder** adds history lines and slots; words
are counted, not valued, a site is valid or not, the controls of a picture are packed or
not, and the order of the word hooks inside a picture is free.

### The programs around it

**Supervise.** Each kernel call of supervise() is a step; child, foreign client and
device move in between. A control write may take effect and fail, a write of
execution.json may fail, the supervisor may die anywhere, after which the parent-death
signal reaches the child. The hooks reach the two recorders one after the other.
supervise() asks of the errors in a status only whether there are any, so `Any` keeps
no more of them.

**ModuleSwap.** A program is a script of operations, of which any may raise: the probe,
the capture (campaign.py with measure.py) and the qualification (qualify.py), with the
finally that restores. The reports are operators on the recorded log and judge it at
the end. The outside: the hardware guard, another client, faults, an upgrade that
replaces a module file, a second process on the same root.

**Rebuild.** The actions follow the script: lock, plan, check, fetch and prepare,
build, move the module, move the stamp, depmod, with its early returns and the removal
when upstream has every patch. install.sh and uninstall.sh are processes without the
lock, and so is the depmod that pacman runs after a kernel update. depmod (external) is
two steps, a scan of the module directory and a write of the index, which may interleave
with those of other depmods; the history variable `overlap` says that two of one kernel
did. A failed move or depmod, an uninstall.sh that ends between removing a module and
its depmod (set -e, or an interrupt), and a reboot in the middle, are the faults
`MaxFaults` bounds; failed downloads, patches and builds, and an uninstall.sh that ends
elsewhere, are free. A patch set is a pair: the
version of the names globbed before the lock and of the contents read after it.

**Campaign.** run.py from the marker to complete.json with each failure path, the
same-run supervisor's run, trace, validate and publish, the tracer session, which may
outlive a killed supervisor, the hardware guard, a foreign client and decoder faults.
What two workloads show is compared by identity, link by link as compare_frames does.
The plan is a constant: any sequence of distinct rows in which every row's copy-off and
VA partners are present, as validate_plan's matrix has them.

**Targets and Deployment.** `Targets` are operators: derive_targets.py, the rules of
manifest.py on target tables, and the controller's build_plan and validate_plan.
`Deployment` goes from archived evidence to a running workload, file by file, while any
file may change between two reads: the builder's reads and copies, preparation (the
state of the repository, the copies, the validator and the commit are read one after the
other), the reviewer's pin, admission outside and inside the guard and before every
workload. A file's digest is its content; one name stands for each way a file gets into
the manifest. Two files are hashed and then read again, the evidence for its targets and
the provenance for the recorder it names. Compilers, ldd closures and ownership are a
refusal at any step.

### The checkers

**ControlTrace.** Both adapters, event by event, beside the client and the driver they
record, so that records can be held against what the decoder did. The client reuses
timestamps, buffers and descriptors as early as the kernel lets it.
**Evidence** are the checks of a join as operators on rows. **SameRun** lets
supervisor.run validate, associate and join artefacts of which one may be damaged: cut
short, repeated, reordered, of another context or run, sealed too early.

**SnapshotQueue.** A method of the queue holds its condition and is one step; snapshot()
takes one call at a time, with its except and finally clauses. In between the client
allocates, releases and submits, the worker writes and completes, other observers of the
queue move, and the queue may be stopped. `data` says whose bytes a plane holds and is
torn while a writer is at work. An observer is used by one thread.

**ParamSets.** The lists of the patched decoder: arrival, replacement, activation and
flush, with the pending sets. Whether a set parses against another is a constant
relation. Two things that the patch leaves to the code around it are left out: a
malformed VPS, and slices that activate nothing (those after the first of a picture,
those of a skipped picture or layer). **ParameterFixtures** adds run.py: the rewrites of
hevcnal.py as updates of fields, the 25 fixtures, the unpatched decoder (external), the
verdict on the frames (not on exit statuses, messages and the sanitizer build), and the
reordering gate on any stream over a bounded alphabet.

**Vp9Session.** One action per operation of `Session`, in any order, on both paths.
`Refuse` is the first refused event, which ends a run; `QueueRefused` and
`ReconfigureRefused` are refusals that have already changed something. The arithmetic
of sizeimage is the code's. The index of timestamps is kept for the current generation,
the only one looked up; a session has one bit depth.

## 2. The runs

| run | instance | what it shows |
|---|---|---|
| `avd_job` | 2 contexts, 2 threads, 2 jobs | a run is not disturbed, no job is orphaned, no table dangles or leaks, a freed context is unused, every job finishes, `AvdJobAbs` is implemented |
| `recorder` | 2 files, 2 processes, 2 runs, 2 pictures, 5 records | an error-free sealed capture is exactly the work of the bound context, whole, and unchanged under its reader |
| `cmd_recorder` | 2 files of 2 processes, 2 runs, 3 pictures, 2 slots of 5 words | an error-free window holds the controls of its pictures and every word offered |
| `supervise` | 2 runs, 1 picture, 2 contexts | an accepted run is complete on disk; a traced child never decodes unrecorded; a capture is cleared only when durable; supervise() returns; the child ends or sleeps in the driver |
| `rebuild` | 2 kernels, 2 versions, 2 rebuilds, 1 fault, 1 start other than at boot | "up to date" never covers older contents; the index is fresh when all is quiet, nothing failed and no depmods overlapped |
| `campaign` | the 4 workloads of a vector, 2 starts | complete.json means all compared, restored and clean; all runs of a vector agree; nothing is started twice; no module change after a fault that was seen; the worker ends |
| `module_swap` | 3 programs, 2 jobs per stage, 2 starts | what a report accepts is what happened; a complete qualification is accepted; no faulty or unknown module is touched |
| `vp9_session` | 2 buffers, 2 slots, 2 replaced queues, 3 sizes | an accepted reference is what its timestamp finds; a timestamp keeps its meaning within a generation; slots and buffers agree |
| `same_run` | 3 pictures, 2 buffers of each kind, 3 timestamps, 2 descriptors | an accepted recording names the writers the decoder used; a join tells the truth; join and collector agree |
| `deployment` | 4 outputs, 2 changes of files, 2 workloads | a workload reads checked inputs only; the parts of its manifest belong together; tables the manifest admits give plans the controller accepts |
| `parameter_sets` | 25 fixtures; streams of 4 sets and 2 pictures | pictures use the newest sets; the newest set is kept; fixtures give the recorded verdicts; the order of a run of sets does not matter |
| `snapshot_queue` | 2 observers, 2 planes, 2 jobs, 2 policies | a snapshot shows the bytes of the writer it names, read with nothing in flight; it ends and leaves no pin and no pause |

Why the bounds are enough. Two contexts and threads are the least with which a held
job overlaps the next one, and two job numbers the least with which an event of an old
job meets a new one. Two files of two processes give the recorder its foreigner; five
records are one more than an undetailed capture needs and one less than a detailed one
may ask for, so the array is met full and overflowing, and five words are a slice header
and one. Two runs let a later supervisor meet what an earlier one left. Two kernels and
versions give an update during a rebuild. Four workloads are a vector in the plan: each
client without and with copies, with every comparison compare_frames makes. Two jobs
have a failing one before and after a good one. A VP9 content is registered after one
replaced queue and dropped by a second; OUTPUT has one size, so that its scratch is
smaller than a frame only after a reconfiguration. Three pictures over two buffers and
three timestamps reuse a buffer, and may reuse a timestamp, while a reference is live;
the stream is shown in another order than it is decoded. Two changes of files hit a file
between its two reads and change back. Four sets are a chain and one
replacement at any level. Two jobs give a plane a writer and a later writer, or a
writer and a reader of the other plane. All bounds are guards, named in the constants
of each module.

`rebuild` was also repeated with two starts and without a limit on the rebuilds of
install.sh, `cmd_recorder` without its view, `snapshot_queue` with three jobs, with both
lengths, and with identities of a foreign run, which take longer and show nothing new.

Deadlock is checked in `avd_job`, `recorder`, `cmd_recorder` and `rebuild`; the other
programs end. Symmetry (files, processes, buffers, descriptors, timestamps) is used in
runs without liveness only. The VIEWs of `same_run` and `deployment` drop the state after
a verdict that nothing follows, or that nothing reads any more; that of `cmd_recorder`
does not tell captures with an error apart, of which its property says nothing and which
no step makes free of errors again.

Fairness. `AvdJob`: started threads, handlers and workers run on and a pending timer
expires; nothing makes the hardware interrupt or a client act. `Supervise`: calls return
because sudo has a timeout; the deadline is noticed by a poll that is repeated (strong
fairness); jobs end by `JobsFinish`; the decoder itself owes nothing. `Campaign`: worker
and supervisor get on and their timeouts expire; the decoder may sleep for ever.
`SnapshotQueue`: the thread of a started snapshot gets on, since drain() waits no longer
than its deadline; nothing makes the worker complete a job. `Rebuild`, for
`UnstampedIsRetried` (section 4): the machine is rebooted repeatedly, scripts get on, and
a repeated lock, download, patch and build do not fail for ever (strong fairness).

## 3. The proofs

The assumptions are the named ones of each module; they say what kind of values the
constants are. Each inductive invariant holds on the instance of its run as well (of
`Vp9Session`'s, TLC evaluates all but the types).

**AvdJobProofs**, from `ProcAssumption` and `MaxSeqAssumption`: every safety invariant of
`avd_job`, `OneOwner`, type correctness, and that `AvdJob` implements
`AvdJobAbs`. job_state alone does not say who may touch the job, so `IInv` adds three
facts: `StateAgrees` ties each program counter to the state it implies, `HeldRunIsOver`
says why a run that finished its own job finds in its second critical section that the
job is no longer its own, and `TablesAreOld` makes a newly allocated table a new one.

**RecorderProofs**, from `RecorderAssumption` and `ExtentAssumption`: type correctness,
`CleanSealIsComplete`, `CleanSealIsWhole`, `PinnedUnchanged`, `FollowsOwnFile`,
`SealedStays`. `FilesAgree` makes the counter of open contexts the number of open files,
`OwnBuffers` describes the buffers before the first job, and `CleanSoFar` follows the
device's work through every phase of a capture without errors. `NothingLost` does the
same for the records: while there is no error, every started picture has one start, every
finished one has one done, the picture in progress owns the last record, and its number
is the writer of the buffer, so the next record joins it. An append that does not fit
leaves an error behind, which ends the claim. A section of the module is about
`CmdRecorder`, from `CmdRecorderAssumption`: `CleanWindowIsWhole`. The transitions of the
two cores are equal, so the lemmas about them serve both. `WindowSoFar` says that the
slots of the pictures begun are whole and that nothing was offered for the later ones:
this is why `cmd_start` need not clear meta_seen. A call with an invalid site, and
controls that are not packed, leave an error, which ends the claim.

**SuperviseProofs**, from `ExtentAssumption` and `SuperviseAssumption`:
`AcceptedIsComplete`, `DecodesUnderCapture` and `ClearedOnlyDurable`, for any number of
runs, contexts and pictures. `Owned`: a recorder is off, or holds the capture of the run
whose child it was armed for. `Fits` keeps child and supervisor together: a new run finds
only children of earlier ones, and a reaped child is dead. `Traced` follows a child that
has the device open, or may open it, also one that an earlier supervisor left behind:
both recorders record it, or its run is not a traced one. `Place` and `Durable` say, for
each place in supervise(), which checks have passed and what is on disk already; every
step that can fail leads to a clean-up with an error noted, and none of these leads to
the calls that clear a recorder. That the recorders' counters of open files never fall
below zero, a part of `TypeOK`, is left to TLC.

**CampaignProofs**, from `CampaignAssumption`: `CompleteIsWhole`, `StopsAtFirst`,
`RunsAgree` and `NoRecovery`, for every plan and any number of starts. `Fresh` and
`Single`: one worker only gets past the marker. `Turn` says which workloads it has begun
and compared, `Traced` where a decoder may still be running, `Held` what the comparisons
so far have shown. `Verdict` is what the terminal record stands on, and `Whole` what
remains of it in complete.json. A row is compared with its own copy-off run and with the
VA run only; `RunsAgree` follows because all rows of a vector lead to the same one.
`Met`: after a fault was seen, the worker is at places that touch no module.

**DeploymentProofs**, from `TargetsAssumption` and `DeploymentAssumption`:
`InputsChecked`, `PartsBelong` and `PlansAgree`, however often and whenever files
change. `Holds` says what is known of the manifest in the hands of each tool, `Hashing`
what the validation under way has hashed. `Counted` is a price: a manifest whose targets
are not those of its evidence, or whose recorder is not the one its provenance names,
has cost a change of a file before the first validation and one more in each of them.
`PlanIsAccepted` is about every table of targets: what manifest.validate admits,
build_plan turns into a plan that validate_plan accepts. The last part of the module is
about `Rebuild`, from `RebuildAssumption`: `IndexFresh` and `SkipIsCurrent`, for any
kernels and any number of rebuilds, versions, crashes and reboots. `Alone`: past the
lock there is one rebuild. `Fresh`: until something fails or two depmods overlap,
somebody is on the way to the scan of a depmod of the installed kernel (`Pending`), or
what was scanned and is not written yet is still so, and where nothing is, the index
agrees with the module (`Current`). It holds across install.sh, uninstall.sh and pacman
although they take no lock: whoever changes a module between the scan and the write of
another still has a depmod to run. `Match` and `Newer` compare versions: a module is not
older than its stamp, and what a rebuild is about to install is not older than the stamp
it found, since contents only get newer in the patch directory.

**Vp9SessionProofs**, from `Vp9Assumption`: `SlotsAgree`, `LookupHits`,
`TimestampStable` and `ContextWhole` (the codec context is lost exactly while OUTPUT does
not stream). `Indexed` is the heart: every buffer that may be found as a reference, live
in this generation or registered, is the one the index has under its timestamp. It holds
while no event has been refused.

**ParamSetsProofs**, from `ParamSetsAssumption`: `NewestKept` and `UsesNewest`. SPSs
over VPSs and PPSs over SPSs obey the same rules, so `Level` states them once for a
stored list, its pending list and the list it depends on; `Tried` says of a pending set
that was tried why it is still pending.
The second part of the module is about `SnapshotQueue`, from `SnapshotAssumption`:
`SnapshotTrue`. `Settled`: a plane without a writer in flight holds what its last writer
left. `Held`: a pinned plane has no writer in flight and keeps the writer the pin names.
`HasPin`: a snapshot has its pin until unpin(). `Quiet`: from drain() to resume() the
queue is paused or stopped, and while it is not stopped only one observer is there, so
resume() ends nobody else's pause.

**ModuleSwapProofs**, from `ModuleSwapAssumption`: `AcceptedIsTrue` and `NeverForced`, for
any list of distinct jobs and any number of processes on one root. `OnTrack` says of a
process without a failure, at each operation of its script, what has happened and what is
loaded; the places of a script are computed from the number of jobs, so half of the
lemmas say what stands where. `Told`: the log ends with the completion marker only when
the whole story is told, because a failure keeps a process from the part that writes it
(`Following`) and nobody but the process that created the single-use marker gets there
(`Marked`). So a report that insists on that marker needs nothing else of the log for
`AcceptedIsTrue`; what else it asks for can only refuse more. `OneLoad`: the candidate is
loaded at one place, which is passed once. `Known`: rmmod follows the identification of
what it unloads, with nothing in between that loads. `Stopped`: a health check that met a
fault leaves the process failed, and the restoration begins with a health check, which
refuses again.

Only model-checked:

- liveness (`JobsFinish`, `Returns`, `ChildEnds`, `WorkerEnds`, `SnapshotEnds`), which is
  out of the prover's reach;
- `FixturesPass` and `OrderIrrelevant`, `JoinIsTrue` and `JoinedIsCollected`, and
  `CompleteIsAccepted`: they are about what folds over streams and traces compute, or what
  a report selects from a log. For every input that takes induction over data, which this
  prover cannot do;
- `WritersAreTrue` of `ControlTrace`, an invariant of a state machine for which no proof
  has been written.

## 4. Where text and code differ

No property of a run is violated. The following sentences of the repository are not
exact; each formula is in its module and can be given to TLC in place of the properties
of the cfg.

- Watchdog (`AvdJob`, `WatchdogOwnJob`, with `Spec`). The comment in patch 0005, line
  154, says "Time out only the job this watchdog was armed for". An instance that has
  started and waits for the lock when its job completes (cancel_delayed_work() does not
  wait for it) finds wd_seq rewritten for the next submitted job of its context and
  resets the hardware under it. That job is still finished once (`ImplementsAbs`).
- Rebuild, `UpToDateSelected` (a PROPERTY). The stamp is moved before depmod
  (bin/apple-avd-rebuild:356-359); if depmod fails, later rebuilds say "up to date" and
  the module is not selected. Line 3 promises "in sync".
- Rebuild, `UninstallRestoresStock` (with `MaxFaults <- MCNoFaults`). uninstall.sh takes
  no lock: a rebuild under way installs its module afterwards (uninstall.sh:3, :40).
- Rebuild, `IndexAlwaysFresh` (with `MaxFaults <- MCNoFaults`). The lock keeps rebuilds
  apart, and nothing keeps uninstall.sh's or pacman's depmod from running inside that of
  a rebuild (uninstall.sh:45, bin/apple-avd-rebuild:359). If the one that scanned first
  writes last, the index lists a module that is gone, or misses one that is there, until
  the next depmod. `IndexFresh` is what holds without such an overlap.
- Rebuild, `MissingIsBuilt` (with `FairSpec`, `Proc <- MCOneProc`, no symmetry). The
  boot service tests the stamp, not the module (README.md:180,
  systemd/apple-avd-rebuild.service:11). `UnstampedIsRetried` is the part that holds.
- Parameter sets, `WaitingSpsRefuses`. E/hevc-parameter-sets/README.md:73 says "A
  pending SPS refuses only IRAP pictures"; an IRAP picture is decoded with the older SPS
  of one that waits when an older PPS stands in for a newer one that fails.

Observations on the way, none of which breaks a property of a run:

- Patch names are globbed before the lock of a rebuild, so a module may be built from old
  names and new contents. `SkipIsCurrent` is stated for contents.
- vp9-state/model.py:540: decoded_ok is never reset, so a buffer decoded before the queue
  was replaced and only queued again is a reference without register(). Its new timestamp
  is indexed, so `LookupHits` holds.
- E/hevc-full-controls/README.md:72 says that VA reuses timestamps; KernelEvidence.check
  (RC/same-run/join.py:135) refuses runs whose frame numbers are not all distinct.
- The adapters accept a picture that takes the timestamp of a picture in its own DPB,
  where the decoder finds the destination; `WritersAreTrue` excludes it, and the validator
  of the join refuses it.
- Deployment: the target evidence is parsed from its original path and staged by a second
  read; some inputs are compared with pins only before they are staged. What is staged is
  hashed by every validation (`InputsChecked`), and targets that are not those of the
  evidence, or a recorder that is not the one of its provenance, pass only if a file
  changes once more within every one of the eight validations (`PartsBelong`). A file may
  still change between its last hash and its use. The VA target's last input can
  be smaller than its largest ordinal when pictures are reordered, and manifest.py refuses
  that. A preparation that crashed cannot be repeated.
- Parameter sets: a pending SPS is parsed at any picture once its VPS is there, so an SPS
  may change within a group of pictures; `OrderIrrelevant` therefore asks for complete
  runs of sets.
- ModuleSwap: a transition whose result is lost leaves changed=False and is not undone;
  campaign.py writes its completion marker with an unhealthy terminal state, which its
  report refuses. `CompleteIsAccepted` is stated for the qualification.
- Campaign: the paired comparison of frames follows from the comparison with the baseline.
- SnapshotQueue: an Observer takes the slot of len(snapshots) before it appends, so two
  threads in one Observer would share a slot; the experiment's README allows one worker.
  'writer changed while retained' in complete() cannot be reached.

## 5. Not modelled

- check_libva() and --status, which only read and print; the libva package recipe.
- The parameter checks of the HEVC and H.264 patches (0002, 0006, 0009, 0010, 0011, 0013,
  0015): the diffs hold part of the functions they change, and the rest is in the kernel
  tree. The layout and fill-value patches have no state.
- The allocation-retry candidate and the AV1 harness, which are compiled against stubs.
- The H.264 client admission and profile selection, which decide one request at a time
  by a table that their tests compare entry by entry.
- The single-recorder capture, the predecessor of `Supervise` with one recorder.
- The command oracle, the comparison of captures, the memory layout observation and the
  byte layers of all parsers: register fields and layouts, without state or order.
- The observer inside GStreamer and the VA driver, the call sites and runners: fragments
  of third-party programs whose queues and threads are not in this repository. What they
  write is read by `Evidence`; their protocol is that of `SnapshotQueue`.
- The evidence and release tools under tools/: one-shot commands that write a report.
- Inside the modelled parts: the text of messages and verdicts, argument syntax, ownership
  of paths, compilers, and pixels beyond "equal or not".
