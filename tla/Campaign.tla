------------------------------ MODULE Campaign ------------------------------
(***************************************************************************)
(* The live reference-content campaign: run.py swaps the ordinary decoder  *)
(* module for the recorder, lets same-run/supervisor.py run one decoder    *)
(* per workload under v4l2-tracer, compares what each published, and puts  *)
(* the ordinary module back.  Around it: the hardware guard, which may     *)
(* kill it, a foreign client of the decoder, and faults of the decoder.    *)
(*                                                                         *)
(* Every call of run.py may fail (a refused check, a full disk under       *)
(* record(), an expired timeout), so a failure is an action of its own and *)
(* the guards of the other actions say what has to hold to go on.          *)
(***************************************************************************)
EXTENDS Naturals, Sequences, FiniteSets

CONSTANTS
    Vectors,     \* the clips
    Rows,        \* the workloads, [vector, client, copy], as they are admitted
    MaxStarts    \* bound: worker processes started on one output root

Row == [vector : Vectors, client : {"va", "gst"}, copy : BOOLEAN]

(***************************************************************************)
(* The manifest admits each workload once, and with it those it is held    *)
(* against.                                                                *)
(***************************************************************************)
ASSUME CampaignAssumption ==
    /\ Rows \in Seq(Row) /\ Rows # <<>>
    /\ \A v, w \in 1..Len(Rows) : Rows[v] = Rows[w] => v = w
    /\ \A w \in 1..Len(Rows) :
          \A client \in {"va", Rows[w].client}, copy \in {FALSE, Rows[w].copy} :
              \E v \in 1..Len(Rows) :
                  Rows[v] = [vector |-> Rows[w].vector, client |-> client,
                             copy |-> copy]
    /\ MaxStarts \in Nat

VARIABLES
    module,     \* the loaded apple_avd: "original", "recorder" or "none"
    faulted,    \* the journal holds a decoder fault since the boundary
    foreign,    \* another process has the decoder open
    approval,   \* the native approval: "none", "dir" or "file"
    attempted,  \* the single-use marker is there
    complete,   \* complete.json is there
    camp,       \* the worker process of run.py
    same,       \* the control state of the same-run supervisor
    tracer,     \* the v4l2-tracer session: [st, w]
    evidence,   \* per workload: the kernel evidence in its root
    shown,      \* per workload: what its decoder produced
    result,     \* per workload: what has been published in its root
    begun,      \* per workload: how often it was started
    starts

disk == <<attempted, complete, evidence, shown, result>>
device == <<module, faulted, foreign>>
vars == <<device, approval, disk, camp, same, tracer, begun, starts>>

Workloads == Len(Rows)
W == 1..Workloads

(***************************************************************************)
(* What a decode shows: its frames, which are those of the client's prior  *)
(* baseline or not, the pictures the selected outputs were joined with,    *)
(* and the commands and references of the recorded window.                 *)
(***************************************************************************)
Shows == [pixels : {"prior", "other"}, writers : 1..2, window : 1..2]
NoShow == [pixels |-> "none", writers |-> 0, window |-> 0]

(* saw: healthy() has met the fault; a history of it, not read by the code *)
Worker == [pc |-> "off", changed |-> FALSE, restored |-> FALSE,
           approved |-> FALSE, failed |-> FALSE, runs |-> 0, saw |-> FALSE]

Init ==
    /\ module = "original"
    /\ faulted \in BOOLEAN
    /\ foreign = FALSE
    /\ approval = "none"
    /\ attempted = FALSE
    /\ complete = FALSE
    /\ camp = Worker
    /\ same = "off"
    /\ tracer = [st |-> "off", w |-> 0]
    /\ evidence = [w \in W |-> "none"]
    /\ shown = [w \in W |-> NoShow]
    /\ result = [w \in W |-> "none"]
    /\ begun = [w \in W |-> 0]
    /\ starts = 0

Busy == foreign \/ tracer.st = "open"

(* The workload of this iteration. *)
Current ==
    camp.runs + 1

(* healthy(present) *)
Healthy(present) ==
    ~Busy /\ ~faulted /\ (present => module # "none")

(* identity(original) *)
Identity(which) ==
    module = which

(* The places where run.py looks at the health of the decoder. *)
HealthPC == {"ready", "gap", "live", "work", "judge", "restore", "reload",
             "proved"}

-----------------------------------------------------------------------------
(***************************************************************************)
(* The worker.  finally: restore if the module was changed, then clean up  *)
(* if the approval was installed, then the terminal record.                *)
(***************************************************************************)
At(pc) ==
    camp.pc = pc

Goes(pc) ==
    camp' = [camp EXCEPT !.pc = pc]

AfterRestore ==
    IF camp.approved THEN "cleanup" ELSE "terminal"

Finally(c) ==
    IF c.changed THEN "restore" ELSE IF c.approved THEN "cleanup" ELSE "terminal"

Start ==
    /\ camp.pc \in {"off", "ended", "killed"}
    /\ starts < MaxStarts
    /\ starts' = starts + 1
    /\ camp' = [Worker EXCEPT !.pc = "mark"]
    /\ UNCHANGED <<device, approval, disk, same, tracer, begun>>

(* Mutant: the marker is opened with 'w'. *)
MarkAgain ==
    /\ At("mark")
    /\ attempted' = TRUE
    /\ Goes("ready")
    /\ UNCHANGED <<device, approval, complete, evidence, shown, result, same, tracer,
                   begun, starts>>

(* The single-use marker is created exclusively. *)
Mark ==
    /\ At("mark")
    /\ ~attempted
    /\ attempted' = TRUE
    /\ Goes("ready")
    /\ UNCHANGED <<device, approval, complete, evidence, shown, result, same, tracer,
                   begun, starts>>

(* No approval directory, the original module, a healthy decoder. *)
Ready ==
    /\ At("ready")
    /\ approval = "none"
    /\ Identity("original")
    /\ Healthy(TRUE)
    /\ Goes("rmmod")
    /\ UNCHANGED <<device, approval, disk, same, tracer, begun, starts>>

(* Before the try: nothing has to be put back. *)
RefusedEarly ==
    /\ camp.pc \in {"mark", "ready"}
    /\ camp' = [camp EXCEPT !.pc = "ended", !.failed = TRUE,
                            !.saw = At("ready") /\ faulted]
    /\ UNCHANGED <<device, approval, disk, same, tracer, begun, starts>>

-----------------------------------------------------------------------------
(***************************************************************************)
(* privileged(): sudo ran the command and run.py goes on, or the command   *)
(* took effect and run.py fails all the same: the timeout expired, which   *)
(* still waits for sudo to end, or the result could not be recorded.  The  *)
(* command failing without effect is one of the failures below.            *)
(***************************************************************************)
Done(c) ==
    camp' = c

Lost ==
    camp' = [camp EXCEPT !.pc = Finally(camp), !.failed = TRUE]

Rmmod ==
    /\ At("rmmod")
    /\ ~Busy                          \* the kernel refuses a module in use
    /\ module' = "none"
    /\ Done([camp EXCEPT !.pc = "gap", !.changed = TRUE]) \/ Lost
    /\ UNCHANGED <<faulted, foreign, approval, disk, same, tracer, begun,
                   starts>>

Gap ==
    /\ At("gap")
    /\ Healthy(FALSE)
    /\ Goes("insmod")
    /\ UNCHANGED <<device, approval, disk, same, tracer, begun, starts>>

Insmod ==
    /\ At("insmod")
    /\ module = "none"
    /\ module' = "recorder"
    /\ Done([camp EXCEPT !.pc = "live"]) \/ Lost
    /\ UNCHANGED <<faulted, foreign, approval, disk, same, tracer, begun,
                   starts>>

(* live_check(): identity, health, and the manifest checked as root. *)
LiveCheck ==
    /\ At("live")
    /\ Identity("recorder")
    /\ Healthy(TRUE)
    /\ Goes("dir")
    /\ UNCHANGED <<device, approval, disk, same, tracer, begun, starts>>

InstallDir ==
    /\ At("dir")
    /\ approval' = IF approval = "none" THEN "dir" ELSE approval
    /\ Done([camp EXCEPT !.pc = "file"]) \/ Lost
    /\ UNCHANGED <<device, disk, same, tracer, begun, starts>>

InstallFile ==
    /\ At("file")
    /\ approval' = "file"
    /\ Done([camp EXCEPT !.pc = "work", !.approved = TRUE]) \/ Lost
    /\ UNCHANGED <<device, disk, same, tracer, begun, starts>>

(* expanded: the root of a workload must be new. *)
Expanded(w) ==
    result[w] = "none"

(***************************************************************************)
(* workload(): the approval, live_check() and a fresh root, then the       *)
(* same-run supervisor.                                                    *)
(***************************************************************************)
WorkloadStarts ==
    /\ At("work")
    /\ approval = "file"
    /\ Identity("recorder")
    /\ Healthy(TRUE)
    /\ Expanded(Current)
    /\ same' = "root"
    /\ begun' = [begun EXCEPT ![Current] = @ + 1]
    /\ Goes("wait")
    /\ UNCHANGED <<device, approval, disk, tracer, starts>>

WorkloadExits ==
    /\ At("wait")
    /\ same = "exit0"
    /\ same' = "off"
    /\ Goes("judge")
    /\ UNCHANGED <<device, approval, disk, tracer, begun, starts>>

WorkloadFails ==
    /\ At("wait")
    /\ same = "exit125"
    /\ same' = "off"
    /\ camp' = [camp EXCEPT !.pc = Finally(camp), !.failed = TRUE]
    /\ UNCHANGED <<device, approval, disk, tracer, begun, starts>>

(* subprocess.run(timeout=120) kills the supervisor, not the tracer. *)
WorkloadTimeout ==
    /\ At("wait")
    /\ same \notin {"exit0", "exit125"}
    /\ same' = "off"
    /\ camp' = [camp EXCEPT !.pc = Finally(camp), !.failed = TRUE]
    /\ UNCHANGED <<device, approval, disk, tracer, begun, starts>>

(***************************************************************************)
(* workload() after the decoder has ended.  The copying run of a pair is   *)
(* held against the other one, and a Gst run against the VA run of the     *)
(* same vector and mode, by what those left in their roots.                *)
(***************************************************************************)
Of(vector, client, copy) ==
    CHOOSE w \in W : Rows[w] = [vector |-> vector, client |-> client, copy |-> copy]

Pair(w) ==
    Of(Rows[w].vector, Rows[w].client, FALSE)

Other(w) ==
    Of(Rows[w].vector, "va", Rows[w].copy)

(* compare_frames: the baseline, and the frames of the pair. *)
CompareFrames(w) ==
    /\ shown[w].pixels = "prior"
    /\ Rows[w].copy => /\ result[Pair(w)] = "compared"
                       /\ shown[w].pixels = shown[Pair(w)].pixels

(* projection of the join *)
CompareProjection(w) ==
    Rows[w].copy => shown[w].writers = shown[Pair(w)].writers

(* capture_projection: the evidence is validated once more. *)
Measured(w) ==
    IF evidence[w] = "whole" THEN shown[w].window ELSE 0

(* Mutant: a Gst run is held against its own pair only. *)
CompareOwnCapture(w) ==
    /\ Measured(w) # 0
    /\ Rows[w].copy => Measured(w) = shown[Pair(w)].window

CompareCapture(w) ==
    /\ Measured(w) # 0
    /\ Rows[w].copy => Measured(w) = shown[Pair(w)].window
    /\ Rows[w].client = "gst" => /\ result[Other(w)] = "compared"
                                 /\ Measured(w) = shown[Other(w)].window

Judge ==
    LET w == Current
    IN  /\ At("judge")
        /\ Healthy(TRUE)
        /\ result[w] = "joined"
        /\ CompareFrames(w) /\ CompareProjection(w) /\ CompareCapture(w)
        /\ result' = [result EXCEPT ![w] = "compared"]
        /\ \/ Done([camp EXCEPT !.runs = w,
                      !.pc = IF w = Workloads THEN "restore" ELSE "work"])
           \/ Lost                    \* the last record() failed
        /\ UNCHANGED <<device, approval, attempted, complete, evidence, shown, same,
                       tracer, begun, starts>>

(* except Exception: the first failure inside the try. *)
Fails ==
    /\ camp.pc \in {"rmmod", "gap", "insmod", "live", "dir", "file", "work",
                    "judge"}
    /\ camp' = [camp EXCEPT !.pc = Finally(camp), !.failed = TRUE,
                            !.saw = @ \/ (camp.pc \in HealthPC /\ faulted)]
    /\ UNCHANGED <<device, approval, disk, same, tracer, begun, starts>>

-----------------------------------------------------------------------------
(***************************************************************************)
(* restore(): only a healthy, idle decoder is touched, and only the        *)
(* recorder is unloaded.                                                   *)
(***************************************************************************)

(* Mutant: the module is put back whatever the health of the decoder. *)
RestoreAnyway ==
    /\ At("restore")
    /\ module \in {"recorder", "none"}
    /\ Goes(IF module = "none" THEN "reload" ELSE "unload")
    /\ UNCHANGED <<device, approval, disk, same, tracer, begun, starts>>

Restore ==
    /\ At("restore")
    /\ Healthy(FALSE)
    /\ module \in {"recorder", "none"}
    /\ Goes(IF module = "none" THEN "reload" ELSE "unload")
    /\ UNCHANGED <<device, approval, disk, same, tracer, begun, starts>>

(* What a failing restore() does: its failure is recorded, or recording it *)
(* fails too and the rest of the finally is skipped.                       *)
NotRestored ==
    \E pc \in {AfterRestore, "ended"} :
        camp' = [camp EXCEPT !.pc = pc, !.failed = TRUE,
                             !.saw = @ \/ (camp.pc \in HealthPC /\ faulted)]

Unload ==
    /\ At("unload")
    /\ ~Busy
    /\ module' = "none"
    /\ Goes("reload") \/ NotRestored
    /\ UNCHANGED <<faulted, foreign, approval, disk, same, tracer, begun,
                   starts>>

Reload ==
    /\ At("reload")
    /\ Healthy(FALSE)
    /\ Goes("modprobe")
    /\ UNCHANGED <<device, approval, disk, same, tracer, begun, starts>>

(* Mutant: restored is set as soon as modprobe was asked to load it. *)
ModprobeBelieved ==
    /\ At("modprobe")
    /\ module' \in {"original", module}
    /\ \/ camp' = [camp EXCEPT !.pc = AfterRestore, !.restored = TRUE]
       \/ NotRestored
    /\ UNCHANGED <<faulted, foreign, approval, disk, same, tracer, begun,
                   starts>>

Modprobe ==
    /\ At("modprobe")
    /\ module' = IF module = "none" THEN "original" ELSE module
    /\ Goes("proved") \/ NotRestored
    /\ UNCHANGED <<faulted, foreign, approval, disk, same, tracer, begun,
                   starts>>

(* identity(True) and healthy(). *)
Proved ==
    /\ At("proved")
    /\ Identity("original")
    /\ Healthy(TRUE)
    /\ \/ camp' = [camp EXCEPT !.pc = AfterRestore, !.restored = TRUE]
       \/ \E pc \in {AfterRestore, "ended"} :       \* record() failed
              camp' = [camp EXCEPT !.pc = pc, !.restored = TRUE,
                                   !.failed = TRUE]
    /\ UNCHANGED <<device, approval, disk, same, tracer, begun, starts>>

(* Mutant: the restoration is tried again until it succeeds. *)
RestoreRetries ==
    /\ camp.pc \in {"restore", "unload", "reload", "modprobe", "proved"}
    /\ Goes("restore")
    /\ UNCHANGED <<device, approval, disk, same, tracer, begun, starts>>

RestoreFails ==
    /\ camp.pc \in {"restore", "unload", "reload", "modprobe", "proved"}
    /\ NotRestored
    /\ UNCHANGED <<device, approval, disk, same, tracer, begun, starts>>

(* The approval is removed while it is unchanged, then its directory. *)
NotCleaned ==
    \E pc \in {"terminal", "ended"} :
        camp' = [camp EXCEPT !.pc = pc, !.failed = TRUE]

RemoveFile ==
    /\ At("cleanup")
    /\ approval = "file"
    /\ approval' = "dir"
    /\ Goes("rmdir") \/ NotCleaned
    /\ UNCHANGED <<device, disk, same, tracer, begun, starts>>

RemoveDir ==
    /\ At("rmdir")
    /\ approval' = "none"
    /\ Goes("terminal") \/ NotCleaned
    /\ UNCHANGED <<device, disk, same, tracer, begun, starts>>

CleanupFails ==
    /\ camp.pc \in {"cleanup", "rmdir"}
    /\ NotCleaned
    /\ UNCHANGED <<device, approval, disk, same, tracer, begun, starts>>

(* The terminal record, and the end of run(). *)
Terminal ==
    /\ At("terminal")
    /\ \/ /\ ~camp.failed
          /\ camp.restored /\ camp.runs = Workloads
          /\ complete' = TRUE
          /\ Goes("ended")
       \/ /\ camp' = [camp EXCEPT !.pc = "ended", !.failed = TRUE]
          /\ UNCHANGED complete
    /\ UNCHANGED <<device, approval, attempted, evidence, shown, result, same, tracer,
                   begun, starts>>

(* The hardware guard kills the worker and its supervisor, not the tracer, *)
(* which has a session of its own.                                         *)
GuardKills ==
    /\ camp.pc \notin {"off", "ended", "killed"}
    /\ camp' = [camp EXCEPT !.pc = "killed", !.failed = TRUE]
    /\ same' = "off"
    /\ UNCHANGED <<device, approval, disk, tracer, begun, starts>>

-----------------------------------------------------------------------------
(***************************************************************************)
(* same-run/supervisor.py: run() and _run_tracer().                        *)
(***************************************************************************)
SameGoes(pc) ==
    /\ same' = pc
    /\ UNCHANGED <<device, approval, disk, camp, tracer, begun, starts>>

(* v4l2-tracer gets a session of its own. *)
StartsTracer ==
    tracer' = [st |-> "running", w |-> Current]

(* The root is made exclusively, the invocation and the worker's           *)
(* specification are stored, and v4l2-tracer starts.                       *)
SameTraces ==
    /\ same = "root"
    /\ same' = "trace"
    /\ result' = [result EXCEPT ![Current] = "root"]
    /\ StartsTracer
    /\ UNCHANGED <<device, approval, attempted, complete, evidence, shown, camp,
                   begun, starts>>

(* The tracer ended in time; its status has to be zero. *)
SameStatus ==
    /\ same = "trace"
    /\ tracer.st \in {"exit0", "failed"}
    /\ SameGoes(IF tracer.st = "exit0" THEN "validate" ELSE "exit125")

(* SIGTERM to the session, SIGKILL two seconds later, and the end of       *)
(* waiting three seconds after that, whether or not it is dead.            *)
SameTimeout ==
    /\ tracer.st \in {"running", "open"}
    /\ \/ same = "trace" /\ SameGoes("term")
       \/ same = "term" /\ SameGoes("kill")
       \/ same = "kill" /\ SameGoes("exit125")

SameReaps ==
    /\ same \in {"term", "kill"}
    /\ tracer.st \in {"exit0", "failed"}
    /\ SameGoes("exit125")

(* validator.validate() and the join: only whole evidence passes. *)
SameValidates ==
    /\ same = "validate"
    /\ evidence[Current] = "whole"
    /\ SameGoes("publish")

(* publish(): an atomic rename that replaces nothing; the directory's      *)
(* fsync after it may fail.                                                *)
SamePublishes ==
    /\ same = "publish"
    /\ result[Current] = "root"
    /\ result' = [result EXCEPT ![Current] = "joined"]
    /\ same' \in {"exit0", "exit125"}
    /\ UNCHANGED <<device, approval, attempted, complete, evidence, shown, camp,
                   tracer, begun, starts>>

SameRefuses ==
    /\ same \in {"root", "trace", "validate", "publish"}
    /\ same = "trace" => tracer.st \notin {"running", "open"}
    /\ SameGoes("exit125")

-----------------------------------------------------------------------------
(***************************************************************************)
(* The tracer session: v4l2-tracer, worker() and the decoder, which        *)
(* capture.supervise() runs on the recorder only.  An accepted capture is  *)
(* whole; whether the tracer passes the worker's status on is its own      *)
(* affair.                                                                 *)
(***************************************************************************)
TracerOpens ==
    /\ tracer.st = "running"
    /\ module = "recorder"
    /\ tracer' = [tracer EXCEPT !.st = "open"]
    /\ UNCHANGED <<device, approval, disk, camp, same, begun, starts>>

TracerEnds ==
    /\ tracer.st = "open"
    /\ \E st \in {"exit0", "failed"}, e \in {"whole", "partial"} :
           /\ tracer' = [tracer EXCEPT !.st = st]
           /\ evidence' = [evidence EXCEPT ![tracer.w] = e]
           /\ \E show \in Shows : shown' = [shown EXCEPT ![tracer.w] = show]
    /\ UNCHANGED <<device, approval, attempted, complete, result, camp, same,
                   begun, starts>>

TracerRefuses ==
    /\ tracer.st = "running"
    /\ \E st \in {"exit0", "failed"} : tracer' = [tracer EXCEPT !.st = st]
    /\ UNCHANGED <<device, approval, disk, camp, same, begun, starts>>

ForeignOpens ==
    /\ ~foreign
    /\ module # "none"
    /\ foreign' = TRUE
    /\ UNCHANGED <<module, faulted, approval, disk, camp, same, tracer, begun,
                   starts>>

ForeignCloses ==
    /\ foreign
    /\ foreign' = FALSE
    /\ UNCHANGED <<module, faulted, approval, disk, camp, same, tracer, begun,
                   starts>>

Fault ==
    /\ Busy
    /\ ~faulted
    /\ faulted' = TRUE
    /\ UNCHANGED <<module, foreign, approval, disk, camp, same, tracer, begun,
                   starts>>

WorkerStep ==
    \/ Mark \/ Ready \/ RefusedEarly \/ Rmmod \/ Gap \/ Insmod \/ LiveCheck
    \/ InstallDir \/ InstallFile \/ WorkloadStarts \/ WorkloadExits
    \/ WorkloadFails \/ WorkloadTimeout \/ Judge \/ Fails \/ Restore \/ Unload
    \/ Reload \/ Modprobe \/ Proved \/ RestoreFails \/ RemoveFile \/ RemoveDir
    \/ CleanupFails \/ Terminal

SameStep ==
    \/ SameTraces \/ SameStatus \/ SameTimeout \/ SameReaps \/ SameValidates
    \/ SamePublishes \/ SameRefuses

Next ==
    \/ Start \/ WorkerStep \/ GuardKills \/ SameStep
    \/ TracerOpens \/ TracerEnds \/ TracerRefuses
    \/ ForeignOpens \/ ForeignCloses \/ Fault

Spec == Init /\ [][Next]_vars

(***************************************************************************)
(* The worker and the supervisor get on, and their timeouts expire.        *)
(* Nothing makes a decoder end: it may sleep in the driver for ever.       *)
(***************************************************************************)
FairSpec == Spec /\ WF_vars(WorkerStep) /\ WF_vars(SameStep)

-----------------------------------------------------------------------------
(* Type correctness. *)
TypeOK ==
    /\ module \in {"original", "recorder", "none"}
    /\ {faulted, foreign, attempted, complete} \subseteq BOOLEAN
    /\ approval \in {"none", "dir", "file"}
    /\ camp \in [pc : {"off", "mark", "ready", "rmmod", "gap", "insmod",
                       "live", "dir", "file", "work", "wait", "judge",
                       "restore", "unload", "reload", "modprobe", "proved",
                       "cleanup", "rmdir", "terminal", "ended", "killed"},
                 changed : BOOLEAN, restored : BOOLEAN, approved : BOOLEAN,
                 failed : BOOLEAN, runs : 0..Workloads, saw : BOOLEAN]
    /\ same \in {"off", "root", "trace", "term", "kill", "validate",
                 "publish", "exit0", "exit125"}
    /\ tracer \in [st : {"off", "running", "open", "exit0", "failed"},
                   w : 0..Workloads]
    /\ evidence \in [W -> {"none", "partial", "whole"}]
    /\ shown \in [W -> Shows \cup {NoShow}]
    /\ result \in [W -> {"none", "root", "joined", "compared"}]
    /\ begun \in [W -> Nat]
    /\ starts \in 0..MaxStarts

(***************************************************************************)
(* complete.json is a verdict: every workload has been compared, on whole  *)
(* evidence, no decoder of the campaign is left, the ordinary module is    *)
(* loaded again and the approval is gone, however often the worker was     *)
(* killed, timed out or started again.                                     *)
(***************************************************************************)
CompleteIsWhole ==
    complete => /\ \A w \in W : result[w] = "compared" /\ evidence[w] = "whole"
                /\ module = "original"
                /\ approval = "none"
                /\ tracer.st \notin {"running", "open"}

(***************************************************************************)
(* What a complete campaign compares has one outcome per vector, although  *)
(* each workload is held against one or two others only: every run shows   *)
(* the same commands and references, and every run of a client the frames  *)
(* of its baseline and the same selected pictures.                         *)
(***************************************************************************)
RunsAgree ==
    complete => \A v, w \in W : Rows[v].vector = Rows[w].vector =>
        /\ shown[v].window = shown[w].window
        /\ shown[v].pixels = "prior"
        /\ Rows[v].client = Rows[w].client => shown[v].writers = shown[w].writers

(***************************************************************************)
(* "Stops on the first refusal, discrepancy or fault", and the single-use  *)
(* marker prevents replay: no workload is started twice, and none before   *)
(* those ahead of it have been compared.                                   *)
(***************************************************************************)
StopsAtFirst ==
    \A w \in W :
        /\ begun[w] <= 1
        /\ begun[w] = 1 => \A v \in 1..(w - 1) : result[v] = "compared"

(***************************************************************************)
(* "A fault is never auto-recovered": once healthy() has met a fault, run  *)
(* loads and unloads no module any more.                                   *)
(***************************************************************************)
NoRecovery ==
    [][module' # module => ~camp.saw]_vars

(***************************************************************************)
(* A worker that got as far as the marker ends, with every timeout of the  *)
(* nested supervisors expiring if need be, also when the decoder never     *)
(* does.                                                                   *)
(***************************************************************************)
WorkerEnds ==
    camp.pc = "mark" ~> camp.pc \in {"ended", "killed"}

=============================================================================
