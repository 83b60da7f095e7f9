----------------------------- MODULE Deployment -----------------------------
(***************************************************************************)
(* From archived traces to a running workload: derive_targets.py, build.py *)
(* and prepare.py produce a candidate manifest, a reviewer pins it, and    *)
(* run.py checks it outside and inside the hardware guard and once more    *)
(* before every workload.  Each of them hashes files one after the other   *)
(* and reads some of them again later, while anything on the disk may      *)
(* change in between: an upgrade, an edit, another build.                  *)
(*                                                                         *)
(* A file's digest is its content.  The manifest keeps, per name, the path *)
(* and the digest of a file.  One name stands for each way a file gets     *)
(* into the manifest: a system file (python), a staged copy (recorder,     *)
(* provenance, evidence), a build product (tools, client), a staged source *)
(* that prepare.py leaves (supervisor) or replaces (validator), an         *)
(* external file that prepare.py rehouses (uapi, corpus), and the          *)
(* generated plan.  The content of a provenance is the module it names.    *)
(*                                                                         *)
(* Any check may also fail for reasons of its own (a full disk, a path     *)
(* that is not root's, a timeout): Refuse is possible at every step.       *)
(***************************************************************************)
EXTENDS Targets

CONSTANTS
    Derivations,  \* what derive_targets.py may be given
    Corpora,      \* contents of the corpus: vector -> NAL kinds
    Tables,       \* target tables the manifest and the controller judge
    MaxDrift,     \* bound: changes of files from outside
    MaxRuns       \* bound: workloads of a campaign

ASSUME DeploymentAssumption ==
    /\ Tables \subseteq [Keys -> TableRow]
    /\ MaxDrift \in Nat
    /\ MaxRuns \in Nat

VARIABLES
    pc,        \* where the tool at work is
    disk,      \* path -> content
    pinned,    \* TARGET_EVIDENCE_SHA: the evidence the builder was written for
    work,      \* build.py: the target document it has parsed, the corpus it hashed
    doc,       \* the manifest the tool at work holds
    check,     \* manifest.validate: the next name to be hashed, where it returns
    verified,  \* the names the last manifest.validate has found unchanged
    config,    \* the campaign config: the pinned manifest, run inside the guard
    runs,      \* workloads started
    drifts

vars == <<pc, disk, pinned, work, doc, check, verified, config, runs, drifts>>

Good == "pinned"
Bad == "other"

(* Mutant: the rehoused UAPI header is recorded but not hashed again. *)
HashedLess ==
    <<"python", "tools", "client", "recorder", "provenance", "evidence",
      "supervisor", "validator", "named", "corpus", "targets", "plan">>

(* validate hashes the artifacts and the runtime sources, reads the        *)
(* provenance again for the module it names, hashes the corpus, reads the  *)
(* evidence again for its targets and hashes the plan, in this order.      *)
Hashed ==
    <<"python", "tools", "client", "recorder", "uapi", "provenance", "evidence",
      "supervisor", "validator", "named", "corpus", "targets", "plan">>

Names == {"python", "tools", "client", "recorder", "uapi", "provenance",
          "evidence", "supervisor", "validator", "corpus", "plan"}

(* build.py: where the recorded files are. *)
BuildPath ==
    [python |-> "/usr/python", tools |-> "stage/tools", client |-> "stage/client",
     recorder |-> "stage/recorder", uapi |-> "uapi",
     provenance |-> "stage/provenance", evidence |-> "stage/evidence",
     supervisor |-> "stage/supervisor", validator |-> "stage/validator",
     corpus |-> "corpus", plan |-> "stage/plan"]

Inputs == {"/usr/python", "glib", "archive", "module", "provenance", "uapi",
           "corpus"}
NoDoc == [state |-> "none"]
NoWork == [sum |-> <<>>, streams |-> <<>>, targets |-> <<>>, corpus |-> <<>>]
NoConfig == [manifest |-> <<>>, guarded |-> FALSE]
NoCheck == [at |-> 1, then |-> "none"]

Init ==
    /\ pc = "derive"
    /\ \E c \in Corpora :
         disk = [p \in Inputs \cup {"repo"} |->
                    CASE p = "corpus" -> c
                      [] p = "repo" -> [commit |-> 1, dirty |-> FALSE]
                      [] OTHER -> Good]
    /\ pinned = <<>> /\ work = NoWork /\ doc = NoDoc /\ config = NoConfig
    /\ check = NoCheck /\ verified = {} /\ runs = 0 /\ drifts = 0

(* The disk after c is written to p. *)
With(d, p, c) == [q \in DOMAIN d \cup {p} |-> IF q = p THEN c ELSE d[q]]

Write(p, c) == disk' = With(disk, p, c)

-----------------------------------------------------------------------------
(* derive_targets.main: the evidence names the streams it was derived from. *)
DeriveTargets ==
    /\ pc = "derive"
    /\ \E d \in Derivations :
         /\ d.nals = disk["corpus"]
         /\ Derivable(d)
         /\ LET evidence == [streams |-> d.nals, targets |-> Derive(d)]
            IN Write("evidence", evidence) /\ pinned' = evidence
    /\ pc' = "inputs"
    /\ UNCHANGED <<work, doc, check, verified, config, runs, drifts>>

-----------------------------------------------------------------------------
(***************************************************************************)
(* build.main, in the order of its reads and copies.                       *)
(***************************************************************************)
(* checked_archive and checked_file. *)
CheckInputs ==
    /\ pc = "inputs"
    /\ disk["archive"] = Good /\ disk["module"] = Good /\ disk["uapi"] = Good
    /\ disk["evidence"] = pinned
    /\ pc' = "tools"
    /\ UNCHANGED <<disk, pinned, work, doc, check, verified, config, runs, drifts>>

(* prepare_glib_tools.prepare: the clean pinned revision, its templates    *)
(* and what they render to.                                                *)
PrepareTools ==
    /\ pc = "tools"
    /\ disk["glib"] = Good
    /\ Write("stage/tools", disk["glib"])
    /\ pc' = "clients"
    /\ UNCHANGED <<pinned, work, doc, check, verified, config, runs, drifts>>

(* The adapters hash the archive they unpack once more. *)
BuildClients ==
    /\ pc = "clients"
    /\ disk["archive"] = Good
    /\ Write("stage/client", disk["archive"])
    /\ pc' = "runtime"
    /\ UNCHANGED <<pinned, work, doc, check, verified, config, runs, drifts>>

(* Copies of the runtime sources; the provenance names the pinned module. *)
StageRuntime ==
    /\ pc = "runtime"
    /\ disk["provenance"] = Good
    /\ disk' = With(With(disk, "stage/supervisor", disk["repo"]),
                    "stage/validator", disk["repo"])
    /\ pc' = "artifacts"
    /\ UNCHANGED <<pinned, work, doc, check, verified, config, runs, drifts>>

(* Copies of the recorder module, its provenance and the evidence. *)
StageArtifacts ==
    /\ pc = "artifacts"
    /\ disk' = With(With(With(disk, "stage/recorder", disk["module"]),
                         "stage/provenance", disk["provenance"]),
                    "stage/evidence", disk["evidence"])
    /\ pc' = "targets"
    /\ UNCHANGED <<pinned, work, doc, check, verified, config, runs, drifts>>

(* The targets are read from the evidence the builder was given, not from  *)
(* the staged copy, whose digest goes with them; the plan is written from  *)
(* them.                                                                   *)
ReadTargets ==
    /\ pc = "targets"
    /\ work' = [work EXCEPT !.sum = disk["stage/evidence"],
                            !.streams = disk["evidence"].streams,
                            !.targets = disk["evidence"].targets]
    /\ ValidatePlan(BuildPlan(work'.targets))
    /\ Write("stage/plan", BuildPlan(work'.targets))
    /\ pc' = "corpus"
    /\ UNCHANGED <<pinned, doc, check, verified, config, runs, drifts>>

(* Mutant: the corpus is recorded as it is. *)
RecordCorpusAny ==
    /\ pc = "corpus"
    /\ work' = [work EXCEPT !.corpus = disk["corpus"]]
    /\ pc' = "record"
    /\ UNCHANGED <<disk, pinned, doc, check, verified, config, runs, drifts>>

(* The corpus is hashed and compared with the streams of the evidence. *)
RecordCorpus ==
    /\ pc = "corpus"
    /\ disk["corpus"] = work.streams
    /\ work' = [work EXCEPT !.corpus = disk["corpus"]]
    /\ pc' = "record"
    /\ UNCHANGED <<disk, pinned, doc, check, verified, config, runs, drifts>>

(* manifest.validate, before its first file: the fields of the manifest. *)
Begin(d, then) ==
    /\ ~d.dirty
    /\ ManifestTargets(d.targets)
    /\ d.evidence = d.files["evidence"].sum
    /\ DOMAIN d.commands = Matrix
    /\ doc' = d
    /\ check' = [at |-> 1, then |-> then]
    /\ verified' = {}
    /\ pc' = "check"

(* The manifest: a record of every file, and what follows from them. *)
RecordManifest ==
    /\ pc = "record"
    /\ LET files == [n \in Names |->
                        [path |-> BuildPath[n],
                         sum |-> IF n = "corpus" THEN work.corpus ELSE disk[BuildPath[n]]]]
       IN Begin([state |-> "candidate",
                 commit |-> disk["repo"].commit, dirty |-> disk["repo"].dirty,
                 files |-> files, targets |-> work.targets, evidence |-> work.sum,
                 commands |-> CommandMatrix(files, work.targets)], "candidate")
    /\ UNCHANGED <<disk, pinned, work, config, runs, drifts>>

WriteCandidate ==
    /\ pc = "candidate"
    /\ Write("candidate", doc)
    /\ pc' = "prepare"
    /\ UNCHANGED <<pinned, work, doc, check, verified, config, runs, drifts>>

-----------------------------------------------------------------------------
(***************************************************************************)
(* manifest.validate: one file after the other.                            *)
(***************************************************************************)
Unchanged(d, n) ==
    CASE n = "named" -> disk[d.files["provenance"].path] = d.files["recorder"].sum
      [] n = "targets" -> disk[d.files["evidence"].path].targets = d.targets
      [] OTHER -> disk[d.files[n].path] = d.files[n].sum

HashNext ==
    /\ pc = "check"
    /\ check.at <= Len(Hashed)
    /\ Unchanged(doc, Hashed[check.at])
    /\ verified' = verified \cup {Hashed[check.at]}
    /\ check' = [check EXCEPT !.at = @ + 1]
    /\ UNCHANGED <<pc, disk, pinned, work, doc, config, runs, drifts>>

HashedAll ==
    /\ pc = "check"
    /\ check.at > Len(Hashed)
    /\ pc' = check.then
    /\ check' = NoCheck
    /\ UNCHANGED <<disk, pinned, work, doc, verified, config, runs, drifts>>

-----------------------------------------------------------------------------
(***************************************************************************)
(* prepare.prepare.                                                        *)
(***************************************************************************)
PrepareReads ==
    /\ pc = "prepare"
    /\ disk["candidate"].state = "candidate"
    /\ Begin(disk["candidate"], "rehouse")
    /\ UNCHANGED <<disk, pinned, work, config, runs, drifts>>

Rehoused == [uapi |-> "campaign/uapi", corpus |-> "campaign/corpus"]

(* git status: the campaign's sources are committed. *)
PrepareClean ==
    /\ pc = "rehouse"
    /\ ~disk["repo"].dirty
    /\ pc' = "copies"
    /\ UNCHANGED <<disk, pinned, work, doc, check, verified, config, runs, drifts>>

(* copy_record of what lies outside stage and system, and the commands     *)
(* over the new paths.                                                     *)
PrepareRehouses ==
    /\ pc = "copies"
    /\ \A n \in {"uapi", "corpus"} : disk[doc.files[n].path] = doc.files[n].sum
    /\ disk' = With(With(disk, Rehoused.uapi, disk["uapi"]),
                    Rehoused.corpus, disk["corpus"])
    /\ LET files == [doc.files EXCEPT !["uapi"].path = Rehoused.uapi,
                                      !["corpus"].path = Rehoused.corpus]
       IN doc' = [doc EXCEPT !.files = files,
                             !.commands = CommandMatrix(files, doc.targets)]
    /\ pc' = "validator"
    /\ UNCHANGED <<pinned, work, check, verified, config, runs, drifts>>

(* The validator of the repository as it is now. *)
PrepareValidator ==
    /\ pc = "validator"
    /\ Write("stage/validator", disk["repo"])
    /\ doc' = [doc EXCEPT !.files["validator"].sum = disk["repo"]]
    /\ pc' = "commit"
    /\ UNCHANGED <<pinned, work, check, verified, config, runs, drifts>>

(* git rev-parse HEAD, and the second validation. *)
PrepareCommit ==
    /\ pc = "commit"
    /\ Begin([doc EXCEPT !.commit = disk["repo"].commit], "prepared")
    /\ UNCHANGED <<disk, pinned, work, config, runs, drifts>>

WritePrepared ==
    /\ pc = "prepared"
    /\ Write("prepared", doc)
    /\ pc' = "review"
    /\ UNCHANGED <<pinned, work, doc, check, verified, config, runs, drifts>>

(* The reviewer changes the state and nothing else, and pins the result. *)
Review ==
    /\ pc = "review"
    /\ Write("manifest", [disk["prepared"] EXCEPT !.state = "reviewed"])
    /\ config' = [manifest |-> disk'["manifest"], guarded |-> FALSE]
    /\ pc' = "config"
    /\ UNCHANGED <<pinned, work, doc, check, verified, runs, drifts>>

-----------------------------------------------------------------------------
(***************************************************************************)
(* run.main: checked_config verifies the manifest, and admitted_document   *)
(* once more; this outside the guard and again inside it.                  *)
(***************************************************************************)
(* manifest.verify: the bytes read have the pinned digest. *)
Verify(then) ==
    /\ disk["manifest"] = config.manifest
    /\ disk["manifest"].state = "reviewed"
    /\ Begin(disk["manifest"], then)
    /\ UNCHANGED <<disk, pinned, work, config, runs, drifts>>

CheckedConfig ==
    pc = "config" /\ Verify("admit")

Admit ==
    pc = "admit" /\ Verify("plan")

(* admitted_document: the plan is read again, rebuilt by the controller    *)
(* and from the targets, and the commands by the builder.                  *)
AdmitPlan ==
    /\ pc = "plan"
    /\ LET plan == disk[doc.files["plan"].path]
       IN /\ plan = doc.files["plan"].sum
          /\ ValidatePlan(plan)
          /\ plan = BuildPlan(doc.targets)
    /\ doc.commands = CommandMatrix(doc.files, doc.targets)
    /\ pc' = IF config.guarded THEN "live" ELSE "guard"
    /\ UNCHANGED <<disk, pinned, work, doc, check, verified, config, runs, drifts>>

(* run_guarded starts the worker, which begins with checked_config. *)
Guard ==
    /\ pc = "guard"
    /\ config' = [config EXCEPT !.guarded = TRUE]
    /\ pc' = "config"
    /\ UNCHANGED <<disk, pinned, work, doc, check, verified, runs, drifts>>

(* Campaign.live_check before a workload: manifest.py --live. *)
LiveCheck ==
    pc = "live" /\ runs < MaxRuns /\ Verify("workload")

(* Campaign.workload starts the admitted command. *)
Workload ==
    /\ pc = "workload"
    /\ pc' = "running"
    /\ runs' = runs + 1
    /\ UNCHANGED <<disk, pinned, work, doc, check, verified, config, drifts>>

WorkloadEnds ==
    /\ pc = "running"
    /\ pc' = IF runs < MaxRuns THEN "live" ELSE "complete"
    /\ UNCHANGED <<disk, pinned, work, doc, check, verified, config, runs, drifts>>

Refuse ==
    /\ pc \notin {"refused", "complete", "running"}
    /\ pc' = "refused"
    /\ UNCHANGED <<disk, pinned, work, doc, check, verified, config, runs, drifts>>

-----------------------------------------------------------------------------
(* What else a file may come to hold. *)
Archived == {d \in Derivations : Derivable(d)}

Other(p) ==
    CASE p \in {"corpus", Rehoused.corpus} -> Corpora
      [] p \in {"evidence", "stage/evidence"} ->
           {[streams |-> d.nals, targets |-> Derive(d)] : d \in Archived}
      [] p = "stage/plan" -> {BuildPlan(Derive(d)) : d \in Archived}
      [] p \in {"repo", "stage/supervisor", "stage/validator"} ->
           {[commit |-> 2, dirty |-> FALSE], [commit |-> 1, dirty |-> TRUE]}
      [] p = "manifest" -> {[disk[p] EXCEPT !.state = "candidate"]}
      [] p \in {"candidate", "prepared"} -> {}
      [] OTHER -> {Bad, Good}

Drift ==
    /\ drifts < MaxDrift
    /\ pc \notin {"refused", "complete"}
    /\ \E p \in DOMAIN disk : \E c \in Other(p) \ {disk[p]} : Write(p, c)
    /\ drifts' = drifts + 1
    /\ UNCHANGED <<pc, pinned, work, doc, check, verified, config, runs>>

Next ==
    \/ DeriveTargets
    \/ CheckInputs \/ PrepareTools \/ BuildClients \/ StageRuntime \/ StageArtifacts
    \/ ReadTargets \/ RecordCorpus \/ RecordManifest \/ WriteCandidate
    \/ HashNext \/ HashedAll
    \/ PrepareReads \/ PrepareClean \/ PrepareRehouses \/ PrepareValidator
    \/ PrepareCommit \/ WritePrepared \/ Review
    \/ CheckedConfig \/ Admit \/ AdmitPlan \/ Guard
    \/ LiveCheck \/ Workload \/ WorkloadEnds
    \/ Refuse
    \/ Drift

Spec == Init /\ [][Next]_vars

-----------------------------------------------------------------------------
(***************************************************************************)
(* Properties.                                                             *)
(***************************************************************************)
Running == pc = "running"

(* A workload starts inside the guard, and every file its command names is *)
(* one the reviewed manifest records and that live_check, run for this     *)
(* workload, has found with the recorded digest: no input escapes the      *)
(* check, whatever changed on the disk and whichever paths prepare.py put  *)
(* in place of the builder's.                                              *)
InputsChecked ==
    Running =>
        /\ config.guarded
        /\ doc = config.manifest
        /\ \A w \in Matrix : \A p \in doc.commands[w].inputs :
             \E n \in verified \cap Names : doc.files[n].path = p

(* The validations a manifest has passed when a workload runs: by the      *)
(* builder, by prepare.py before and after its changes, by checked_config  *)
(* and admitted_document outside and inside the guard, and live.           *)
Validations == 8

(* The parts of the manifest under which a workload runs belong together,  *)
(* although they were read at different times, some of them twice.  The    *)
(* targets are those the builder read, the plan and the selectors of the   *)
(* commands follow from them, the recorded corpus is the one named by the  *)
(* evidence they were read from.  They are also the targets of the         *)
(* recorded evidence, and the recorder is the one its provenance names:    *)
(* validate hashes these files and reads them again, so other targets or   *)
(* another recorder pass only if a file changes before the manifest is     *)
(* made and in every validation of it.                                     *)
PartsBelong ==
    Running =>
        LET evidence == doc.files["evidence"].sum
        IN /\ doc.targets = work.targets
           /\ doc.files["corpus"].sum = work.streams
           /\ doc.files["plan"].sum = BuildPlan(doc.targets)
           /\ \A w \in Matrix :
                doc.commands[w].selectors = doc.targets[<<w[2], w[1]>>].selectors
           /\ drifts <= Validations =>
                /\ doc.targets = evidence.targets
                /\ doc.files["recorder"].sum = doc.files["provenance"].sum

(* See PlanAccepted: manifest.validate and controller.validate_plan agree. *)
PlansAgree ==
    pc = "derive" => \A t \in Tables : PlanAccepted(t)
=============================================================================
