-------------------------- MODULE DeploymentProofs --------------------------
(***************************************************************************)
(* What gets onto the machine and is used there: the tools of the campaign *)
(* (module Deployment) and the driver (module Rebuild, in the last part).  *)
(*                                                                         *)
(* For all tables, corpora and derivations, and however often and whenever *)
(* files change: what runs was checked, and the parts of the manifest      *)
(* belong together.  For every number of outputs and slots and every       *)
(* budget of snapshots: a table of targets the manifest admits gives a     *)
(* plan the controller accepts.                                            *)
(*                                                                         *)
(* A tool holds a manifest, writes it, and the next tool reads it back.    *)
(* Holds says what is known of it at each place.  Rounds counts the        *)
(* validations behind it: a manifest whose targets are not those of its    *)
(* evidence, or whose recorder is not the one its provenance names, costs  *)
(* a change of a file before the first one, and one more in every one of   *)
(* them.                                                                   *)
(***************************************************************************)
EXTENDS Deployment, TLAPS

LEMMA KeysAndMatrix ==
    /\ \A c \in Clients, v \in Vectors : <<c, v>> \in Keys
    /\ \A w \in Matrix : /\ w[1] \in Vectors /\ w[2] \in Clients
                         /\ <<w[2], w[1]>> \in Keys
                         /\ w[2] = "va" \/ w[2] = "gst"
    /\ \A v \in Vectors, c \in Clients, b \in BOOLEAN : <<v, c, b>> \in Matrix
BY Zenon DEF Keys, Matrix, Clients, Vectors

(* One workload of the plan. *)
LEMMA WorkloadAccepted ==
    ASSUME NEW t \in [Keys -> TableRow], ManifestTargets(t), NEW w \in Matrix
    PROVE  ValidWorkload(w, BuildPlan(t)[w]) /\ Len(BuildPlan(t)[w].selectors) = Slots[w[1]]
<1> DEFINE k == <<w[2], w[1]>>
           row == t[k]
           r == BuildPlan(t)[w]
<1>1. /\ k \in Keys /\ k[1] = w[2] /\ k[2] = w[1]
      /\ w[1] \in Vectors /\ w[2] \in {"va", "gst"}
      /\ <<"gst", w[1]>> \in Keys /\ <<"va", w[1]>> \in Keys
  BY Zenon, KeysAndMatrix DEF Clients
<1>2. row \in TableRow
  BY Zenon, <1>1
<1>3. /\ r.domain = Domain(w[2]) /\ r.selectors = row.selectors
      /\ r.arm = 0 /\ r.last = row.last
      /\ r.changes = t[<<"gst", w[1]>>].changes
      /\ r.pool = IF w[2] = "gst" THEN row.pool ELSE None
      /\ r.count = IF w[2] = "va" THEN row.count ELSE None
  BY Zenon DEF BuildPlan
<1>4. TargetRow(k, row)
  BY Zenon, <1>1 DEF ManifestTargets
<1>5. r.changes = row.changes
  BY ZenonT(60), <1>1, <1>3 DEF ManifestTargets
<1>6. Slots[w[1]] \in 1..MaxSelection /\ MaxSelection \in Nat
  BY Zenon, <1>1, TargetsAssumption
<1> HIDE DEF r, row, k
<1>7. /\ Len(row.selectors) = Slots[w[1]]
      /\ Distinct(row.selectors)
      /\ \A i \in 1..Len(row.selectors) :
             /\ row.selectors[i] >= 0
             /\ row.selectors[i] <= row.last
             /\ row.selectors[i] < row.count
      /\ \A i \in 1..Len(row.changes) : row.changes[i] >= 0 /\ row.changes[i] > row.last
      /\ w[2] = "gst" => row.reserve = Slots[w[1]] /\ row.pool > row.reserve
  BY Zenon, <1>1, <1>4 DEF TargetRow
<1>8. /\ row.selectors \in Seq(Int) /\ row.last \in Int /\ row.count \in Int
      /\ row.pool \in Int /\ row.reserve \in Int /\ row.changes \in Seq(Int)
  BY Zenon, <1>2 DEF TableRow
<1>9. 1 \in 1..Len(row.selectors) /\ row.selectors[1] \in Int
  BY SMTT(60), <1>6, <1>7, <1>8
<1>10. row.last >= 0 /\ row.count > 0
  BY SMTT(60), <1>7, <1>8, <1>9
<1>11. r.selectors # <<>> /\ Len(r.selectors) \in 1..MaxSelection
  BY <1>3, <1>6, <1>7, <1>9
<1>12. r.arm >= 0 /\ r.last >= r.arm
  BY <1>3, <1>8, <1>10
<1>13. ASSUME NEW i \in 1..Len(r.changes)
       PROVE  r.changes[i] >= 0 /\ ~(r.arm <= r.changes[i] /\ r.changes[i] <= r.last)
  <2>1. i \in 1..Len(row.changes) /\ r.changes[i] = row.changes[i]
    BY Zenon, <1>5
  <2>2. row.changes[i] \in Int
    BY <1>8, <2>1
  <2>3. row.changes[i] >= 0 /\ row.changes[i] > row.last
    BY Zenon, <1>7, <2>1
  <2>4. r.last = row.last /\ row.last \in Int
    BY Zenon, <1>3, <1>8
  <2> HIDE DEF r, row
  <2> QED  BY <2>1, <2>2, <2>3, <2>4, SMTT(30)
<1>14. IF w[2] = "gst"
         THEN r.count = None /\ r.pool > 0 /\ r.pool > Len(r.selectors)
         ELSE /\ r.pool = None /\ r.count > 0
              /\ \A i \in 1..Len(r.selectors) : r.selectors[i] < r.count
  BY SMTT(60), <1>1, <1>3, <1>6, <1>7, <1>8, <1>10
<1>15. ValidWorkload(w, r)
  BY Zenon, <1>3, <1>7, <1>11, <1>12, <1>13, <1>14 DEF ValidWorkload
<1> QED  BY <1>3, <1>7, <1>15 DEF r

(***************************************************************************)
(* Whatever table the manifest admits, plan_document raises nothing: the   *)
(* eight workloads are valid, the halves of a pair agree and the snapshots *)
(* of the four copying workloads stay within the budget.                   *)
(***************************************************************************)
THEOREM PlanIsAccepted ==
    ASSUME NEW t \in [Keys -> TableRow]
    PROVE  PlanAccepted(t)
<1> SUFFICES ASSUME ManifestTargets(t)
             PROVE  ValidatePlan(BuildPlan(t))
  BY Zenon DEF PlanAccepted
<1> DEFINE p == BuildPlan(t)
<1>1. DOMAIN p = Matrix
  BY Zenon DEF BuildPlan
<1>2. \A w \in Matrix : ValidWorkload(w, p[w]) /\ Len(p[w].selectors) = Slots[w[1]]
  BY Zenon, WorkloadAccepted
<1>3. ASSUME NEW v \in Vectors, NEW c \in Clients
      PROVE  PairAgrees(p, v, c)
  <2>1. <<v, c, FALSE>> \in Matrix /\ <<v, c, TRUE>> \in Matrix
    BY ZenonT(60), KeysAndMatrix
  <2>2. p[<<v, c, FALSE>>] = p[<<v, c, TRUE>>]
    BY Zenon, <2>1 DEF BuildPlan
  <2> HIDE DEF p
  <2> QED  BY <1>2, <2>1, <2>2 DEF PairAgrees
<1>4. Copied(p) <= MaxSnapshots
  <2> HIDE DEF p
  <2>1. /\ <<"B", "va", TRUE>> \in Matrix /\ <<"B", "gst", TRUE>> \in Matrix
        /\ <<"E", "va", TRUE>> \in Matrix /\ <<"E", "gst", TRUE>> \in Matrix
    BY ZenonT(60), KeysAndMatrix DEF Vectors, Clients
  <2>2. Copied(p) = Slots["B"] + Slots["B"] + Slots["E"] + Slots["E"]
    BY ZenonT(60), <1>2, <2>1 DEF Copied
  <2>3. Slots["B"] \in Nat /\ Slots["E"] \in Nat
    BY TargetsAssumption DEF Vectors
  <2> QED  BY <2>2, <2>3, TargetsAssumption
<1> QED  BY <1>1, <1>2, <1>3, <1>4 DEF ValidatePlan

-----------------------------------------------------------------------------
(* Where the tool at work is, or will be when its validation is over. *)
Place ==
    IF pc = "check" THEN check.then ELSE pc

Early == {"derive", "inputs", "tools", "clients", "runtime", "artifacts",
          "targets", "corpus", "record"}
Preparing == {"candidate", "prepare", "rehouse", "copies", "validator", "commit",
              "prepared", "review"}
Admitting == {"config", "admit", "plan", "guard"}
Live == {"live", "workload", "running"}
Over == {"refused", "complete"}
Validating == {"candidate", "rehouse", "prepared", "admit", "plan", "workload"}

(* A record of a file, and a manifest. *)
IsFile(f) ==
    f = [path |-> f.path, sum |-> f.sum]

IsManifest(d) ==
    /\ d = [state |-> d.state, commit |-> d.commit, dirty |-> d.dirty,
            files |-> d.files, targets |-> d.targets,
            evidence |-> d.evidence, commands |-> d.commands]
    /\ d.files = [n \in Names |-> d.files[n]]
    /\ \A n \in Names : IsFile(d.files[n])

(* A manifest of what the builder has read. *)
Built(d) ==
    /\ IsManifest(d)
    /\ d.targets = work.targets
    /\ d.files["corpus"].sum = work.streams

(* Its targets are not those of its evidence. *)
Mixed(d) ==
    d.targets # d.files["evidence"].sum.targets

(* Its recorder is not the one its provenance names. *)
Foreign(d) ==
    d.files["recorder"].sum # d.files["provenance"].sum

(* Its plan and commands are the ones that follow from it. *)
Admitted(d) ==
    /\ d.files["plan"].sum = BuildPlan(d.targets)
    /\ d.commands = CommandMatrix(d.files, d.targets)

(* The validations passed at a place. *)
Passed(place) ==
    CASE place \in {"candidate", "prepare"} -> 1
      [] place \in {"rehouse", "copies", "validator", "commit"} -> 2
      [] place \in {"prepared", "review"} -> 3
      [] place = "config" -> IF config.guarded THEN 5 ELSE 3
      [] place = "admit" -> IF config.guarded THEN 6 ELSE 4
      [] place = "plan" -> IF config.guarded THEN 7 ELSE 5
      [] place = "guard" -> 5
      [] place = "live" -> 7
      [] OTHER -> 8

(* The ones of them in which a name was reached. *)
Rounds(n) ==
    IF pc = "check" /\ n \notin verified THEN Passed(check.then) - 1
                                         ELSE Passed(Place)

Typed ==
    /\ Place \in Early \cup Preparing \cup Admitting \cup Live \cup Over
    /\ pc = "check" => check.then \in Validating
    /\ check = [at |-> check.at, then |-> check.then]
    /\ check.at \in 1..(Len(Hashed) + 1)
    /\ drifts \in Nat
    /\ config = [manifest |-> config.manifest, guarded |-> config.guarded]
    /\ config.guarded \in BOOLEAN
    /\ work = [sum |-> work.sum, streams |-> work.streams,
               targets |-> work.targets, corpus |-> work.corpus]

(* build.main before there is a manifest. *)
Building ==
    /\ {"module", "provenance"} \subseteq DOMAIN disk
    /\ pc \in Early => drifts > 0 \/ disk["module"] = disk["provenance"]
    /\ pc \in {"targets", "corpus", "record"} =>
           /\ {"stage/recorder", "stage/provenance"} \subseteq DOMAIN disk
           /\ drifts > 0 \/ disk["stage/recorder"] = disk["stage/provenance"]
    /\ pc \in Early \ {"derive"} => "evidence" \in DOMAIN disk
    /\ pc = "targets" => drifts > 0 \/ disk["stage/evidence"] = disk["evidence"]
    /\ pc \in {"corpus", "record"} => drifts > 0 \/ work.targets = work.sum.targets
    /\ pc = "record" => work.corpus = work.streams

(* The manifest at hand. *)
Holds ==
    /\ Place \in Preparing \cup Admitting \cup Live => Built(doc)
    /\ Place \in Early \cup Preparing => ~config.guarded
    /\ pc = "prepare" => "candidate" \in DOMAIN disk /\ disk["candidate"] = doc
    /\ pc = "review" => "prepared" \in DOMAIN disk /\ disk["prepared"] = doc
    /\ Place \in Admitting \cup Live =>
           /\ Built(config.manifest)
           /\ config.manifest.targets = doc.targets
           /\ config.manifest.files = doc.files
    /\ Place \in {"admit", "plan", "guard", "workload", "running"} =>
           doc = config.manifest
    /\ Place \in Live => config.guarded /\ Admitted(config.manifest)

(* What the validation under way has hashed. *)
Hashing ==
    /\ pc = "check" => verified = {Hashed[i] : i \in 1..(check.at - 1)}
    /\ pc \in {"workload", "running"} => verified = {Hashed[i] : i \in 1..Len(Hashed)}

(* The price of a manifest whose parts do not belong together: a file is   *)
(* hashed, and what is read from it again is something else.               *)
Priced(file, again) ==
    /\ drifts > Rounds(again)
    /\ pc = "check" /\ file \in verified =>
          \/ drifts > Passed(check.then)
          \/ disk[doc.files[file].path] = doc.files[file].sum

Counted ==
    Place \in Preparing \cup Admitting \cup Live =>
        /\ Mixed(doc) => Priced("evidence", "targets")
        /\ Foreign(doc) => Priced("provenance", "named")

Inv ==
    Typed /\ Building /\ Holds /\ Hashing /\ Counted

-----------------------------------------------------------------------------
LEMMA InvInit ==
    Init => Inv
<1> SUFFICES ASSUME Init PROVE Inv
  BY Zenon
<1>1. pc = "derive" /\ Place = "derive"
  BY Zenon DEF Init, Place
<1>2. Typed
  BY <1>1 DEF Init, Typed, Early, NoCheck, NoConfig, NoWork, Hashed
<1>3. /\ {"module", "provenance"} \subseteq DOMAIN disk
      /\ disk["module"] = disk["provenance"]
  BY Zenon DEF Init, Inputs
<1> QED  BY <1>1, <1>2, <1>3 DEF Init, Inv, Building, Holds, Hashing, Counted, Early,
            Preparing, Admitting, Live, NoConfig

(* The builder before it has a manifest. *)
EarlyStep ==
    \/ DeriveTargets \/ CheckInputs \/ PrepareTools \/ BuildClients
    \/ StageRuntime \/ StageArtifacts \/ ReadTargets \/ RecordCorpus

LEMMA InvEarly ==
    ASSUME Inv, EarlyStep
    PROVE  Inv'
<1>1. pc \in Early /\ pc' \in Early /\ pc # "check" /\ pc' # "check"
  BY Zenon DEF EarlyStep, Early, DeriveTargets, CheckInputs, PrepareTools, BuildClients,
         StageRuntime, StageArtifacts, ReadTargets, RecordCorpus
<1>2. Place = pc /\ Place' = pc'
  BY Zenon, <1>1 DEF Place
<1>3. UNCHANGED <<check, verified, config, drifts>>
  BY Zenon DEF EarlyStep, DeriveTargets, CheckInputs, PrepareTools, BuildClients,
         StageRuntime, StageArtifacts, ReadTargets, RecordCorpus
<1>4. Typed'
  <2>1. work' = [sum |-> work'.sum, streams |-> work'.streams,
                 targets |-> work'.targets, corpus |-> work'.corpus]
    BY ZenonT(60) DEF EarlyStep, DeriveTargets, CheckInputs, PrepareTools, BuildClients,
           StageRuntime, StageArtifacts, ReadTargets, RecordCorpus, Inv, Typed
  <2> QED  BY SMTT(60), <1>1, <1>2, <1>3, <2>1 DEF Inv, Typed
<1>5. Building'
  <2>1. CASE DeriveTargets
    BY ZenonT(60), <2>1, <1>3 DEF DeriveTargets, Write, With, Building, Inv, Early
  <2>2. CASE CheckInputs \/ PrepareTools \/ BuildClients \/ StageRuntime
    BY ZenonT(60), <2>2, <1>3 DEF CheckInputs, PrepareTools, BuildClients, StageRuntime,
                Write, With, Inv, Building, Early
  <2>3. CASE StageArtifacts
    BY ZenonT(60), <2>3, <1>3 DEF StageArtifacts, With, Inv, Building, Early
  <2>4. CASE ReadTargets
    BY ZenonT(60), <2>4, <1>3 DEF ReadTargets, Write, With, Inv, Building, Early, Typed
  <2>5. CASE RecordCorpus
    BY ZenonT(60), <2>5, <1>3 DEF RecordCorpus, Inv, Building, Early, Typed
  <2> QED  BY <2>1, <2>2, <2>3, <2>4, <2>5 DEF EarlyStep
<1>6. Holds' /\ Hashing' /\ Counted'
  BY Zenon, <1>1, <1>2, <1>3 DEF Inv, Holds, Hashing, Counted, Early, Preparing, Admitting, Live
<1> QED  BY <1>4, <1>5, <1>6 DEF Inv

(* The first step of manifest.validate. *)
LEMMA InvBegin ==
    ASSUME Inv, NEW d, NEW then \in Validating, Begin(d, then),
           UNCHANGED <<work, config, drifts>>,
           IsManifest(d), d.targets = work.targets,
           d.files["corpus"].sum = work.streams,
           then \in Preparing => ~config.guarded,
           then \notin Preparing => d = config.manifest,
           then = "workload" => config.guarded /\ Admitted(d),
           {"module", "provenance"} \subseteq DOMAIN disk',
           Mixed(d) \/ Foreign(d) => drifts >= Passed(then)
    PROVE  Inv'
<1>1. /\ pc' = "check" /\ doc' = d /\ verified' = {}
      /\ check' = [at |-> 1, then |-> then]
      /\ Place' = then
  BY Zenon DEF Begin, Place
<1>2. then \in Preparing \cup Admitting \cup Live /\ then \notin Early \cup {"guard", "config"}
  BY Zenon DEF Validating, Preparing, Admitting, Live, Early
<1>3. Typed'
  BY SMTT(60), <1>1, <1>2 DEF Inv, Typed, Hashed
<1>4. Built(d)'
  BY Zenon DEF Begin, Built, IsManifest, IsFile
<1>5. Holds'
  BY Zenon, <1>1, <1>2, <1>4 DEF Holds, Validating, Preparing, Admitting, Live, Admitted, Built
<1>6. Passed(then)' = Passed(then) /\ Passed(then) \in 1..8
  BY <1>1 DEF Passed, Validating
<1>7. Counted'
  BY SMTT(60), <1>1, <1>3, <1>6 DEF Counted, Priced, Rounds, Mixed, Foreign, Typed
<1>8. Hashing' /\ Building'
  BY SMTT(60), <1>1 DEF Hashing, Building, Early
<1> QED  BY <1>3, <1>5, <1>7, <1>8 DEF Inv


(* The manifests that are validated: the builder's own, the one prepare.py *)
(* reads back, the one it makes of it, and the reviewed one.               *)
LEMMA InvRecordManifest ==
    ASSUME Inv, RecordManifest
    PROVE  Inv'
<1> DEFINE files == [n \in Names |->
                        [path |-> BuildPath[n],
                         sum |-> IF n = "corpus" THEN work.corpus ELSE disk[BuildPath[n]]]]
           d == [state |-> "candidate",
                 commit |-> disk["repo"].commit, dirty |-> disk["repo"].dirty,
                 files |-> files, targets |-> work.targets, evidence |-> work.sum,
                 commands |-> CommandMatrix(files, work.targets)]
<1>1. Begin(d, "candidate") /\ UNCHANGED <<work, config, drifts>> /\ pc = "record"
  BY Zenon DEF RecordManifest
<1>2. IsManifest(d) /\ d.targets = work.targets /\ d.files["corpus"].sum = work.corpus
  BY Zenon DEF IsManifest, IsFile, Names
<1>3. d.files["evidence"].sum = work.sum
  BY Zenon, <1>1 DEF Begin
<1>4. Place = "record" /\ ~config.guarded /\ work.corpus = work.streams
      /\ (drifts > 0 \/ work.targets = work.sum.targets)
      /\ (drifts > 0 \/ disk["stage/recorder"] = disk["stage/provenance"])
      /\ {"module", "provenance"} \subseteq DOMAIN disk'
  BY ZenonT(60), <1>1 DEF Place, Inv, Holds, Building, Early, RecordManifest
<1>5. Mixed(d) \/ Foreign(d) => drifts >= Passed("candidate")
  <2>1. /\ d.files["recorder"].sum = disk["stage/recorder"]
        /\ d.files["provenance"].sum = disk["stage/provenance"]
    BY Zenon DEF Names, BuildPath
  <2>2. Mixed(d) \/ Foreign(d) => drifts > 0
    BY Zenon, <1>2, <1>3, <1>4, <2>1 DEF Mixed, Foreign
  <2> QED  BY SMTT(60), <2>2 DEF Passed, Inv, Typed
<1>6. "candidate" \in Validating /\ "candidate" \in Preparing
  BY Zenon DEF Validating, Preparing
<1> HIDE DEF d
<1> QED  BY SMTT(60), <1>1, <1>2, <1>4, <1>5, <1>6, InvBegin

LEMMA InvPrepareReads ==
    ASSUME Inv, PrepareReads
    PROVE  Inv'
<1>1. /\ Begin(disk["candidate"], "rehouse") /\ UNCHANGED <<work, config, drifts>>
      /\ pc = "prepare"
  BY Zenon DEF PrepareReads
<1>2. Place = "prepare" /\ ~config.guarded /\ disk["candidate"] = doc /\ Built(doc)
      /\ {"module", "provenance"} \subseteq DOMAIN disk'
  BY Zenon, <1>1 DEF Place, Inv, Holds, Preparing, Building, PrepareReads
<1>3. Mixed(doc) \/ Foreign(doc) => drifts >= Passed("rehouse")
  BY SMTT(60), <1>1, <1>2 DEF Inv, Counted, Priced, Preparing, Rounds, Passed, Typed
<1>4. "rehouse" \in Validating /\ "rehouse" \in Preparing
  BY Zenon DEF Validating, Preparing
<1> QED  BY <1>1, <1>2, <1>3, <1>4, InvBegin DEF Built

(* The steps of prepare.py between its two validations. *)
LEMMA InvPrepares ==
    ASSUME Inv, pc \in {"rehouse", "copies", "validator"},
           pc' \in {"copies", "validator", "commit"},
           UNCHANGED <<work, check, verified, config, drifts>>,
           DOMAIN disk \subseteq DOMAIN disk',
           IsManifest(doc)', doc'.targets = doc.targets,
           \A n \in Names : doc'.files[n].sum = doc.files[n].sum \/ n = "validator"
    PROVE  Inv'
<1>1. /\ Place = pc /\ Place' = pc' /\ pc \in Preparing /\ pc' \in Preparing
      /\ pc \notin Early \cup Admitting \cup Live \cup {"check", "prepare", "review"}
      /\ pc' \notin Early \cup Admitting \cup Live \cup {"check", "prepare", "review"}
  BY Zenon DEF Place, Preparing, Early, Admitting, Live
<1>2. /\ doc'.files["corpus"].sum = doc.files["corpus"].sum
      /\ doc'.files["evidence"].sum = doc.files["evidence"].sum
      /\ doc'.files["recorder"].sum = doc.files["recorder"].sum
      /\ doc'.files["provenance"].sum = doc.files["provenance"].sum
  BY Zenon DEF Names
<1>3. Typed'
  BY Zenon, <1>1 DEF Inv, Typed
<1>4. Building' /\ Hashing'
  BY Zenon, <1>1 DEF Inv, Building, Hashing, Early
<1>5. Holds'
  <2>1. Built(doc)'
    BY Zenon, <1>1, <1>2 DEF Inv, Holds, Built
  <2>2. ~config'.guarded
    BY Zenon, <1>1 DEF Inv, Holds
  <2> QED  BY Zenon, <1>1, <2>1, <2>2 DEF Holds, Admitting, Live
<1>6. Counted'
  <2>1. /\ Mixed(doc)' => Mixed(doc)
        /\ Foreign(doc)' => Foreign(doc)
    BY Zenon, <1>2 DEF Mixed, Foreign
  <2>2. Passed(pc) = 2 /\ Passed(pc)' = 2
    BY SMTT(60) DEF Passed
  <2>3. \A n : Rounds(n) = 2 /\ Rounds(n)' = 2
    BY Zenon, <1>1, <2>2 DEF Rounds
  <2> QED  BY Zenon, <1>1, <2>1, <2>3 DEF Inv, Counted, Priced
<1> QED  BY Zenon, <1>3, <1>4, <1>5, <1>6 DEF Inv

LEMMA InvPrepareClean ==
    ASSUME Inv, PrepareClean
    PROVE  Inv'
<1>1. /\ pc = "rehouse" /\ pc' = "copies"
      /\ UNCHANGED <<disk, doc, work, check, verified, config, drifts>>
  BY Zenon DEF PrepareClean
<1>2. Built(doc)
  BY Zenon, <1>1 DEF Place, Inv, Holds, Preparing
<1>3. IsManifest(doc)'
  BY Zenon, <1>1, <1>2 DEF Built, IsManifest
<1>4. DOMAIN disk \subseteq DOMAIN disk'
  BY Zenon, <1>1
<1> QED  BY ZenonT(60), <1>1, <1>3, <1>4, InvPrepares

LEMMA InvPrepareRehouses ==
    ASSUME Inv, PrepareRehouses
    PROVE  Inv'
<1> DEFINE files == [doc.files EXCEPT
                        !["uapi"].path = Rehoused.uapi,
                        !["corpus"].path = Rehoused.corpus]
           commands == CommandMatrix(files, doc.targets)
           d == [doc EXCEPT !.files = files, !.commands = commands]
<1>1. /\ pc = "copies" /\ pc' = "validator" /\ doc' = d
      /\ UNCHANGED <<work, check, verified, config, drifts>>
      /\ DOMAIN disk \subseteq DOMAIN disk'
  BY Zenon DEF PrepareRehouses, With
<1>2. Built(doc)
  BY Zenon, <1>1 DEF Place, Inv, Holds, Preparing
<1>3. /\ files = [n \in Names |-> files[n]]
      /\ \A n \in Names : IsFile(files[n])
      /\ \A n \in Names : files[n].sum = doc.files[n].sum
  BY ZenonT(60), <1>2 DEF Built, IsManifest, IsFile, Names
<1> HIDE DEF files, commands
<1>4. IsManifest(d) /\ d.targets = doc.targets /\ d.files = files
  <2> DEFINE d1 == [doc EXCEPT !.files = files]
             d2 == [d1 EXCEPT !.commands = commands]
  <2>1. d = d2
    BY Zenon
  <2>2. d1 = [state |-> doc.state, commit |-> doc.commit, dirty |-> doc.dirty,
              files |-> files, targets |-> doc.targets, evidence |-> doc.evidence,
              commands |-> doc.commands]
    BY <1>2 DEF Built, IsManifest
  <2> HIDE DEF d1
  <2>3. d2 = [state |-> doc.state, commit |-> doc.commit, dirty |-> doc.dirty,
              files |-> files, targets |-> doc.targets, evidence |-> doc.evidence,
              commands |-> commands]
    BY <2>2
  <2> HIDE DEF d, d2
  <2> QED  BY <2>1, <2>3, <1>3 DEF IsManifest
<1> HIDE DEF d
<1>5. IsManifest(doc)'
  BY Zenon, <1>1, <1>4 DEF IsManifest
<1>6. /\ doc'.targets = doc.targets
      /\ \A n \in Names : doc'.files[n].sum = doc.files[n].sum \/ n = "validator"
  BY Zenon, <1>1, <1>3, <1>4
<1> QED  BY ZenonT(60), <1>1, <1>5, <1>6, InvPrepares

LEMMA InvPrepareValidator ==
    ASSUME Inv, PrepareValidator
    PROVE  Inv'
<1> DEFINE files == [doc.files EXCEPT !["validator"].sum = disk["repo"]]
           d == [doc EXCEPT !.files = files]
<1>1. /\ pc = "validator" /\ pc' = "commit" /\ doc' = d
      /\ UNCHANGED <<work, check, verified, config, drifts>>
      /\ DOMAIN disk \subseteq DOMAIN disk'
  BY Zenon DEF PrepareValidator, Write, With
<1>2. Built(doc)
  BY Zenon, <1>1 DEF Place, Inv, Holds, Preparing
<1>3. /\ files = [n \in Names |-> files[n]]
      /\ \A n \in Names : IsFile(files[n])
      /\ \A n \in Names : files[n].sum = doc.files[n].sum \/ n = "validator"
  BY ZenonT(60), <1>2 DEF Built, IsManifest, IsFile, Names
<1> HIDE DEF files
<1>4. d = [state |-> doc.state, commit |-> doc.commit, dirty |-> doc.dirty,
           files |-> files, targets |-> doc.targets, evidence |-> doc.evidence,
           commands |-> doc.commands]
  BY <1>2 DEF Built, IsManifest
<1> HIDE DEF d
<1>5. IsManifest(doc)'
  BY <1>1, <1>3, <1>4 DEF IsManifest
<1>6. /\ doc'.targets = doc.targets
      /\ \A n \in Names : doc'.files[n].sum = doc.files[n].sum \/ n = "validator"
  BY Zenon, <1>1, <1>3, <1>4
<1> QED  BY ZenonT(60), <1>1, <1>5, <1>6, InvPrepares

LEMMA InvPrepareCommit ==
    ASSUME Inv, PrepareCommit
    PROVE  Inv'
<1> DEFINE commit == disk["repo"].commit
           d == [doc EXCEPT !.commit = commit]
<1>1. Begin(d, "prepared") /\ UNCHANGED <<work, config, drifts, disk>> /\ pc = "commit"
  BY Zenon DEF PrepareCommit
<1>2. Place = "commit" /\ ~config.guarded /\ Built(doc)
      /\ {"module", "provenance"} \subseteq DOMAIN disk'
  BY Zenon, <1>1 DEF Place, Inv, Holds, Preparing, Building
<1> HIDE DEF commit
<1>3. d = [state |-> doc.state, commit |-> commit, dirty |-> doc.dirty,
           files |-> doc.files, targets |-> doc.targets,
           evidence |-> doc.evidence, commands |-> doc.commands]
  BY <1>2 DEF Built, IsManifest
<1> HIDE DEF d
<1>4. IsManifest(d) /\ d.targets = doc.targets /\ d.files = doc.files
  BY <1>2, <1>3 DEF Built, IsManifest
<1>5. Mixed(d) \/ Foreign(d) => drifts >= Passed("prepared")
  <2>1. Mixed(d) \/ Foreign(d) => Mixed(doc) \/ Foreign(doc)
    BY Zenon, <1>4 DEF Mixed, Foreign
  <2> QED  BY SMTT(60), <2>1, <1>1, <1>2 DEF Inv, Counted, Priced, Preparing, Rounds,
           Passed, Typed
<1>6. "prepared" \in Validating /\ "prepared" \in Preparing
  BY Zenon DEF Validating, Preparing
<1>7. d.targets = work.targets /\ d.files["corpus"].sum = work.streams
  BY Zenon, <1>2, <1>4 DEF Built
<1> QED  BY <1>1, <1>2, <1>4, <1>5, <1>6, <1>7, InvBegin

LEMMA InvVerify ==
    ASSUME Inv, CheckedConfig \/ Admit \/ LiveCheck
    PROVE  Inv'
<1> DEFINE d == config.manifest
<1>1. PICK then \in {"admit", "plan", "workload"} :
         /\ Verify(then)
         /\ then = "admit" => pc = "config"
         /\ then = "plan" => pc = "admit"
         /\ then = "workload" => pc = "live"
  BY Zenon DEF CheckedConfig, Admit, LiveCheck
<1>2. Begin(d, then) /\ UNCHANGED <<work, config, drifts>>
      /\ {"module", "provenance"} \subseteq DOMAIN disk'
  BY Zenon, <1>1 DEF Verify, Inv, Building
<1>3. Place = pc /\ pc \in {"config", "admit", "live"}
  BY Zenon, <1>1 DEF Place
<1>4. Built(d) /\ d.targets = doc.targets /\ d.files = doc.files
  BY Zenon, <1>3 DEF Inv, Holds, Admitting, Live
<1>5. pc = "live" => config.guarded /\ Admitted(d)
  BY Zenon, <1>3 DEF Inv, Holds, Live
<1>6. Mixed(d) \/ Foreign(d) => drifts >= Passed(then)
  <2>1. Mixed(d) \/ Foreign(d) => drifts > Passed(pc)
    BY Zenon, <1>3, <1>4 DEF Mixed, Foreign, Inv, Counted, Priced, Rounds, Admitting, Live
  <2> QED  BY <2>1, <1>1, <1>3, <1>5 DEF Passed, Inv, Typed
<1>7. then \in Validating /\ then \notin Preparing
  BY Zenon DEF Validating, Preparing
<1> HIDE DEF d
<1> QED  BY <1>1, <1>2, <1>4, <1>5, <1>6, <1>7, InvBegin DEF Built, d


-----------------------------------------------------------------------------
(* One more file is found unchanged.  The evidence comes before the        *)
(* targets: what is recorded of it and what is read from it disagree only  *)
(* if it has changed in between.                                           *)
LEMMA InvHashNext ==
    ASSUME Inv, HashNext
    PROVE  Inv'
<1> DEFINE n == Hashed[check.at]
<1>1. /\ pc = "check" /\ check.at \in 1..Len(Hashed) /\ Unchanged(doc, n)
      /\ verified' = verified \cup {n}
      /\ check' = [check EXCEPT !.at = @ + 1]
      /\ UNCHANGED <<pc, disk, pinned, work, doc, config, runs, drifts>>
  BY DEF HashNext, Inv, Typed, Hashed
<1>2. check'.at = check.at + 1 /\ check'.then = check.then
      /\ check' = [at |-> check'.at, then |-> check'.then]
  BY Zenon, <1>1 DEF Inv, Typed
<1>3. Place' = Place /\ Place = check.then
  BY Zenon, <1>1, <1>2 DEF Place
<1>4. Typed'
  BY <1>1, <1>2, <1>3 DEF Inv, Typed, Hashed
<1>5. Hashing' /\ Building'
  <2>1. verified' = {Hashed[i] : i \in 1..(check'.at - 1)}
    BY <1>1, <1>2 DEF Inv, Hashing, Typed
  <2> QED  BY Zenon, <1>1, <2>1 DEF Inv, Hashing, Building, Early
<1>6. Holds'
  BY Zenon, <1>1, <1>3 DEF Inv, Holds, Built, Admitted
<1>7. Counted'
  <2> DEFINE k == Passed(check.then)
  <2>1. k \in 1..8 /\ drifts \in Nat /\ Passed(check.then)' = k
    <3>1. check.then \in Validating
      BY Zenon, <1>1 DEF Inv, Typed
    <3>2. check'.then = check.then /\ config' = config
      BY Zenon, <1>1, <1>2
    <3>3. k \in 1..8
      BY SMTT(60), <3>1 DEF Passed, Validating
    <3>4. Passed(check.then)' = k
      BY Zenon, <3>2 DEF Passed
    <3> QED  BY Zenon, <3>3, <3>4 DEF Inv, Typed
  <2>2. \A m : /\ Rounds(m) = IF m \notin verified THEN k - 1 ELSE k
              /\ Rounds(m)' = IF m \notin verified' THEN k - 1 ELSE k
    BY Zenon, <1>1, <1>2, <1>3, <2>1 DEF Rounds, Passed
  <2>3. /\ n = "targets" => "evidence" \in verified
        /\ n = "named" => "provenance" \in verified
    <3>1. /\ n = "targets" => 7 \in 1..(check.at - 1)
          /\ n = "named" => 6 \in 1..(check.at - 1)
      BY <1>1 DEF Hashed
    <3>2. Hashed[7] = "evidence" /\ Hashed[6] = "provenance"
      BY Zenon DEF Hashed
    <3> HIDE DEF n
    <3> QED  BY <3>1, <3>2, <1>1 DEF Inv, Hashing
  <2>4. /\ n = "targets" =>
             disk[doc.files["evidence"].path].targets = doc.targets
        /\ n = "named" =>
             disk[doc.files["provenance"].path] = doc.files["recorder"].sum
        /\ n \in {"evidence", "provenance"} =>
             disk[doc.files[n].path] = doc.files[n].sum
    BY Zenon, <1>1 DEF Unchanged
  <2> HIDE DEF n, k
  <2>5. ASSUME NEW file \in {"evidence", "provenance"}, NEW again,
               Priced(file, again), file \in verified => n # again \/ drifts > k,
               n = again => file \in verified
        PROVE  Priced(file, again)'
    <3>1. drifts > Rounds(again)'
      BY <1>1, <2>1, <2>2, <2>5 DEF Priced
    <3>2. file \in verified' => drifts > k \/ disk[doc.files[file].path] = doc.files[file].sum
      BY Zenon, <1>1, <2>4, <2>5 DEF Priced, k
    <3> QED  BY Zenon, <1>1, <2>1, <3>1, <3>2 DEF Priced
  <2>6. ASSUME Place \in Preparing \cup Admitting \cup Live, Mixed(doc)
        PROVE  Priced("evidence", "targets")'
    <3>1. Priced("evidence", "targets")
      BY Zenon, <2>6 DEF Inv, Counted
    <3>2. "evidence" \in verified => n # "targets" \/ drifts > k
      BY Zenon, <1>1, <2>4, <2>6, <3>1 DEF Priced, Mixed, k
    <3> QED  BY Zenon, <2>3, <2>5, <3>1, <3>2
  <2>7. ASSUME Place \in Preparing \cup Admitting \cup Live, Foreign(doc)
        PROVE  Priced("provenance", "named")'
    <3>1. Priced("provenance", "named")
      BY Zenon, <2>7 DEF Inv, Counted
    <3>2. "provenance" \in verified => n # "named" \/ drifts > k
      BY Zenon, <1>1, <2>4, <2>7, <3>1 DEF Priced, Foreign, k
    <3> QED  BY Zenon, <2>3, <2>5, <3>1, <3>2
  <2> QED  BY Zenon, <1>1, <1>3, <2>6, <2>7 DEF Counted, Mixed, Foreign
<1> QED  BY <1>4, <1>5, <1>6, <1>7 DEF Inv

LEMMA InvHashedAll ==
    ASSUME Inv, HashedAll
    PROVE  Inv'
<1>1. /\ pc = "check" /\ pc' = check.then /\ check' = NoCheck
      /\ UNCHANGED <<disk, work, doc, verified, config, drifts>>
      /\ check.at = Len(Hashed) + 1 /\ pc' \in Validating
  BY DEF HashedAll, Inv, Typed, Hashed
<1>2. Place' = Place /\ pc' # "check" /\ Place = check.then
  BY Zenon, <1>1 DEF Place, Validating
<1>3. verified = {Hashed[i] : i \in 1..Len(Hashed)}
  BY <1>1 DEF Inv, Hashing, Hashed
<1>4. "targets" \in verified /\ "named" \in verified
  <2>1. /\ 12 \in 1..Len(Hashed) /\ Hashed[12] = "targets"
        /\ 10 \in 1..Len(Hashed) /\ Hashed[10] = "named"
    BY SMTT(60) DEF Hashed
  <2> QED  BY <1>3, <2>1
<1>5. Typed' /\ Building'
  BY SMTT(60), <1>1, <1>2 DEF Inv, Typed, Building, NoCheck, Hashed, Early, Validating
<1>6. Holds' /\ Hashing'
  BY Zenon, <1>1, <1>2, <1>3 DEF Inv, Holds, Hashing, Validating, Built, Admitted
<1>7. Counted'
  BY Zenon, <1>1, <1>2, <1>4 DEF Inv, Counted, Priced, Rounds, Passed, Mixed, Foreign
<1> QED  BY SMTT(60), <1>5, <1>6, <1>7 DEF Inv

(* The manifest is written where the next tool reads it. *)
LEMMA InvWrites ==
    ASSUME Inv, WriteCandidate \/ WritePrepared
    PROVE  Inv'
<1>1. /\ \/ pc = "candidate" /\ pc' = "prepare" /\ Write("candidate", doc)
         \/ pc = "prepared" /\ pc' = "review" /\ Write("prepared", doc)
      /\ UNCHANGED <<work, doc, check, verified, config, drifts>>
  BY Zenon DEF WriteCandidate, WritePrepared
<1>2. Place = pc /\ Place' = pc' /\ pc \in Preparing /\ pc' \in Preparing
  BY Zenon, <1>1 DEF Place, Preparing
<1>3. Typed' /\ Building' /\ Hashing'
  BY ZenonT(60), <1>1, <1>2 DEF Inv, Typed, Building, Hashing, Early, Preparing, Write, With
<1>4. Holds'
  BY Zenon, <1>1, <1>2 DEF Inv, Holds, Preparing, Admitting, Live, Write, With, Built
<1>5. Counted'
  BY Zenon, <1>1, <1>2 DEF Inv, Counted, Priced, Rounds, Passed, Mixed, Foreign
<1> QED  BY <1>3, <1>4, <1>5 DEF Inv

(* The reviewer changes nothing that matters here. *)
LEMMA InvReview ==
    ASSUME Inv, Review
    PROVE  Inv'
<1> DEFINE d == [doc EXCEPT !.state = "reviewed"]
<1>1. /\ pc = "review" /\ pc' = "config" /\ Place = "review" /\ Place' = "config"
      /\ UNCHANGED <<work, doc, check, verified, drifts>>
  BY Zenon DEF Review, Place
<1>2. Built(doc) /\ disk["prepared"] = doc
  BY Zenon, <1>1 DEF Inv, Holds, Preparing
<1>3. config' = [manifest |-> d, guarded |-> FALSE]
  BY Zenon, <1>2 DEF Review, Write, With
<1>4. IsManifest(d) /\ d.targets = doc.targets /\ d.files = doc.files
  <2>1. d = [state |-> "reviewed", commit |-> doc.commit, dirty |-> doc.dirty,
             files |-> doc.files, targets |-> doc.targets,
             evidence |-> doc.evidence, commands |-> doc.commands]
    BY SMTT(60), <1>2 DEF Built, IsManifest
  <2> HIDE DEF d
  <2> QED  BY <2>1, <1>2 DEF Built, IsManifest
<1> HIDE DEF d
<1>5. Typed' /\ Building' /\ Hashing'
  <2>1. DOMAIN disk \subseteq DOMAIN disk'
    BY Zenon DEF Review, Write, With
  <2>2. Building'
    BY Zenon, <1>1, <2>1 DEF Inv, Building, Early
  <2>3. Typed' /\ Hashing'
    BY Zenon, <1>1, <1>3 DEF Inv, Typed, Hashing, Admitting
  <2> QED  BY Zenon, <2>2, <2>3
<1>6. Holds'
  BY Zenon, <1>1, <1>2, <1>3, <1>4 DEF Holds, Early, Preparing, Admitting, Live, Built
<1>7. Counted'
  BY Zenon, <1>1, <1>3 DEF Inv, Counted, Priced, Rounds, Passed, Mixed, Foreign,
     Preparing
<1> QED  BY <1>5, <1>6, <1>7 DEF Inv

LEMMA InvAdmitPlan ==
    ASSUME Inv, AdmitPlan
    PROVE  Inv'
<1>1. /\ pc = "plan" /\ pc' = IF config.guarded THEN "live" ELSE "guard"
      /\ Admitted(doc)
      /\ UNCHANGED <<disk, work, doc, check, verified, config, drifts>>
  BY Zenon DEF AdmitPlan, Admitted
<1>2. Place = pc /\ Place' = pc' /\ doc = config.manifest
  BY Zenon, <1>1 DEF Place, Inv, Holds
<1>3. Typed' /\ Building' /\ Hashing'
  BY Zenon, <1>1, <1>2 DEF Inv, Typed, Building, Hashing, Early, Admitting, Live
<1>4. Holds'
  BY Zenon, <1>1, <1>2 DEF Inv, Holds, Early, Preparing, Admitting, Live, Built, Admitted
<1>5. Counted'
  BY Zenon, <1>1, <1>2 DEF Inv, Counted, Priced, Rounds, Passed, Mixed, Foreign,
     Admitting
<1> QED  BY <1>3, <1>4, <1>5 DEF Inv

LEMMA InvGuard ==
    ASSUME Inv, Guard
    PROVE  Inv'
<1>1. /\ pc = "guard" /\ pc' = "config" /\ Place = "guard" /\ Place' = "config"
      /\ config' = [config EXCEPT !.guarded = TRUE]
      /\ UNCHANGED <<disk, work, doc, check, verified, drifts>>
  BY Zenon DEF Guard, Place
<1>2. config'.manifest = config.manifest /\ config'.guarded
      /\ config' = [manifest |-> config'.manifest, guarded |-> config'.guarded]
  BY ZenonT(60), <1>1 DEF Inv, Typed
<1>3. Typed' /\ Building' /\ Hashing'
  BY Zenon, <1>1, <1>2 DEF Inv, Typed, Building, Hashing, Early, Admitting
<1>4. Holds'
  BY Zenon, <1>1, <1>2 DEF Inv, Holds, Early, Preparing, Admitting, Live, Built
<1>5. Counted'
  BY Zenon, <1>1, <1>2 DEF Inv, Counted, Priced, Rounds, Passed, Mixed, Foreign,
     Admitting
<1> QED  BY <1>3, <1>4, <1>5 DEF Inv

LEMMA InvWorkload ==
    ASSUME Inv, Workload \/ WorkloadEnds
    PROVE  Inv'
<1>1. /\ \/ pc = "workload" /\ pc' = "running"
         \/ pc = "running" /\ pc' \in {"live", "complete"}
      /\ UNCHANGED <<disk, work, doc, check, verified, config, drifts>>
  BY Zenon DEF Workload, WorkloadEnds
<1>2. Place = pc /\ Place' = pc'
  BY Zenon, <1>1 DEF Place
<1>3. Typed' /\ Building' /\ Hashing'
  BY Zenon, <1>1, <1>2 DEF Inv, Typed, Building, Hashing, Early, Live, Over
<1>4. Holds'
  BY Zenon, <1>1, <1>2 DEF Inv, Holds, Early, Preparing, Admitting, Live, Built, Admitted
<1>5. Counted'
  BY SMTT(60), <1>1, <1>2 DEF Inv, Counted, Priced, Rounds, Passed, Mixed, Foreign,
     Preparing, Admitting, Live, Typed
<1> QED  BY <1>3, <1>4, <1>5 DEF Inv

LEMMA InvRefuse ==
    ASSUME Inv, Refuse
    PROVE  Inv'
<1>1. /\ pc' = "refused" /\ Place' = "refused"
      /\ UNCHANGED <<disk, work, doc, check, verified, config, drifts>>
  BY Zenon DEF Refuse, Place
<1>2. Typed'
  BY Zenon, <1>1 DEF Inv, Typed, Over
<1> QED  BY <1>1, <1>2 DEF Inv, Building, Holds, Hashing, Counted, Early, Preparing,
            Admitting, Live

(* A file changes; the candidate and the prepared manifest do not, and one *)
(* more change is counted.                                                 *)
LEMMA InvDrift ==
    ASSUME Inv, Drift
    PROVE  Inv'
<1>1. PICK p \in DOMAIN disk : \E c \in Other(p) : Write(p, c)
  BY Zenon DEF Drift
<1>2. PICK c \in Other(p) : Write(p, c)
  BY Zenon, <1>1
<1>3. /\ drifts' = drifts + 1 /\ drifts \in Nat
      /\ UNCHANGED <<pc, pinned, work, doc, check, verified, config, runs>>
  BY Zenon DEF Drift, Inv, Typed
<1>4. p \notin {"candidate", "prepared"}
  BY Zenon, <1>2 DEF Other, Rehoused
<1>5. /\ DOMAIN disk' = DOMAIN disk
      /\ disk'["candidate"] = disk["candidate"] \/ "candidate" \notin DOMAIN disk
      /\ disk'["prepared"] = disk["prepared"] \/ "prepared" \notin DOMAIN disk
  BY Zenon, <1>2, <1>4 DEF Write, With
<1>6. Place' = Place
  BY Zenon, <1>3 DEF Place
<1>7. Typed' /\ Hashing' /\ Building'
  BY SMTT(60), <1>3, <1>5, <1>6 DEF Inv, Typed, Hashing, Building
<1>8. Holds'
  BY Zenon, <1>3, <1>5, <1>6 DEF Inv, Holds, Built, Admitted
<1>9. Counted'
  <2>1. \A q : Passed(q)' = Passed(q) /\ Passed(q) \in 1..8
    BY SMTT(60), <1>3 DEF Passed
  <2>2. /\ \A n : Rounds(n)' = Rounds(n)
        /\ Mixed(doc)' => Mixed(doc)
        /\ Foreign(doc)' => Foreign(doc)
    BY Zenon, <1>3, <1>6, <2>1 DEF Rounds, Mixed, Foreign
  <2>3. \A n : Rounds(n) \in {Passed(Place), Passed(Place) - 1} /\ Rounds(n) \in Nat
    BY <2>1 DEF Rounds, Place
  <2>4. pc = "check" => Place = check.then
    BY Zenon DEF Place
  <2>5. ASSUME NEW file, NEW again, Priced(file, again) PROVE Priced(file, again)'
    <3>1. drifts > Rounds(again)
      BY Zenon, <2>5 DEF Priced
    <3>2. drifts' > Rounds(again)' /\ (pc = "check" => drifts' > Passed(check.then))
      BY <1>3, <2>1, <2>2, <2>3, <2>4, <3>1
    <3> QED  BY Zenon, <1>3, <2>1, <3>2 DEF Priced
  <2> QED  BY Zenon, <1>6, <2>2, <2>5 DEF Inv, Counted
<1> QED  BY <1>7, <1>8, <1>9 DEF Inv

LEMMA InvNext ==
    Inv /\ [Next]_vars => Inv'
<1> SUFFICES ASSUME Inv, [Next]_vars PROVE Inv'
  BY Zenon
<1>1. CASE UNCHANGED vars
  BY SMTT(60), <1>1 DEF vars, Inv, Typed, Building, Holds, Hashing, Counted, Priced, Place,
              Rounds, Passed, Mixed, Foreign, Built, Admitted
<1>2. CASE EarlyStep
  BY Zenon, <1>2, InvEarly
<1>3. CASE Next /\ ~EarlyStep
  BY Zenon, <1>3, InvRecordManifest, InvPrepareReads, InvPrepareClean,
     InvPrepareRehouses, InvPrepareValidator, InvPrepareCommit, InvVerify, InvHashNext,
     InvHashedAll, InvWrites, InvReview, InvAdmitPlan, InvGuard, InvWorkload, InvRefuse,
     InvDrift DEF Next, EarlyStep
<1> QED  BY <1>1, <1>2, <1>3

-----------------------------------------------------------------------------
LEMMA Invariance ==
    Spec => []Inv
BY InvInit, InvNext, PTL DEF Spec

(***************************************************************************)
(* A workload runs inside the guard under the reviewed manifest, and live  *)
(* validation has hashed every file its command names, for any number of   *)
(* changes of files at any time.                                           *)
(***************************************************************************)
THEOREM InputsAreChecked ==
    Spec => []InputsChecked
<1>1. Inv => InputsChecked
  <2> SUFFICES ASSUME Inv, Running
               PROVE  /\ config.guarded
                      /\ doc = config.manifest
                      /\ \A w \in Matrix : \A p \in doc.commands[w].inputs :
                           \E n \in verified \cap Names : doc.files[n].path = p
    BY Zenon DEF InputsChecked
  <2>1. Place = "running" /\ pc = "running"
    BY Zenon DEF Running, Place
  <2>2. config.guarded /\ doc = config.manifest /\ Admitted(doc)
    BY Zenon, <2>1 DEF Inv, Holds, Live
  <2>3. {"python", "supervisor", "uapi", "client", "corpus"} \subseteq verified \cap Names
    <3>1. verified = {Hashed[i] : i \in 1..Len(Hashed)}
      BY Zenon, <2>1 DEF Inv, Hashing
    <3>2. /\ {1, 3, 5, 8, 11} \subseteq 1..Len(Hashed)
          /\ Hashed[1] = "python" /\ Hashed[3] = "client" /\ Hashed[5] = "uapi"
          /\ Hashed[8] = "supervisor" /\ Hashed[11] = "corpus"
      BY SMTT(60) DEF Hashed
    <3> QED  BY SMTT(60), <3>1, <3>2 DEF Names
  <2>4. ASSUME NEW w \in Matrix, NEW p \in doc.commands[w].inputs
        PROVE  \E n \in verified \cap Names : doc.files[n].path = p
    BY SMTT(60), <2>2, <2>3, <2>4 DEF Admitted, CommandMatrix
  <2> QED  BY <2>2, <2>4
<1> QED  BY <1>1, Invariance, PTL

(***************************************************************************)
(* The parts of the manifest of a running workload belong together, for    *)
(* any number of changes of files; its targets are those of the recorded   *)
(* evidence, and its recorder the one the recorded provenance names,       *)
(* unless files have changed more often than there are validations.        *)
(***************************************************************************)
THEOREM PartsBelongTogether ==
    Spec => []PartsBelong
<1>1. Inv => PartsBelong
  <2> SUFFICES ASSUME Inv, Running PROVE PartsBelong
    BY Zenon DEF PartsBelong
  <2>1. Place = "running" /\ pc = "running"
    BY Zenon DEF Running, Place
  <2>2. Built(doc) /\ Admitted(doc)
    BY Zenon, <2>1 DEF Inv, Holds, Live
  <2>3. Mixed(doc) \/ Foreign(doc) => drifts > 8
    BY Zenon, <2>1 DEF Inv, Counted, Priced, Live, Rounds, Passed
  <2>4. \A w \in Matrix :
           doc.commands[w].selectors = doc.targets[<<w[2], w[1]>>].selectors
    BY <2>2 DEF Admitted, CommandMatrix
  <2>5. drifts <= Validations =>
            /\ doc.targets = doc.files["evidence"].sum.targets
            /\ doc.files["recorder"].sum = doc.files["provenance"].sum
    BY <2>3 DEF Mixed, Foreign, Validations, Inv, Typed
  <2> QED  BY SMTT(60), <2>2, <2>4, <2>5 DEF PartsBelong, Built, Admitted
<1> QED  BY <1>1, Invariance, PTL

(***************************************************************************)
(* In every deployment, the tables that manifest.validate admits make      *)
(* plans that validate_plan accepts.                                       *)
(***************************************************************************)
THEOREM PlansAlwaysAgree ==
    Spec => []PlansAgree
<1>1. PlansAgree
  BY Zenon, PlanIsAccepted, DeploymentAssumption DEF PlansAgree
<1> QED  BY <1>1, PTL

-----------------------------------------------------------------------------
(***************************************************************************)
(* The driver: module Rebuild.                                             *)
(*                                                                         *)
(* A module and its stamp are two files, moved one after the other, of     *)
(* patches read at different times: Match and Newer say that the contents  *)
(* behind the module are the later ones, at every step between.            *)
(***************************************************************************)
CONSTANTS Kernel, Proc, NoProc, Upstream, MaxVersion, MaxFaults, MaxStarts

VARIABLES share, version, script, kernel, running, ko, stamp, dep, overlap,
          lock, proc, admin, pacman, service, removed, faults, starts

Rb == INSTANCE Rebuild

(* The places of apple-avd-rebuild. *)
Pcs == {"off", "wait", "plan", "check", "prepare", "undepmod", "build",
        "mvko", "mvstamp", "depmod", "write"}

(* A rebuild. *)
Rebuilds ==
    [pc : Pcs, force : BOOLEAN, glob : Nat, pid : Nat \X Nat,
     k : Kernel \cup {0}, built : Nat \X Nat, listed : BOOLEAN]

(* Types, whatever the bounds. *)
RebuildTyped ==
    /\ NoProc \notin Proc
    /\ share \in Nat /\ version \in Nat
    /\ kernel \in Kernel
    /\ ko \in [Kernel -> Nat \X Nat]
    /\ stamp \in [Kernel -> Nat \X Nat]
    /\ proc \in [Proc -> Rebuilds]

(* A rebuild past the lock holds it, and has chosen a kernel. *)
Alone ==
    \A p \in Proc :
        /\ proc[p].pc \notin {"off", "wait"} => lock = p
        /\ proc[p].pc \notin {"off", "wait", "plan"} => proc[p].k \in Kernel

(* Contents that were once in the patch directory. *)
Past(v) ==
    v <= version /\ (share = 0 \/ v <= share)

(* The module of a kernel is not older than its stamp. *)
Match ==
    /\ share <= version
    /\ \A k \in Kernel : /\ Past(stamp[k][2])
                         /\ ko[k] # Rb!None => stamp[k][2] <= ko[k][2]

(* What a rebuild builds is not older than what it was started for, nor    *)
(* than what is there.                                                     *)
Newer ==
    \A p \in Proc :
        /\ Past(proc[p].pid[2])
        /\ proc[p].pc \in {"build", "mvko"} =>
               /\ proc[p].pid[2] <= proc[p].built[2]
               /\ stamp[proc[p].k][2] <= proc[p].built[2]
        /\ proc[p].pc = "mvstamp" /\ ko[proc[p].k] # Rb!None =>
               proc[p].pid[2] <= ko[proc[p].k][2]

RebuildInv == RebuildTyped /\ Alone /\ Match /\ Newer

-----------------------------------------------------------------------------
(* There is an oldest kernel. *)
LEMMA OldestIsOne ==
    ASSUME Rb!RebuildAssumption
    PROVE  Rb!Oldest \in Kernel
BY Zenon DEF Rb!RebuildAssumption, Rb!Oldest

-----------------------------------------------------------------------------
(* Rebuild p is somewhere, with a kernel and sets of patches; the others stay. *)
Changed(p, at, k, pid, built) ==
    /\ proc' \in [Proc -> Rebuilds]
    /\ proc'[p].pc = at
    /\ proc'[p].k = k
    /\ proc'[p].pid = pid
    /\ proc'[p].built = built
    /\ \A q \in Proc : q # p => proc'[q] = proc[q]

(* One rebuild is replaced. *)
LEMMA RebuildUpdates ==
    ASSUME proc \in [Proc -> Rebuilds], NEW p \in Proc, NEW r \in Rebuilds,
           proc' = [proc EXCEPT ![p] = r]
    PROVE  Changed(p, r.pc, r.k, r.pid, r.built)
<1>1. proc' \in [Proc -> Rebuilds] /\ proc'[p] = r
  BY Zenon
<1>2. \A q \in Proc : q # p => proc'[q] = proc[q]
  BY Zenon
<1> QED  BY Zenon, <1>1, <1>2 DEF Changed

(* What each way to change a rebuild leaves of its record. *)
LEMMA GoesEffect ==
    ASSUME RebuildTyped, NEW p \in Proc, NEW at \in Pcs, Rb!Goes(p, at)
    PROVE  Changed(p, at, proc[p].k, proc[p].pid, proc[p].built)
<1> DEFINE r == [proc[p] EXCEPT !.pc = at]
<1>1. proc[p] \in Rebuilds /\ proc \in [Proc -> Rebuilds]
  BY Zenon DEF RebuildTyped
<1>2. /\ r \in Rebuilds /\ r.pc = at /\ r.k = proc[p].k
      /\ r.pid = proc[p].pid /\ r.built = proc[p].built
  BY Zenon, <1>1 DEF Rebuilds
<1>3. proc' = [proc EXCEPT ![p] = r]
  BY Zenon DEF Rb!Goes
<1> HIDE DEF r
<1>4. Changed(p, r.pc, r.k, r.pid, r.built)
  BY Zenon, <1>1, <1>2, <1>3, RebuildUpdates
<1> QED  BY Zenon, <1>2, <1>4

(* A rebuild that is not running, and no patches. *)
LEMMA StoppedIsOne ==
    /\ Rb!Stopped \in Rebuilds
    /\ Rb!Stopped.pc = "off" /\ Rb!Stopped.k = 0
    /\ Rb!Stopped.pid = Rb!None /\ Rb!Stopped.built = Rb!None
    /\ Rb!None \in Nat \X Nat /\ Rb!None[2] = 0
<1>1. Rb!None \in Nat \X Nat /\ Rb!None[2] = 0
  BY DEF Rb!None
<1> QED  BY Zenon, <1>1 DEF Rb!Stopped, Rebuilds, Pcs

LEMMA ExitEffect ==
    ASSUME RebuildTyped, NEW p \in Proc, Rb!Exit(p)
    PROVE  Changed(p, "off", 0, Rb!None, Rb!None)
<1>1. Changed(p, Rb!Stopped.pc, Rb!Stopped.k, Rb!Stopped.pid, Rb!Stopped.built)
  BY Zenon, StoppedIsOne, RebuildUpdates DEF RebuildTyped, Rb!Exit
<1> QED  BY Zenon, <1>1, StoppedIsOne

LEMMA BeginsEffect ==
    ASSUME RebuildTyped, NEW p \in Proc, NEW force \in BOOLEAN,
           Rb!Begins(p, force)
    PROVE  Changed(p, "wait", 0, Rb!None, Rb!None)
<1> DEFINE r1 == [Rb!Stopped EXCEPT !.pc = "wait"]
           r2 == [r1 EXCEPT !.force = force]
           r == [r2 EXCEPT !.glob = share]
<1>1. /\ r \in Rebuilds /\ r.pc = "wait" /\ r.k = 0
      /\ r.pid = Rb!None /\ r.built = Rb!None
  <2>1. share \in Nat
    BY Zenon DEF RebuildTyped
  <2>2. /\ r1 \in Rebuilds /\ r1.pc = "wait" /\ r1.k = 0
        /\ r1.pid = Rb!None /\ r1.built = Rb!None
    BY Zenon, StoppedIsOne DEF Rebuilds, Pcs
  <2> HIDE DEF r1
  <2>3. /\ r2 \in Rebuilds /\ r2.pc = "wait" /\ r2.k = 0
        /\ r2.pid = Rb!None /\ r2.built = Rb!None
    BY Zenon, <2>2 DEF Rebuilds
  <2> HIDE DEF r2
  <2> QED  BY Zenon, <2>1, <2>3 DEF Rebuilds
<1>2. proc' = [proc EXCEPT ![p] = r]
  BY ZenonT(60) DEF Rb!Begins
<1> HIDE DEF r
<1>3. Changed(p, r.pc, r.k, r.pid, r.built)
  BY Zenon, <1>1, <1>2, RebuildUpdates DEF RebuildTyped
<1> QED  BY Zenon, <1>1, <1>3

LEMMA PlanEffect ==
    ASSUME RebuildTyped, NEW p \in Proc, Rb!Plan(p)
    PROVE  Changed(p, "check", kernel, <<proc[p].glob, share>>, proc[p].built)
<1> DEFINE r1 == [proc[p] EXCEPT !.pc = "check"]
           r2 == [r1 EXCEPT !.k = kernel]
           r == [r2 EXCEPT !.pid = <<proc[p].glob, share>>]
<1>1. /\ proc[p] \in Rebuilds /\ proc \in [Proc -> Rebuilds]
      /\ kernel \in Kernel /\ share \in Nat
  BY Zenon DEF RebuildTyped
<1>2. <<proc[p].glob, share>> \in Nat \X Nat
  BY <1>1 DEF Rebuilds
<1>3. r1 \in Rebuilds /\ r1.pc = "check" /\ r1.built = proc[p].built
  BY Zenon, <1>1 DEF Rebuilds, Pcs
<1>4. proc' = [proc EXCEPT ![p] = r]
  BY ZenonT(60), <1>1 DEF Rb!Plan
<1> HIDE DEF r1
<1>5. /\ r2 \in Rebuilds /\ r2.pc = "check" /\ r2.k = kernel
      /\ r2.built = proc[p].built
  BY Zenon, <1>1, <1>3 DEF Rebuilds
<1> HIDE DEF r2
<1>6. /\ r \in Rebuilds /\ r.pc = "check" /\ r.k = kernel
      /\ r.built = proc[p].built /\ r.pid = <<proc[p].glob, share>>
  BY Zenon, <1>2, <1>5 DEF Rebuilds
<1> HIDE DEF r
<1>7. Changed(p, r.pc, r.k, r.pid, r.built)
  BY Zenon, <1>1, <1>4, <1>6, RebuildUpdates
<1> QED  BY Zenon, <1>6, <1>7

LEMMA PrepareEffect ==
    ASSUME RebuildTyped, NEW p \in Proc, Rb!Prepare(p)
    PROVE  Changed(p, "build", proc[p].k, proc[p].pid, <<proc[p].glob, share>>)
<1> DEFINE r1 == [proc[p] EXCEPT !.pc = "build"]
           r == [r1 EXCEPT !.built = <<proc[p].glob, share>>]
<1>1. /\ proc[p] \in Rebuilds /\ proc \in [Proc -> Rebuilds] /\ share \in Nat
  BY Zenon DEF RebuildTyped
<1>2. <<proc[p].glob, share>> \in Nat \X Nat
  BY <1>1 DEF Rebuilds
<1>3. /\ r1 \in Rebuilds /\ r1.pc = "build" /\ r1.k = proc[p].k
      /\ r1.pid = proc[p].pid
  BY Zenon, <1>1 DEF Rebuilds, Pcs
<1>4. proc' = [proc EXCEPT ![p] = r]
  BY ZenonT(60), <1>1 DEF Rb!Prepare
<1> HIDE DEF r1
<1>5. /\ r \in Rebuilds /\ r.pc = "build" /\ r.k = proc[p].k
      /\ r.pid = proc[p].pid /\ r.built = <<proc[p].glob, share>>
  BY Zenon, <1>2, <1>3 DEF Rebuilds
<1> HIDE DEF r
<1>6. Changed(p, r.pc, r.k, r.pid, r.built)
  BY Zenon, <1>1, <1>4, <1>5, RebuildUpdates
<1> QED  BY Zenon, <1>5, <1>6

-----------------------------------------------------------------------------
(* The others are before the lock. *)
LEMMA OthersWait ==
    ASSUME RebuildInv, NEW p \in Proc, proc[p].pc \notin {"off", "wait"},
           NEW q \in Proc, q # p
    PROVE  proc[q].pc \in {"off", "wait"}
BY Zenon DEF RebuildInv, Alone

(* The lock still belongs to the one that is past it. *)
LEMMA AloneStays ==
    ASSUME RebuildInv, NEW p \in Proc, NEW at, NEW k, NEW pid, NEW built,
           Changed(p, at, k, pid, built),
           lock' = lock \/ lock \in {NoProc, p},
           at \notin {"off", "wait"} => lock' = p,
           at \notin {"off", "wait", "plan"} => k \in Kernel
    PROVE  Alone'
<1>1. ASSUME NEW q \in Proc, q # p, proc[q].pc \notin {"off", "wait"}
      PROVE  lock' = q
  BY Zenon, <1>1 DEF RebuildInv, RebuildTyped, Alone
<1>2. \A q \in Proc : q # p => proc'[q] = proc[q]
  BY Zenon DEF Changed
<1> QED  BY ZenonT(60), <1>1, <1>2 DEF RebuildInv, Alone, Changed

(* The others build nothing, so only the one that steps matters. *)
LEMMA NewerStays ==
    ASSUME RebuildInv, NEW p \in Proc, NEW at, NEW k, NEW pid, NEW built,
           proc[p].pc \notin {"off", "wait"},
           Changed(p, at, k, pid, built),
           UNCHANGED <<share, version>>,
           Past(pid[2]),
           at \in {"build", "mvko"} =>
               pid[2] <= built[2] /\ stamp'[k][2] <= built[2],
           at = "mvstamp" /\ ko'[k] # Rb!None => pid[2] <= ko'[k][2]
    PROVE  Newer'
<1>0. share' = share /\ version' = version
  BY Zenon
<1> SUFFICES ASSUME NEW q \in Proc
             PROVE  /\ Past(proc'[q].pid[2])
                    /\ proc'[q].pc \in {"build", "mvko"} =>
                           /\ proc'[q].pid[2] <= proc'[q].built[2]
                           /\ stamp'[proc'[q].k][2] <= proc'[q].built[2]
                    /\ proc'[q].pc = "mvstamp" /\ ko'[proc'[q].k] # Rb!None =>
                           proc'[q].pid[2] <= ko'[proc'[q].k][2]
  BY Zenon, <1>0 DEF Newer, Past
<1>1. CASE q = p
  BY Zenon, <1>1 DEF Changed
<1>2. CASE q # p
  <2>1. proc'[q] = proc[q] /\ Past(proc[q].pid[2])
    BY Zenon, <1>2 DEF Changed, RebuildInv, Newer
  <2>2. proc[q].pc \in {"off", "wait"}
    BY Zenon, <1>2, OthersWait
  <2>3. proc[q].pc \notin {"build", "mvko"} /\ proc[q].pc # "mvstamp"
    BY Zenon, <2>2
  <2> QED  BY Zenon, <2>1, <2>3
<1> QED  BY Zenon, <1>1, <1>2

(* A step of a rebuild that leaves the files alone. *)
LEMMA WalkKeeps ==
    ASSUME RebuildInv, NEW p \in Proc, NEW at, NEW k, NEW pid, NEW built,
           Changed(p, at, k, pid, built),
           UNCHANGED <<share, version, kernel, ko, stamp>>,
           lock' = lock \/ lock \in {NoProc, p},
           at \notin {"off", "wait"} => lock' = p,
           at \notin {"off", "wait", "plan"} => k \in Kernel,
           at # "mvstamp",
           Past(pid[2]),
           at \in {"build", "mvko"} =>
               pid[2] <= built[2] /\ stamp[k][2] <= built[2]
    PROVE  RebuildInv'
<1>1. /\ share' = share /\ version' = version /\ kernel' = kernel
      /\ ko' = ko /\ stamp' = stamp
  BY Zenon
<1>3. RebuildTyped'
  BY Zenon, <1>1 DEF RebuildInv, RebuildTyped, Changed
<1>4. Alone'
  BY Zenon, AloneStays
<1>6. Match'
  BY Zenon, <1>1 DEF RebuildInv, Match, Past
<1>7. Newer'
  <2> SUFFICES ASSUME NEW q \in Proc
               PROVE  /\ Past(proc'[q].pid[2])
                      /\ proc'[q].pc \in {"build", "mvko"} =>
                             /\ proc'[q].pid[2] <= proc'[q].built[2]
                             /\ stamp[proc'[q].k][2] <= proc'[q].built[2]
                      /\ proc'[q].pc = "mvstamp" /\ ko[proc'[q].k] # Rb!None =>
                             proc'[q].pid[2] <= ko[proc'[q].k][2]
    BY Zenon, <1>1 DEF Newer, Past
  <2>1. CASE q = p
    BY Zenon, <2>1 DEF Changed
  <2>2. CASE q # p
    BY Zenon, <2>2 DEF Changed, RebuildInv, Newer
  <2> QED  BY Zenon, <2>1, <2>2
<1> QED  BY Zenon, <1>3, <1>4, <1>6, <1>7 DEF RebuildInv

(* The steps that are such walks. *)
LEMMA BeginKeeps ==
    ASSUME RebuildInv, NEW p \in Proc, NEW force \in BOOLEAN,
           Rb!Begins(p, force)
    PROVE  RebuildInv'
<1>1. Changed(p, "wait", 0, Rb!None, Rb!None)
  BY Zenon, BeginsEffect DEF RebuildInv
<1>2. /\ UNCHANGED <<share, version, kernel, ko, stamp>>
      /\ lock' = lock /\ proc[p].pc = "off"
  BY Zenon DEF Rb!Begins, Rb!At, Rb!files
<1>3. Past(Rb!None[2])
  <2>1. share \in Nat /\ version \in Nat /\ Rb!None[2] = 0
    BY Zenon, StoppedIsOne DEF RebuildInv, RebuildTyped
  <2> QED  BY <2>1 DEF Past
<1> QED  BY Zenon, <1>1, <1>2, <1>3, WalkKeeps

(* A rebuild ends, module and stamp as they are. *)
LEMMA EndKeeps ==
    ASSUME RebuildInv, NEW p \in Proc, Rb!Exit(p),
           UNCHANGED <<share, version, kernel, ko, stamp>>
    PROVE  RebuildInv'
<1>1. Changed(p, "off", 0, Rb!None, Rb!None)
  BY Zenon, ExitEffect DEF RebuildInv
<1>2. lock' = lock \/ lock = p
  BY Zenon DEF Rb!Exit
<1>3. Past(Rb!None[2])
  <2>1. share \in Nat /\ version \in Nat /\ Rb!None[2] = 0
    BY Zenon, StoppedIsOne DEF RebuildInv, RebuildTyped
  <2> QED  BY <2>1 DEF Past
<1> QED  BY Zenon, <1>1, <1>2, <1>3, WalkKeeps

(* The lock, the source and the build. *)
LEMMA GoKeeps ==
    ASSUME RebuildInv, NEW p \in Proc, Rb!Lock(p) \/ Rb!Fetch(p) \/ Rb!Build(p)
    PROVE  RebuildInv'
<1>1. UNCHANGED <<share, version, kernel, ko, stamp>>
  BY Zenon DEF Rb!Lock, Rb!Fetch, Rb!Build, Rb!files, Rb!system
<1>2. Past(proc[p].pid[2])
  BY Zenon DEF RebuildInv, Newer
<1>3. CASE Rb!Lock(p)
  <2>1. /\ Rb!Goes(p, "plan") /\ proc[p].pc = "wait" /\ lock = NoProc
        /\ lock' = p /\ "plan" \in Pcs
    BY Zenon, <1>3 DEF Rb!Lock, Rb!At, Pcs
  <2>2. Changed(p, "plan", proc[p].k, proc[p].pid, proc[p].built)
    BY Zenon, <2>1, GoesEffect DEF RebuildInv
  <2> QED  BY <1>1, <1>2, <2>1, <2>2, WalkKeeps
<1>4. CASE Rb!Fetch(p)
  <2>1. /\ Rb!Goes(p, "prepare") /\ proc[p].pc = "check" /\ lock' = lock
        /\ "prepare" \in Pcs
    BY Zenon, <1>4 DEF Rb!Fetch, Rb!At, Pcs
  <2>2. Changed(p, "prepare", proc[p].k, proc[p].pid, proc[p].built)
    BY Zenon, <2>1, GoesEffect DEF RebuildInv
  <2>3. lock = p /\ proc[p].k \in Kernel
    BY Zenon, <2>1 DEF RebuildInv, Alone
  <2> QED  BY <1>1, <1>2, <2>1, <2>2, <2>3, WalkKeeps
<1>5. CASE Rb!Build(p)
  <2>1. /\ Rb!Goes(p, "mvko") /\ proc[p].pc = "build" /\ lock' = lock
        /\ "mvko" \in Pcs
    BY Zenon, <1>5 DEF Rb!Build, Rb!At, Pcs
  <2>2. Changed(p, "mvko", proc[p].k, proc[p].pid, proc[p].built)
    BY Zenon, <2>1, GoesEffect DEF RebuildInv
  <2>3. /\ lock = p /\ proc[p].k \in Kernel
        /\ proc[p].pid[2] <= proc[p].built[2]
        /\ stamp[proc[p].k][2] <= proc[p].built[2]
    BY Zenon, <2>1 DEF RebuildInv, Alone, Newer
  <2> QED  BY <1>1, <1>2, <2>1, <2>2, <2>3, WalkKeeps
<1> QED  BY Zenon, <1>3, <1>4, <1>5

(* What is built was in the directory after everything that is stamped. *)
LEMMA PrepareKeeps ==
    ASSUME RebuildInv, NEW p \in Proc, Rb!Prepare(p)
    PROVE  RebuildInv'
<1> DEFINE built == <<proc[p].glob, share>>
<1>1. Changed(p, "build", proc[p].k, proc[p].pid, built)
  BY Zenon, PrepareEffect DEF RebuildInv
<1>2. /\ UNCHANGED <<share, version, kernel, ko, stamp>>
      /\ lock' = lock /\ proc[p].pc = "prepare" /\ share # 0
  BY Zenon DEF Rb!Prepare, Rb!At, Rb!files, Rb!system
<1>3. /\ lock = p /\ proc[p].k \in Kernel /\ built[2] = share
      /\ Past(proc[p].pid[2]) /\ Past(stamp[proc[p].k][2])
  BY Zenon, <1>2 DEF RebuildInv, Alone, Newer, Match
<1>4. proc[p].pid[2] <= built[2] /\ stamp[proc[p].k][2] <= built[2]
  BY Zenon, <1>2, <1>3 DEF Past
<1> HIDE DEF built
<1> QED  BY Zenon, <1>1, <1>2, <1>3, <1>4, WalkKeeps

-----------------------------------------------------------------------------
(* cleanup_orphans takes the module and its stamp together. *)
LEMMA PlanKeeps ==
    ASSUME RebuildInv, NEW p \in Proc, Rb!Plan(p)
    PROVE  RebuildInv'
<1> DEFINE pid == <<proc[p].glob, share>>
<1>1. Changed(p, "check", kernel, pid, proc[p].built) /\ pid[2] = share
  BY Zenon, PlanEffect DEF RebuildInv
<1> HIDE DEF pid
<1>2. /\ share' = share /\ version' = version /\ kernel' = kernel
      /\ lock' = lock /\ proc[p].pc = "plan"
      /\ ko' = [k \in Kernel |-> IF k \in Rb!Orphans THEN Rb!None ELSE ko[k]]
      /\ stamp' = [k \in Kernel |->
                      IF k \in Rb!Orphans THEN Rb!None ELSE stamp[k]]
  BY Zenon DEF Rb!Plan, Rb!At, Rb!system
<1>3. /\ share \in Nat /\ version \in Nat /\ kernel \in Kernel
      /\ share <= version /\ lock = p
      /\ Rb!None \in Nat \X Nat /\ Rb!None[2] = 0
  BY Zenon, <1>2, StoppedIsOne DEF RebuildInv, RebuildTyped, Match, Alone
<1>4. \A k \in Kernel :
          \/ ko'[k] = Rb!None /\ stamp'[k] = Rb!None
          \/ ko'[k] = ko[k] /\ stamp'[k] = stamp[k]
  BY Zenon, <1>2
<1>5. RebuildTyped'
  <2>1. ko' \in [Kernel -> Nat \X Nat] /\ stamp' \in [Kernel -> Nat \X Nat]
    BY Zenon, <1>2, <1>3 DEF RebuildInv, RebuildTyped
  <2> QED  BY Zenon, <1>1, <1>2, <2>1 DEF RebuildInv, RebuildTyped, Changed
<1>6. Alone'
  BY Zenon, <1>1, <1>2, <1>3, AloneStays
<1>8. Match'
  <2>1. Past(0)
    BY <1>3 DEF Past
  <2>2. \A k \in Kernel : Past(stamp'[k][2]) /\
                          (ko'[k] # Rb!None => stamp'[k][2] <= ko'[k][2])
    BY Zenon, <1>3, <1>4, <2>1 DEF RebuildInv, Match
  <2> QED  BY Zenon, <1>2, <1>3, <2>2 DEF Match, Past
<1>9. Newer'
  <2>1. Past(pid[2])
    BY <1>1, <1>3 DEF Past
  <2>2. "check" \notin {"build", "mvko", "mvstamp"}
        /\ UNCHANGED <<share, version>>
    BY Zenon, <1>2
  <2>3. proc[p].pc \notin {"off", "wait"}
    BY Zenon, <1>2
  <2> QED  BY Zenon, <1>1, <2>1, <2>2, <2>3, NewerStays
<1> QED  BY Zenon, <1>5, <1>6, <1>8, <1>9 DEF RebuildInv

(* The files of one kernel change. *)
LEMMA FileKeeps ==
    ASSUME RebuildInv, NEW p \in Proc, NEW at, NEW j, NEW pid, NEW built,
           NEW k \in Kernel,
           Changed(p, at, j, pid, built),
           proc[p].pc \notin {"off", "wait"}, proc[p].k = k,
           UNCHANGED <<share, version, kernel>>,
           lock' = lock \/ lock = p,
           at \notin {"off", "wait"} => lock' = lock /\ j = k,
           at \notin {"build", "mvko"},
           ko' \in [Kernel -> Nat \X Nat],
           stamp' \in [Kernel -> Nat \X Nat],
           \A i \in Kernel : i # k => ko'[i] = ko[i] /\ stamp'[i] = stamp[i],
           Past(stamp'[k][2]),
           ko'[k] # Rb!None => stamp'[k][2] <= ko'[k][2],
           Past(pid[2]),
           at = "mvstamp" /\ ko'[k] # Rb!None => pid[2] <= ko'[k][2]
    PROVE  RebuildInv'
<1>1. /\ share' = share /\ version' = version /\ kernel' = kernel
      /\ lock = p
  BY Zenon DEF RebuildInv, Alone
<1>2. RebuildTyped'
  BY Zenon, <1>1 DEF RebuildInv, RebuildTyped, Changed
<1>3. Alone'
  BY Zenon, <1>1, AloneStays
<1>5. Match'
  BY Zenon, <1>1 DEF RebuildInv, Match, Past
<1>6. Newer'
  <2>1. at = "mvstamp" => j = k
    BY Zenon
  <2>2. UNCHANGED <<share, version>>
    BY Zenon, <1>1
  <2> QED  BY Zenon, <2>1, <2>2, NewerStays
<1> QED  BY Zenon, <1>2, <1>3, <1>5, <1>6 DEF RebuildInv

(* The new module is not older than the stamp that is still there. *)
LEMMA MoveKoKeeps ==
    ASSUME RebuildInv, NEW p \in Proc, Rb!MoveKo(p)
    PROVE  RebuildInv'
<1> DEFINE k == proc[p].k  pid == proc[p].pid  built == proc[p].built
<1>1. Changed(p, "mvstamp", k, pid, built)
  BY Zenon, GoesEffect DEF RebuildInv, Rb!MoveKo, Pcs
<1>2. /\ UNCHANGED <<share, version, kernel>>
      /\ lock' = lock /\ stamp' = stamp /\ proc[p].pc = "mvko"
      /\ ko' = [ko EXCEPT ![k] = built]
  BY Zenon DEF Rb!MoveKo, Rb!At, Rb!system
<1>3. /\ k \in Kernel /\ Past(pid[2]) /\ Past(stamp[k][2])
      /\ pid[2] <= built[2] /\ stamp[k][2] <= built[2]
      /\ built \in Nat \X Nat /\ ko \in [Kernel -> Nat \X Nat]
      /\ stamp \in [Kernel -> Nat \X Nat]
  BY Zenon, <1>2 DEF RebuildInv, RebuildTyped, Alone, Newer, Match, Rebuilds
<1>4. /\ ko' \in [Kernel -> Nat \X Nat] /\ ko'[k] = built
      /\ \A j \in Kernel : j # k => ko'[j] = ko[j]
  BY Zenon, <1>2, <1>3
<1>5. /\ pid[2] <= ko'[k][2] /\ stamp[k][2] <= ko'[k][2]
      /\ "mvstamp" \notin {"build", "mvko"} /\ proc[p].pc \notin {"off", "wait"}
  BY Zenon, <1>2, <1>3, <1>4
<1> QED  BY Zenon, <1>1, <1>2, <1>3, <1>4, <1>5, FileKeeps

(* The new stamp is not newer than the module. *)
LEMMA MoveStampKeeps ==
    ASSUME RebuildInv, NEW p \in Proc, Rb!MoveStamp(p)
    PROVE  RebuildInv'
<1> DEFINE k == proc[p].k  pid == proc[p].pid  built == proc[p].built
<1>1. Changed(p, "depmod", k, pid, built)
  BY Zenon, GoesEffect DEF RebuildInv, Rb!MoveStamp, Pcs
<1>2. /\ UNCHANGED <<share, version, kernel>>
      /\ lock' = lock /\ ko' = ko /\ proc[p].pc = "mvstamp"
      /\ stamp' = [stamp EXCEPT ![k] = pid]
  BY Zenon DEF Rb!MoveStamp, Rb!At, Rb!system
<1>3. /\ k \in Kernel /\ Past(pid[2])
      /\ ko[k] # Rb!None => pid[2] <= ko[k][2]
      /\ pid \in Nat \X Nat /\ stamp \in [Kernel -> Nat \X Nat]
      /\ ko \in [Kernel -> Nat \X Nat]
  BY Zenon, <1>2 DEF RebuildInv, RebuildTyped, Alone, Newer, Rebuilds
<1>4. /\ stamp' \in [Kernel -> Nat \X Nat] /\ stamp'[k] = pid
      /\ \A j \in Kernel : j # k => stamp'[j] = stamp[j]
  BY Zenon, <1>2, <1>3
<1>5. /\ "depmod" \notin {"build", "mvko"} /\ "depmod" # "mvstamp"
      /\ proc[p].pc \notin {"off", "wait"}
  BY Zenon, <1>2
<1>6. /\ \A i \in Kernel : i # k => ko'[i] = ko[i] /\ stamp'[i] = stamp[i]
      /\ ko'[k] # Rb!None => stamp'[k][2] <= ko'[k][2]
      /\ Past(stamp'[k][2])
      /\ k \in Kernel /\ Past(pid[2]) /\ lock' = lock
      /\ ko' \in [Kernel -> Nat \X Nat]
      /\ stamp' \in [Kernel -> Nat \X Nat]
      /\ UNCHANGED <<share, version, kernel>>
  BY Zenon, <1>2, <1>3, <1>4
<1> HIDE DEF pid, built
<1> QED  BY ZenonT(60), <1>1, <1>5, <1>6, FileKeeps

(* depmod reads and writes neither. *)
LEMMA ScansEffect ==
    ASSUME RebuildTyped, NEW p \in Proc, Rb!Scans(p)
    PROVE  /\ Changed(p, "write", proc[p].k, proc[p].pid, proc[p].built)
           /\ proc'[p].listed = Rb!Present(proc[p].k)
<1> DEFINE b == Rb!Present(proc[p].k)
           r1 == [proc[p] EXCEPT !.pc = "write"]
           r == [r1 EXCEPT !.listed = b]
<1>1. /\ proc[p] \in Rebuilds /\ proc \in [Proc -> Rebuilds]
      /\ b \in BOOLEAN
  BY Zenon DEF RebuildTyped, Rb!Present
<1> HIDE DEF b
<1>2. /\ r1 \in Rebuilds /\ r1.pc = "write" /\ r1.k = proc[p].k
      /\ r1.pid = proc[p].pid /\ r1.built = proc[p].built
  BY Zenon, <1>1 DEF Rebuilds, Pcs
<1>3. proc' = [proc EXCEPT ![p] = r]
  BY ZenonT(60), <1>1 DEF Rb!Scans, b
<1> HIDE DEF r1
<1>4. /\ r \in Rebuilds /\ r.pc = "write" /\ r.k = proc[p].k
      /\ r.pid = proc[p].pid /\ r.built = proc[p].built /\ r.listed = b
  BY Zenon, <1>1, <1>2 DEF Rebuilds
<1> HIDE DEF r
<1>5. Changed(p, r.pc, r.k, r.pid, r.built) /\ proc'[p] = r
  BY Zenon, <1>1, <1>3, <1>4, RebuildUpdates
<1> QED  BY Zenon, <1>4, <1>5 DEF b

LEMMA ScansKeeps ==
    ASSUME RebuildInv, NEW p \in Proc, Rb!Scans(p),
           proc[p].pc \in {"depmod", "undepmod"}
    PROVE  RebuildInv'
<1>1. /\ UNCHANGED <<share, version, kernel, ko, stamp>>
      /\ lock' = lock
  BY Zenon DEF Rb!Scans, Rb!system
<1>2. Changed(p, "write", proc[p].k, proc[p].pid, proc[p].built)
  BY Zenon, ScansEffect DEF RebuildInv
<1>3. proc[p].pc \notin {"off", "wait", "plan"}
  BY Zenon
<1>4. lock = p /\ proc[p].k \in Kernel /\ Past(proc[p].pid[2])
  BY Zenon, <1>3 DEF RebuildInv, Alone, Newer
<1>5. "write" \notin {"build", "mvko", "mvstamp"}
  BY Zenon
<1> QED  BY Zenon, <1>1, <1>2, <1>4, <1>5, WalkKeeps

(* The module and the stamp go together; depmod follows. *)
LEMMA UpstreamFixedKeeps ==
    ASSUME RebuildInv, NEW p \in Proc, Rb!UpstreamFixed(p)
    PROVE  RebuildInv'
<1> DEFINE k == proc[p].k
<1>0. /\ proc[p].pc = "prepare"
      /\ proc[p].pc \notin {"off", "wait"}
  BY Zenon DEF Rb!UpstreamFixed, Rb!At
<1>1. CASE stamp[k] = Rb!None
  <2>1. Rb!Exit(p) /\ UNCHANGED <<share, version, kernel, ko, stamp>>
    BY Zenon, <1>1 DEF Rb!UpstreamFixed, Rb!system
  <2> QED  BY Zenon, <2>1, EndKeeps
<1>2. CASE stamp[k] # Rb!None
  <2>1. Changed(p, "undepmod", k, proc[p].pid, proc[p].built)
    BY Zenon, <1>2, GoesEffect DEF RebuildInv, Rb!UpstreamFixed, Pcs
  <2>2. /\ UNCHANGED <<share, version, kernel>>
        /\ lock' = lock
        /\ ko' = [ko EXCEPT ![k] = Rb!None]
        /\ stamp' = [stamp EXCEPT ![k] = Rb!None]
    BY Zenon, <1>2 DEF Rb!UpstreamFixed, Rb!system
  <2>3. /\ k \in Kernel /\ Past(proc[p].pid[2])
        /\ ko \in [Kernel -> Nat \X Nat] /\ stamp \in [Kernel -> Nat \X Nat]
        /\ Rb!None \in Nat \X Nat /\ Rb!None[2] = 0
        /\ share \in Nat /\ version \in Nat
    BY Zenon, <1>0, StoppedIsOne DEF RebuildInv, RebuildTyped, Alone, Newer
  <2>4. /\ ko' \in [Kernel -> Nat \X Nat] /\ ko'[k] = Rb!None
        /\ stamp' \in [Kernel -> Nat \X Nat] /\ stamp'[k] = Rb!None
        /\ \A j \in Kernel : j # k => ko'[j] = ko[j] /\ stamp'[j] = stamp[j]
    BY Zenon, <2>2, <2>3
  <2>5. Past(Rb!None[2])
    BY <2>3 DEF Past
  <2>6. "undepmod" \notin {"build", "mvko"} /\ "undepmod" # "mvstamp"
    BY Zenon
  <2>7. /\ \A i \in Kernel : i # k => ko'[i] = ko[i] /\ stamp'[i] = stamp[i]
        /\ Past(stamp'[k][2]) /\ ko'[k] = Rb!None
        /\ k \in Kernel /\ Past(proc[p].pid[2]) /\ lock' = lock
        /\ ko' \in [Kernel -> Nat \X Nat]
        /\ stamp' \in [Kernel -> Nat \X Nat]
        /\ UNCHANGED <<share, version, kernel>>
    BY Zenon, <2>2, <2>3, <2>4, <2>5
  <2>8. proc[p].pc \notin {"off", "wait"}
    BY Zenon, <1>0
  <2> QED  BY ZenonT(60), <2>1, <2>6, <2>7, <2>8, FileKeeps
<1> QED  BY Zenon, <1>1, <1>2

-----------------------------------------------------------------------------
(* What was once in the directory stays behind what is copied there next. *)
LEMMA PastStays ==
    ASSUME NEW v \in Nat, Past(v), share \in Nat, version \in Nat,
           version' \in Nat, version <= version',
           share' \in {0, share, version}
    PROVE  v <= version' /\ (share' = 0 \/ v <= share')
BY DEF Past

(* The patches, the checkout and the kernel change, the files do not. *)
LEMMA AdminKeeps ==
    ASSUME RebuildInv,
           UNCHANGED <<ko, stamp, lock, proc>>, kernel' \in Kernel,
           version' \in Nat, version <= version',
           share' \in {0, share, version}
    PROVE  RebuildInv'
<1>1. /\ ko' = ko /\ stamp' = stamp /\ lock' = lock /\ proc' = proc
      /\ share \in Nat /\ version \in Nat /\ share <= version
      /\ proc \in [Proc -> Rebuilds] /\ stamp \in [Kernel -> Nat \X Nat]
  BY Zenon DEF RebuildInv, RebuildTyped, Match
<1>2. share' \in Nat /\ share' <= version'
  BY <1>1
<1>3. RebuildTyped'
  BY Zenon, <1>1, <1>2 DEF RebuildInv, RebuildTyped
<1>4. Alone'
  BY Zenon, <1>1 DEF RebuildInv, Alone
<1>6. Match'
  <2> SUFFICES ASSUME NEW k \in Kernel
               PROVE  /\ stamp[k][2] <= version'
                      /\ share' = 0 \/ stamp[k][2] <= share'
    BY Zenon, <1>1, <1>2 DEF RebuildInv, Match, Past
  <2>1. stamp[k] \in Nat \X Nat /\ Past(stamp[k][2])
    BY Zenon, <1>1 DEF RebuildInv, Match
  <2>2. stamp[k][2] \in Nat
    BY <2>1
  <2> QED  BY Zenon, <1>1, <2>1, <2>2, PastStays
<1>7. Newer'
  <2> SUFFICES ASSUME NEW q \in Proc
               PROVE  /\ proc[q].pid[2] <= version'
                      /\ share' = 0 \/ proc[q].pid[2] <= share'
    BY Zenon, <1>1 DEF RebuildInv, Newer, Past
  <2>1. proc[q].pid \in Nat \X Nat /\ Past(proc[q].pid[2])
    BY Zenon, <1>1 DEF RebuildInv, Newer, Rebuilds
  <2>2. proc[q].pid[2] \in Nat
    BY <2>1
  <2> QED  BY Zenon, <1>1, <2>1, <2>2, PastStays
<1> QED  BY Zenon, <1>3, <1>4, <1>6, <1>7 DEF RebuildInv

(* The steps of install.sh, uninstall.sh and pacman that are such. *)
LEMMA InstallKeeps ==
    ASSUME RebuildInv,
           \/ Rb!InstallDelete \/ Rb!InstallCopy \/ Rb!InstallScript
           \/ Rb!InstallDies \/ Rb!Pull
    PROVE  RebuildInv'
<1>1. /\ UNCHANGED <<kernel, ko, stamp, lock, proc>>
      /\ share' \in {0, share, version}
      /\ version' = version \/ version' = version + 1
  BY ZenonT(60) DEF Rb!InstallDelete, Rb!InstallCopy, Rb!InstallScript,
     Rb!InstallDies, Rb!Pull, Rb!files, Rb!system
<1>2. kernel' \in Kernel /\ version' \in Nat /\ version <= version'
  <2>1. version \in Nat /\ kernel \in Kernel
    BY Zenon DEF RebuildInv, RebuildTyped
  <2> QED  BY <1>1, <2>1
<1> QED  BY Zenon, <1>1, <1>2, AdminKeeps

LEMMA UninstallKeeps ==
    ASSUME RebuildInv,
           \/ Rb!UninstallScript \/ Rb!UninstallPatches \/ Rb!UninstallEnds
           \/ Rb!UninstallDepmod \/ Rb!UninstallWrite
           \/ Rb!UninstallStops \/ Rb!UninstallDies
    PROVE  RebuildInv'
<1>1. /\ UNCHANGED <<version, kernel, ko, stamp, lock, proc>>
      /\ share' \in {0, share}
  BY ZenonT(60) DEF Rb!UninstallScript, Rb!UninstallPatches, Rb!UninstallEnds,
     Rb!UninstallDepmod, Rb!UninstallWrite, Rb!UninstallStops,
     Rb!UninstallDies, Rb!files, Rb!system
<1>2. kernel' \in Kernel /\ version' \in Nat /\ version <= version'
  <2>1. version \in Nat /\ kernel \in Kernel
    BY Zenon DEF RebuildInv, RebuildTyped
  <2> QED  BY <1>1, <2>1
<1> QED  BY Zenon, <1>1, <1>2, AdminKeeps

LEMMA PacmanKeeps ==
    ASSUME RebuildInv,
           Rb!Pacman \/ (\E k \in Kernel : Rb!KernelUpdate(k))
    PROVE  RebuildInv'
<1>1. /\ UNCHANGED <<share, version, ko, stamp, lock, proc>>
      /\ kernel' \in Kernel
  BY ZenonT(60) DEF Rb!Pacman, Rb!PacmanDepmod, Rb!PacmanWrite,
     Rb!KernelUpdate, Rb!system, RebuildInv, RebuildTyped
<1>2. version' \in Nat /\ version <= version'
  <2>1. version \in Nat
    BY Zenon DEF RebuildInv, RebuildTyped
  <2> QED  BY <1>1, <2>1
<1> QED  BY Zenon, <1>1, <1>2, AdminKeeps

(* uninstall.sh removes a module without the lock. *)
LEMMA UninstallModuleKeeps ==
    ASSUME RebuildInv, NEW k \in Kernel, Rb!UninstallModule(k)
    PROVE  RebuildInv'
<1>1. /\ share' = share /\ version' = version /\ kernel' = kernel
      /\ lock' = lock /\ proc' = proc
      /\ ko' = [ko EXCEPT ![k] = Rb!None]
      /\ stamp' = [stamp EXCEPT ![k] = Rb!None]
  BY Zenon DEF Rb!UninstallModule, Rb!system
<1>2. /\ ko \in [Kernel -> Nat \X Nat] /\ stamp \in [Kernel -> Nat \X Nat]
      /\ kernel \in Kernel /\ Rb!None \in Nat \X Nat /\ Rb!None[2] = 0
      /\ share \in Nat /\ version \in Nat /\ proc \in [Proc -> Rebuilds]
  BY Zenon, StoppedIsOne DEF RebuildInv, RebuildTyped
<1>4. /\ ko' \in [Kernel -> Nat \X Nat] /\ ko'[k] = Rb!None
      /\ stamp' \in [Kernel -> Nat \X Nat] /\ stamp'[k] = Rb!None
      /\ \A j \in Kernel : j # k => ko'[j] = ko[j] /\ stamp'[j] = stamp[j]
  BY Zenon, <1>1, <1>2
<1>5. RebuildTyped'
  BY Zenon, <1>1, <1>4 DEF RebuildInv, RebuildTyped
<1>6. Alone'
  BY Zenon, <1>1 DEF RebuildInv, Alone
<1>8. Match'
  <2>1. Past(0)
    BY <1>2 DEF Past
  <2> QED  BY Zenon, <1>1, <1>2, <1>4, <2>1 DEF RebuildInv, Match, Past
<1>9. Newer'
  <2> SUFFICES ASSUME NEW q \in Proc
               PROVE  /\ proc[q].pc \in {"build", "mvko"} =>
                             stamp'[proc[q].k][2] <= proc[q].built[2]
                      /\ proc[q].pc = "mvstamp" /\ ko'[proc[q].k] # Rb!None =>
                             proc[q].pid[2] <= ko'[proc[q].k][2]
    BY Zenon, <1>1 DEF RebuildInv, Newer, Past
  <2>1. CASE proc[q].pc \notin {"build", "mvko", "mvstamp"}
    BY Zenon, <2>1
  <2>2. CASE proc[q].pc \in {"build", "mvko", "mvstamp"}
    <3>0. proc[q].pc \notin {"off", "wait", "plan"}
      BY Zenon, <2>2
    <3>1. proc[q].k \in Kernel /\ proc[q].built \in Nat \X Nat
      BY Zenon, <1>2, <3>0 DEF RebuildInv, Alone, Rebuilds
    <3>2. 0 <= proc[q].built[2]
      BY <3>1
    <3>3. CASE proc[q].k = k
      BY Zenon, <1>2, <1>4, <3>2, <3>3
    <3>4. CASE proc[q].k # k
      BY Zenon, <1>4, <3>1, <3>4 DEF RebuildInv, Newer
    <3> QED  BY Zenon, <3>3, <3>4
  <2> QED  BY Zenon, <2>1, <2>2
<1> QED  BY Zenon, <1>5, <1>6, <1>8, <1>9 DEF RebuildInv

(* A reboot stops every rebuild. *)
LEMMA BootKeeps ==
    ASSUME RebuildInv, Rb!Boot
    PROVE  RebuildInv'
<1>1. /\ share' = share /\ version' = version /\ kernel' = kernel
      /\ ko' = ko /\ stamp' = stamp
      /\ proc' = [p \in Proc |-> Rb!Stopped]
  BY Zenon DEF Rb!Boot
<1>3. Past(0)
  <2>1. share \in Nat /\ version \in Nat
    BY Zenon DEF RebuildInv, RebuildTyped
  <2> QED  BY <2>1 DEF Past
<1>5. /\ \A p \in Proc : proc'[p].pc = "off" /\ proc'[p].pid[2] = 0
      /\ proc' \in [Proc -> Rebuilds]
  BY Zenon, <1>1, StoppedIsOne
<1>6. RebuildTyped'
  BY Zenon, <1>1, <1>5 DEF RebuildInv, RebuildTyped
<1>7. Alone'
  BY Zenon, <1>5 DEF Alone
<1>9. Match'
  BY Zenon, <1>1 DEF RebuildInv, Match, Past
<1>10. Newer'
  BY Zenon, <1>1, <1>3, <1>5 DEF Newer, Past
<1> QED  BY Zenon, <1>6, <1>7, <1>9, <1>10 DEF RebuildInv

-----------------------------------------------------------------------------
(* Nothing is installed at first. *)
LEMMA RebuildInit ==
    ASSUME Rb!RebuildAssumption, Rb!Init
    PROVE  RebuildInv
<1>1. /\ share = 0 /\ version = 1 /\ kernel = Rb!Oldest
      /\ ko = [k \in Kernel |-> Rb!None] /\ stamp = [k \in Kernel |-> Rb!None]
      /\ proc = [p \in Proc |-> Rb!Stopped]
  BY Zenon DEF Rb!Init
<1>2. Rb!Oldest \in Kernel /\ Rb!None \in Nat \X Nat /\ Rb!None[2] = 0
  BY Zenon, OldestIsOne, StoppedIsOne
<1>3. share \in Nat /\ version \in Nat
  BY <1>1
<1>4. Past(0) /\ share <= version
  BY <1>1 DEF Past
<1>5. /\ \A p \in Proc : proc[p].pc = "off" /\ proc[p].pid[2] = 0
      /\ proc \in [Proc -> Rebuilds]
  BY Zenon, <1>1, StoppedIsOne
<1>6. RebuildTyped
  BY Zenon, <1>1, <1>2, <1>3, <1>5 DEF RebuildTyped, Rb!RebuildAssumption
<1>7. Alone
  BY Zenon, <1>5 DEF Alone
<1>9. Match
  BY Zenon, <1>1, <1>2, <1>4 DEF Match
<1>10. Newer
  BY Zenon, <1>4, <1>5 DEF Newer
<1> QED  BY Zenon, <1>6, <1>7, <1>9, <1>10 DEF RebuildInv

(* Every step of a rebuild keeps the invariant, *)
LEMMA StepKeeps ==
    ASSUME RebuildInv, NEW p \in Proc, Rb!Step(p) \/ Rb!InstallFails(p)
    PROVE  RebuildInv'
<1>1. CASE \/ Rb!LockTimeout(p) \/ Rb!NoPatches(p) \/ Rb!UpToDate(p)
           \/ Rb!FetchFails(p) \/ Rb!PrepareFails(p) \/ Rb!BuildFails(p)
           \/ Rb!DepmodWrite(p) \/ Rb!InstallFails(p)
  <2>1. Rb!Exit(p) /\ UNCHANGED <<share, version, kernel, ko, stamp>>
    BY ZenonT(60), <1>1 DEF Rb!LockTimeout, Rb!NoPatches, Rb!UpToDate,
       Rb!FetchFails, Rb!PrepareFails, Rb!BuildFails, Rb!DepmodWrite,
       Rb!InstallFails, Rb!Gives_up, Rb!system, Rb!files
  <2> QED  BY Zenon, <2>1, EndKeeps
<1>2. CASE Rb!Lock(p) \/ Rb!Fetch(p) \/ Rb!Build(p)
  BY Zenon, <1>2, GoKeeps
<1>3. CASE Rb!Depmod(p) \/ Rb!UpstreamDepmod(p)
  <2>1. Rb!Scans(p) /\ proc[p].pc \in {"depmod", "undepmod"}
    BY Zenon, <1>3 DEF Rb!Depmod, Rb!UpstreamDepmod, Rb!At
  <2> QED  BY Zenon, <2>1, ScansKeeps
<1> QED  BY Zenon, <1>1, <1>2, <1>3, PlanKeeps, PrepareKeeps,
         UpstreamFixedKeeps, MoveKoKeeps, MoveStampKeeps DEF Rb!Step

(* and so does every step. *)
LEMMA RebuildNext ==
    ASSUME RebuildInv, [Rb!Next]_(Rb!vars)
    PROVE  RebuildInv'
<1>1. CASE UNCHANGED Rb!vars
  BY Zenon, <1>1 DEF Rb!vars, Rb!system, Rb!files, RebuildInv, RebuildTyped,
     Alone, Match, Newer, Past
<1>2. CASE \E p \in Proc, force \in BOOLEAN : Rb!Start(p, force)
  BY Zenon, <1>2, BeginKeeps DEF Rb!Start
<1>3. CASE \E p \in Proc : Rb!Step(p) \/ Rb!InstallFails(p) \/ Rb!BootService(p)
  <2>1. FALSE \in BOOLEAN
    BY Zenon
  <2> QED  BY Zenon, <1>3, <2>1, StepKeeps, BeginKeeps
           DEF Rb!BootService
<1>4. CASE Rb!Install
  <2>1. TRUE \in BOOLEAN
    BY Zenon
  <2> QED  BY Zenon, <1>4, <2>1, InstallKeeps, BeginKeeps
           DEF Rb!Install, Rb!InstallRebuild
<1>5. CASE Rb!Pull \/ Rb!Uninstall
  BY Zenon, <1>5, InstallKeeps, UninstallKeeps, UninstallModuleKeeps
     DEF Rb!Uninstall
<1>6. CASE (\E k \in Kernel : Rb!KernelUpdate(k)) \/ Rb!Pacman
  BY Zenon, <1>6, PacmanKeeps
<1>7. CASE Rb!Boot
  BY Zenon, <1>7, BootKeeps
<1> QED  BY Zenon, <1>1, <1>2, <1>3, <1>4, <1>5, <1>6, <1>7 DEF Rb!Next

(***************************************************************************)
(* For any number of crashes too: a rebuild that leaves with "up to date"  *)
(* leaves a module that was built from contents not older than those it    *)
(* had hashed.                                                             *)
(***************************************************************************)
THEOREM SkipsAreCurrent ==
    ASSUME Rb!RebuildAssumption
    PROVE  Rb!Spec => Rb!SkipIsCurrent
<1>1. ASSUME RebuildInv, NEW p \in Proc, Rb!UpToDate(p)
      PROVE  ko[proc[p].k][2] >= proc[p].pid[2]
  <2>1. /\ proc[p].pc = "check" /\ ko[proc[p].k] # Rb!None
        /\ stamp[proc[p].k] = proc[p].pid
    BY Zenon, <1>1 DEF Rb!UpToDate, Rb!At, Rb!IsUpToDate, Rb!Present
  <2>2. proc[p].k \in Kernel
    BY Zenon, <1>1, <2>1 DEF RebuildInv, Alone
  <2>3. proc[p].pid[2] <= ko[proc[p].k][2]
    BY Zenon, <1>1, <2>1, <2>2 DEF RebuildInv, Match
  <2>4. ko[proc[p].k] \in Nat \X Nat /\ proc[p].pid \in Nat \X Nat
    BY Zenon, <1>1, <2>2 DEF RebuildInv, RebuildTyped, Rebuilds
  <2> QED  BY <2>3, <2>4
<1>2. ASSUME RebuildInv, [Rb!Next]_(Rb!vars)
      PROVE  [\A p \in Proc :
                 Rb!UpToDate(p) => ko[proc[p].k][2] >= proc[p].pid[2]]_(Rb!vars)
  BY Zenon, <1>1, <1>2
<1> QED  BY PTL, <1>2, RebuildInit, RebuildNext DEF Rb!Spec, Rb!SkipIsCurrent

-----------------------------------------------------------------------------
(***************************************************************************)
(* The index.  Whoever changes the module of the installed kernel runs     *)
(* depmod some steps later, and uninstall.sh does so without the lock.     *)
(* Until something fails or two depmods overlap, somebody is still to scan *)
(* (Pending), or every scan that is about to be written is true, and the   *)
(* index is where there is none (Current).                                 *)
(***************************************************************************)
Due == {"undepmod", "mvstamp", "depmod"}

Pending ==
    \/ \E p \in Proc : proc[p].pc \in Due /\ proc[p].k = kernel
    \/ admin.pc = "depmod" /\ admin.k = kernel
    \/ pacman.pc = "depmod"

Current ==
    /\ \A p \in Proc : proc[p].pc = "write" /\ proc[p].k = kernel =>
                           proc[p].listed = Rb!Present(kernel)
    /\ admin.pc = "write" /\ admin.k = kernel =>
           admin.listed = Rb!Present(kernel)
    /\ pacman.pc = "write" => pacman.listed = Rb!Present(kernel)
    /\ Rb!Scanned(kernel) \/ dep[kernel] = Rb!Present(kernel)

Fresh ==
    /\ faults \in Nat
    /\ dep = [k \in Kernel |-> dep[k]]
    /\ faults = 0 /\ ~overlap => Pending \/ Current

(* No depmod begins, writes or is called off, and the module is unchanged. *)
LEMMA StillFresh ==
    ASSUME Fresh,
           UNCHANGED <<faults, overlap, kernel, pacman, dep>>,
           ko'[kernel] = ko[kernel],
           \A p \in Proc :
               /\ proc[p].pc = "write" => proc'[p] = proc[p]
               /\ proc'[p].pc = "write" => proc'[p] = proc[p]
               /\ proc[p].pc \in Due =>
                      proc'[p].pc \in Due /\ proc'[p].k = proc[p].k,
           admin.pc \in {"depmod", "write"} => admin' = admin,
           admin'.pc = "write" => admin' = admin
    PROVE  Fresh'
<1>1. /\ faults' = faults /\ overlap' = overlap /\ kernel' = kernel
      /\ pacman' = pacman /\ dep' = dep
      /\ Rb!Present(kernel)' = Rb!Present(kernel)
  BY Zenon DEF Rb!Present
<1>2. Pending => Pending'
  BY Zenon, <1>1 DEF Pending
<1>3. ASSUME Current PROVE Current'
  <2>1. Rb!Scanned(kernel) => Rb!Scanned(kernel)'
    BY Zenon, <1>1 DEF Rb!Scanned
  <2>2. \A p \in Proc : proc'[p].pc = "write" /\ proc'[p].k = kernel =>
                            proc'[p].listed = Rb!Present(kernel)
    BY Zenon, <1>3 DEF Current
  <2>3. admin'.pc = "write" /\ admin'.k = kernel =>
            admin'.listed = Rb!Present(kernel)
    BY Zenon, <1>3 DEF Current
  <2> QED  BY Zenon, <1>1, <1>3, <2>1, <2>2, <2>3 DEF Current
<1>4. faults' \in Nat /\ dep' = [k \in Kernel |-> dep'[k]]
  BY Zenon, <1>1 DEF Fresh
<1>5. ~overlap' => ~overlap
  BY SMT, <1>1
<1>6. faults' = 0 /\ ~overlap' => Pending' \/ Current'
  BY Zenon, <1>1, <1>2, <1>3, <1>5 DEF Fresh
<1> QED  BY Zenon, <1>4, <1>6 DEF Fresh

(* A rebuild steps, and is not between the halves of a depmod. *)
LEMMA WalkFresh ==
    ASSUME Fresh, NEW p \in Proc, NEW at, NEW k, NEW pid, NEW built,
           Changed(p, at, k, pid, built),
           UNCHANGED <<faults, overlap, kernel, pacman, dep>>,
           ko'[kernel] = ko[kernel],
           at # "write", proc[p].pc # "write",
           proc[p].pc \in Due => at \in Due /\ k = proc[p].k,
           admin' = admin \/ (admin.pc = "force" /\ admin' = Rb!NoAdmin)
    PROVE  Fresh'
<1>1. \A q \in Proc :
          /\ proc[q].pc = "write" => proc'[q] = proc[q]
          /\ proc'[q].pc = "write" => proc'[q] = proc[q]
          /\ proc[q].pc \in Due =>
                 proc'[q].pc \in Due /\ proc'[q].k = proc[q].k
  <2> SUFFICES ASSUME NEW q \in Proc
               PROVE  /\ proc[q].pc = "write" => proc'[q] = proc[q]
                      /\ proc'[q].pc = "write" => proc'[q] = proc[q]
                      /\ proc[q].pc \in Due =>
                             proc'[q].pc \in Due /\ proc'[q].k = proc[q].k
    BY Zenon
  <2>1. CASE q = p
    BY Zenon, <2>1 DEF Changed
  <2>2. CASE q # p
    BY Zenon, <2>2 DEF Changed
  <2> QED  BY Zenon, <2>1, <2>2
<1>2. Rb!NoAdmin.pc = "idle"
  BY Zenon DEF Rb!NoAdmin
<1>3. /\ admin.pc \in {"depmod", "write"} => admin' = admin
      /\ admin'.pc = "write" => admin' = admin
  BY <1>2
<1> QED  BY Zenon, <1>1, <1>3, StillFresh

(* Somebody is to run depmod now. *)
LEMMA DueFresh ==
    ASSUME Fresh, UNCHANGED <<faults, overlap, dep>>, Pending'
    PROVE  Fresh'
BY Zenon DEF Fresh

(* The module of a kernel is changed by a rebuild that will run depmod. *)
LEMMA FileFresh ==
    ASSUME RebuildInv, Fresh,
           NEW p \in Proc, NEW at, NEW k, NEW pid, NEW built,
           Changed(p, at, k, pid, built), at \in Due,
           UNCHANGED <<faults, overlap, kernel, pacman, dep, admin>>,
           proc[p].pc # "write", k = proc[p].k,
           k = kernel \/ ko'[kernel] = ko[kernel]
    PROVE  Fresh'
<1>1. kernel' = kernel /\ kernel \in Kernel /\ at # "write"
  BY Zenon DEF RebuildInv, RebuildTyped, Due
<1>2. CASE k = kernel
  <2>1. proc'[p].pc \in Due /\ proc'[p].k = kernel'
    BY Zenon, <1>1, <1>2 DEF Changed
  <2>2. Pending'
    BY Zenon, <2>1 DEF Pending
  <2> QED  BY Zenon, <2>2, DueFresh
<1>3. CASE k # kernel
  BY Zenon, <1>1, <1>3, WalkFresh
<1> QED  BY Zenon, <1>2, <1>3

(* A scan of kernel k with no other depmod of it in flight. *)
LEMMA ScanAlone ==
    ASSUME NEW k, ~Rb!Scanned(k), kernel = k
    PROVE  /\ \A q \in Proc : ~(proc[q].pc = "write" /\ proc[q].k = kernel)
           /\ ~(admin.pc = "write" /\ admin.k = kernel)
           /\ pacman.pc # "write"
BY Zenon DEF Rb!Scanned

(* The first half of depmod, in a rebuild, *)
LEMMA ScansFresh ==
    ASSUME RebuildInv, Fresh, NEW p \in Proc, Rb!Scans(p),
           proc[p].pc # "write"
    PROVE  Fresh'
<1> DEFINE k == proc[p].k
<1>1. /\ faults' = faults /\ kernel' = kernel /\ pacman' = pacman
      /\ dep' = dep /\ admin' = admin /\ ko' = ko
      /\ overlap' = (overlap \/ Rb!Scanned(k))
  BY Zenon DEF Rb!Scans, Rb!Scan, Rb!system
<1>2. /\ proc'[p].pc = "write" /\ proc'[p].k = k
      /\ proc'[p].listed = Rb!Present(k)
      /\ \A q \in Proc : q # p => proc'[q] = proc[q]
  BY Zenon, ScansEffect DEF RebuildInv, Changed
<1>3. Rb!Present(kernel)' = Rb!Present(kernel)
  BY Zenon, <1>1 DEF Rb!Present
<1>4. ASSUME k = kernel, ~overlap' PROVE Current'
  <2>1. /\ \A q \in Proc : ~(proc[q].pc = "write" /\ proc[q].k = kernel)
        /\ ~(admin.pc = "write" /\ admin.k = kernel)
        /\ pacman.pc # "write"
    BY Zenon, <1>1, <1>4, ScanAlone
  <2>2. Rb!Scanned(kernel)'
    BY Zenon, <1>1, <1>2, <1>4 DEF Rb!Scanned
  <2>3. \A q \in Proc : proc'[q].pc = "write" /\ proc'[q].k = kernel =>
                            proc'[q].listed = Rb!Present(kernel)
    BY Zenon, <1>2, <1>4, <2>1
  <2> HIDE DEF k
  <2> QED  BY Zenon, <1>1, <1>3, <2>1, <2>2, <2>3 DEF Current
<1>5. ASSUME k # kernel, Pending PROVE Pending'
  BY Zenon, <1>1, <1>2, <1>5 DEF Pending
<1>6. ASSUME k # kernel, Current PROVE Current'
  <2>1. Rb!Scanned(kernel) => Rb!Scanned(kernel)'
    BY Zenon, <1>1, <1>2, <1>6 DEF Rb!Scanned
  <2>2. \A q \in Proc : proc'[q].pc = "write" /\ proc'[q].k = kernel =>
                            proc'[q].listed = Rb!Present(kernel)
    BY Zenon, <1>2, <1>6 DEF Current
  <2> QED  BY Zenon, <1>1, <1>3, <1>6, <2>1, <2>2 DEF Current
<1> QED  BY Zenon, <1>1, <1>4, <1>5, <1>6 DEF Fresh

(* in uninstall.sh, *)
LEMMA UninstallDepmodFresh ==
    ASSUME Fresh, Rb!UninstallDepmod
    PROVE  Fresh'
<1> DEFINE k == admin.k
<1>1. /\ faults' = faults /\ kernel' = kernel /\ pacman' = pacman
      /\ dep' = dep /\ proc' = proc /\ ko' = ko
      /\ overlap' = (overlap \/ Rb!Scanned(k)) /\ admin.pc = "depmod"
      /\ admin' = [Rb!NoAdmin EXCEPT !.pc = "write", !.todo = admin.todo,
                       !.k = k, !.listed = Rb!Present(k)]
  BY Zenon DEF Rb!UninstallDepmod, Rb!Scan, Rb!system
<1>2. admin'.pc = "write" /\ admin'.k = k /\ admin'.listed = Rb!Present(k)
  BY Zenon, <1>1 DEF Rb!NoAdmin
<1>3. Rb!Present(kernel)' = Rb!Present(kernel)
  BY Zenon, <1>1 DEF Rb!Present
<1>4. ASSUME k = kernel, ~overlap' PROVE Current'
  <2>1. /\ \A q \in Proc : ~(proc[q].pc = "write" /\ proc[q].k = kernel)
        /\ pacman.pc # "write"
    BY Zenon, <1>1, <1>4, ScanAlone
  <2>2. Rb!Scanned(kernel)'
    BY Zenon, <1>1, <1>2, <1>4 DEF Rb!Scanned
  <2>3. admin'.listed = Rb!Present(kernel)
    BY Zenon, <1>2, <1>4
  <2> HIDE DEF k
  <2> QED  BY Zenon, <1>1, <1>3, <2>1, <2>2, <2>3 DEF Current
<1>5. ASSUME k # kernel, Pending PROVE Pending'
  BY Zenon, <1>1, <1>5 DEF Pending
<1>6. ASSUME k # kernel, Current PROVE Current'
  <2>1. Rb!Scanned(kernel) => Rb!Scanned(kernel)'
    <3>1. "depmod" # "write"
      BY Zenon
    <3> QED  BY Zenon, <1>1, <3>1 DEF Rb!Scanned
  <2>2. ~(admin'.pc = "write" /\ admin'.k = kernel)
    BY Zenon, <1>2, <1>6
  <2> QED  BY Zenon, <1>1, <1>3, <1>6, <2>1, <2>2 DEF Current
<1> QED  BY Zenon, <1>1, <1>4, <1>5, <1>6 DEF Fresh

(* and in pacman. *)
LEMMA PacmanDepmodFresh ==
    ASSUME Fresh, Rb!PacmanDepmod
    PROVE  Fresh'
<1>1. /\ faults' = faults /\ kernel' = kernel /\ admin' = admin
      /\ dep' = dep /\ proc' = proc /\ ko' = ko
      /\ overlap' = (overlap \/ Rb!Scanned(kernel))
      /\ pacman' = [pc |-> "write", listed |-> Rb!Present(kernel)]
  BY Zenon DEF Rb!PacmanDepmod, Rb!Scan, Rb!system
<1>2. pacman'.pc = "write" /\ pacman'.listed = Rb!Present(kernel)
  BY Zenon, <1>1
<1>3. Rb!Present(kernel)' = Rb!Present(kernel)
  BY Zenon, <1>1 DEF Rb!Present
<1>4. ASSUME ~overlap' PROVE Current'
  <2>1. /\ \A q \in Proc : ~(proc[q].pc = "write" /\ proc[q].k = kernel)
        /\ ~(admin.pc = "write" /\ admin.k = kernel)
    BY Zenon, <1>1, <1>4, ScanAlone
  <2>2. Rb!Scanned(kernel)'
    BY Zenon, <1>1, <1>2 DEF Rb!Scanned
  <2> QED  BY Zenon, <1>1, <1>2, <1>3, <2>1, <2>2 DEF Current
<1> QED  BY Zenon, <1>1, <1>4 DEF Fresh

(* What the second half writes, and what it leaves. *)
LEMMA WriteEffect ==
    ASSUME Fresh, NEW k, NEW listed, kernel \in Kernel,
           dep' = [dep EXCEPT ![k] = listed]
    PROVE  /\ dep' = [j \in Kernel |-> dep'[j]]
           /\ dep'[kernel] = IF k = kernel THEN listed ELSE dep[kernel]
<1>1. DOMAIN dep = Kernel
  BY Zenon DEF Fresh
<1>2. dep' = [j \in Kernel |-> IF j = k THEN listed ELSE dep[j]]
  BY Zenon, <1>1
<1> QED  BY Zenon, <1>2

(* The second half writes a true scan, or somebody is still to scan. *)
LEMMA DepmodWriteFresh ==
    ASSUME RebuildInv, Fresh, NEW p \in Proc, Rb!DepmodWrite(p)
    PROVE  Fresh'
<1> DEFINE k == proc[p].k  listed == proc[p].listed
<1>1. /\ faults' = faults /\ kernel' = kernel /\ pacman' = pacman
      /\ admin' = admin /\ ko' = ko /\ overlap' = overlap
      /\ dep' = [dep EXCEPT ![k] = listed] /\ proc[p].pc = "write"
      /\ kernel \in Kernel
  BY Zenon DEF Rb!DepmodWrite, Rb!Write, Rb!At, Rb!system, RebuildInv,
     RebuildTyped
<1>2. proc'[p].pc = "off" /\ \A q \in Proc : q # p => proc'[q] = proc[q]
  BY Zenon, ExitEffect DEF RebuildInv, Rb!DepmodWrite, Changed
<1>3. Rb!Present(kernel)' = Rb!Present(kernel)
  BY Zenon, <1>1 DEF Rb!Present
<1>4. /\ dep' = [j \in Kernel |-> dep'[j]]
      /\ dep'[kernel] = IF k = kernel THEN listed ELSE dep[kernel]
  BY Zenon, <1>1, WriteEffect
<1>5. ASSUME Pending PROVE Pending'
  <2>1. proc[p].pc \notin Due
    BY Zenon, <1>1 DEF Due
  <2> QED  BY Zenon, <1>1, <1>2, <1>5, <2>1 DEF Pending
<1>6. ASSUME Current PROVE Current'
  <2>1. k = kernel \/ (Rb!Scanned(kernel) => Rb!Scanned(kernel)')
    BY Zenon, <1>1, <1>2 DEF Rb!Scanned
  <2>2. \A q \in Proc : proc'[q].pc = "write" /\ proc'[q].k = kernel =>
                            proc'[q].listed = Rb!Present(kernel)
    BY Zenon, <1>2, <1>6 DEF Current
  <2>3. k = kernel => dep'[kernel] = Rb!Present(kernel)
    BY Zenon, <1>1, <1>4, <1>6 DEF Current
  <2>4. k # kernel => dep'[kernel] = dep[kernel]
    BY Zenon, <1>4
  <2> HIDE DEF k, listed
  <2>5. Rb!Scanned(kernel)' \/ dep'[kernel] = Rb!Present(kernel)
    BY Zenon, <1>6, <2>1, <2>3, <2>4 DEF Current
  <2> QED  BY Zenon, <1>1, <1>3, <1>6, <2>2, <2>5 DEF Current
<1> QED  BY Zenon, <1>1, <1>4, <1>5, <1>6 DEF Fresh

LEMMA UninstallWriteFresh ==
    ASSUME RebuildInv, Fresh, Rb!UninstallWrite
    PROVE  Fresh'
<1> DEFINE k == admin.k  listed == admin.listed
<1>1. /\ faults' = faults /\ kernel' = kernel /\ pacman' = pacman
      /\ proc' = proc /\ ko' = ko /\ overlap' = overlap
      /\ dep' = [dep EXCEPT ![k] = listed] /\ admin.pc = "write"
      /\ admin' = [Rb!NoAdmin EXCEPT !.pc = "modules", !.todo = admin.todo]
      /\ kernel \in Kernel
  BY Zenon DEF Rb!UninstallWrite, Rb!Write, Rb!system, RebuildInv, RebuildTyped
<1>2. admin'.pc = "modules"
  BY Zenon, <1>1 DEF Rb!NoAdmin
<1>3. Rb!Present(kernel)' = Rb!Present(kernel)
  BY Zenon, <1>1 DEF Rb!Present
<1>4. /\ dep' = [j \in Kernel |-> dep'[j]]
      /\ dep'[kernel] = IF k = kernel THEN listed ELSE dep[kernel]
  BY Zenon, <1>1, WriteEffect
<1>5. ASSUME Pending PROVE Pending'
  <2>1. admin.pc # "depmod"
    BY Zenon, <1>1
  <2> QED  BY Zenon, <1>1, <1>5, <2>1 DEF Pending
<1>6. ASSUME Current PROVE Current'
  <2>1. k = kernel \/ (Rb!Scanned(kernel) => Rb!Scanned(kernel)')
    BY Zenon, <1>1 DEF Rb!Scanned
  <2>2. admin'.pc # "write"
    BY Zenon, <1>2
  <2>3. k = kernel => dep'[kernel] = Rb!Present(kernel)
    BY Zenon, <1>1, <1>4, <1>6 DEF Current
  <2>4. k # kernel => dep'[kernel] = dep[kernel]
    BY Zenon, <1>4
  <2> HIDE DEF k, listed
  <2>5. Rb!Scanned(kernel)' \/ dep'[kernel] = Rb!Present(kernel)
    BY Zenon, <1>6, <2>1, <2>3, <2>4 DEF Current
  <2> QED  BY Zenon, <1>1, <1>3, <1>6, <2>2, <2>5 DEF Current
<1> QED  BY Zenon, <1>1, <1>4, <1>5, <1>6 DEF Fresh

LEMMA PacmanWriteFresh ==
    ASSUME RebuildInv, Fresh, Rb!PacmanWrite
    PROVE  Fresh'
<1> DEFINE listed == pacman.listed
<1>1. /\ faults' = faults /\ kernel' = kernel /\ admin' = admin
      /\ proc' = proc /\ ko' = ko /\ overlap' = overlap
      /\ dep' = [dep EXCEPT ![kernel] = listed] /\ pacman.pc = "write"
      /\ pacman' = Rb!NoPacman
      /\ kernel \in Kernel
  BY Zenon DEF Rb!PacmanWrite, Rb!Write, Rb!system, RebuildInv, RebuildTyped
<1>2. pacman'.pc = "idle"
  BY Zenon, <1>1 DEF Rb!NoPacman
<1>3. Rb!Present(kernel)' = Rb!Present(kernel)
  BY Zenon, <1>1 DEF Rb!Present
<1>4. dep' = [j \in Kernel |-> dep'[j]] /\ dep'[kernel] = listed
  BY Zenon, <1>1, WriteEffect
<1>5. ASSUME Pending PROVE Pending'
  <2>1. pacman.pc # "depmod"
    BY Zenon, <1>1
  <2> QED  BY Zenon, <1>1, <1>5, <2>1 DEF Pending
<1>6. ASSUME Current PROVE Current'
  <2>1. dep'[kernel] = Rb!Present(kernel) /\ pacman'.pc # "write"
    BY Zenon, <1>1, <1>2, <1>4, <1>6 DEF Current
  <2> QED  BY Zenon, <1>1, <1>3, <1>6, <2>1 DEF Current
<1> QED  BY Zenon, <1>1, <1>4, <1>5, <1>6 DEF Fresh

-----------------------------------------------------------------------------
(* The steps of a rebuild. *)
LEMMA StepFresh ==
    ASSUME RebuildInv, Fresh, NEW p \in Proc, Rb!Step(p)
    PROVE  Fresh'
<1> DEFINE k == proc[p].k  pid == proc[p].pid  built == proc[p].built
<1>1. CASE \/ Rb!LockTimeout(p) \/ Rb!NoPatches(p) \/ Rb!UpToDate(p)
           \/ Rb!FetchFails(p) \/ Rb!PrepareFails(p) \/ Rb!BuildFails(p)
  <2>1. /\ Rb!Exit(p)
        /\ UNCHANGED <<faults, overlap, kernel, pacman, dep, ko, admin>>
        /\ proc[p].pc \in {"wait", "plan", "check", "prepare", "build"}
    BY ZenonT(60), <1>1 DEF Rb!LockTimeout, Rb!NoPatches, Rb!UpToDate,
       Rb!FetchFails, Rb!PrepareFails, Rb!BuildFails, Rb!At, Rb!Gives_up,
       Rb!system, Rb!files, Rb!index
  <2>2. proc[p].pc \notin Due /\ proc[p].pc # "write" /\ "off" # "write"
    BY Zenon, <2>1 DEF Due
  <2>3. Changed(p, "off", 0, Rb!None, Rb!None)
    BY Zenon, <2>1, ExitEffect DEF RebuildInv
  <2> QED  BY Zenon, <2>1, <2>2, <2>3, WalkFresh
<1>2. CASE Rb!Lock(p) \/ Rb!Fetch(p) \/ Rb!Build(p) \/ Rb!MoveStamp(p)
  <2>1. UNCHANGED <<faults, overlap, kernel, pacman, dep, ko, admin>>
    BY ZenonT(60), <1>2 DEF Rb!Lock, Rb!Fetch, Rb!Build, Rb!MoveStamp,
       Rb!system, Rb!files, Rb!index
  <2>2. \E at \in {"plan", "prepare", "mvko", "depmod"} :
            /\ Rb!Goes(p, at)
            /\ proc[p].pc \in {"wait", "check", "build"}
               \/ (proc[p].pc = "mvstamp" /\ at = "depmod")
    BY Zenon, <1>2 DEF Rb!Lock, Rb!Fetch, Rb!Build, Rb!MoveStamp, Rb!At
  <2>3. PICK at \in {"plan", "prepare", "mvko", "depmod"} :
            /\ Rb!Goes(p, at)
            /\ proc[p].pc \in {"wait", "check", "build"}
               \/ (proc[p].pc = "mvstamp" /\ at = "depmod")
    BY Zenon, <2>2
  <2>4. /\ at \in Pcs /\ at # "write" /\ proc[p].pc # "write"
        /\ proc[p].pc \in Due => at \in Due
    BY <2>3 DEF Due, Pcs
  <2>5. Changed(p, at, k, pid, built)
    BY Zenon, <2>3, <2>4, GoesEffect DEF RebuildInv
  <2> QED  BY Zenon, <2>1, <2>4, <2>5, WalkFresh
<1>3. CASE Rb!Prepare(p)
  <2>1. /\ UNCHANGED <<faults, overlap, kernel, pacman, dep, ko, admin>>
        /\ proc[p].pc = "prepare"
    BY Zenon, <1>3 DEF Rb!Prepare, Rb!At, Rb!system, Rb!files, Rb!index
  <2>2. proc[p].pc \notin Due /\ proc[p].pc # "write" /\ "build" # "write"
    BY Zenon, <2>1 DEF Due
  <2>3. Changed(p, "build", k, pid, <<proc[p].glob, share>>)
    BY Zenon, <1>3, PrepareEffect DEF RebuildInv
  <2> QED  BY Zenon, <2>1, <2>2, <2>3, WalkFresh
<1>4. CASE Rb!Plan(p)
  <2>1. /\ UNCHANGED <<faults, overlap, kernel, pacman, dep, admin>>
        /\ proc[p].pc = "plan"
        /\ ko' = [j \in Kernel |->
                      IF j \in Rb!Orphans THEN Rb!None ELSE ko[j]]
    BY Zenon, <1>4 DEF Rb!Plan, Rb!At, Rb!system, Rb!index
  <2>2. proc[p].pc \notin Due /\ proc[p].pc # "write" /\ "check" # "write"
    BY Zenon, <2>1 DEF Due
  <2>3. Changed(p, "check", kernel, <<proc[p].glob, share>>, built)
    BY Zenon, <1>4, PlanEffect DEF RebuildInv
  <2>4. ko'[kernel] = ko[kernel]
    BY Zenon, <2>1 DEF RebuildInv, RebuildTyped, Rb!Orphans
  <2> QED  BY Zenon, <2>1, <2>2, <2>3, <2>4, WalkFresh
<1>5. CASE Rb!MoveKo(p)
  <2>1. /\ UNCHANGED <<faults, overlap, kernel, pacman, dep, admin>>
        /\ proc[p].pc = "mvko" /\ Rb!Goes(p, "mvstamp")
        /\ ko' = [ko EXCEPT ![k] = built]
    BY Zenon, <1>5 DEF Rb!MoveKo, Rb!At, Rb!system, Rb!index
  <2>2. /\ proc[p].pc # "write" /\ "mvstamp" \in Due /\ "mvstamp" \in Pcs
        /\ ko \in [Kernel -> Nat \X Nat]
    BY Zenon, <2>1 DEF Due, Pcs, RebuildInv, RebuildTyped
  <2>3. Changed(p, "mvstamp", k, pid, built)
    BY Zenon, <2>1, <2>2, GoesEffect DEF RebuildInv
  <2>4. k = kernel \/ ko'[kernel] = ko[kernel]
    BY Zenon, <2>1, <2>2 DEF RebuildInv, RebuildTyped
  <2> QED  BY Zenon, <2>1, <2>2, <2>3, <2>4, FileFresh
<1>6. CASE Rb!UpstreamFixed(p) /\ stamp[k] = Rb!None
  <2>1. /\ Rb!Exit(p) /\ proc[p].pc = "prepare"
        /\ UNCHANGED <<faults, overlap, kernel, pacman, dep, ko, admin>>
    BY Zenon, <1>6 DEF Rb!UpstreamFixed, Rb!At, Rb!system, Rb!index
  <2>2. proc[p].pc \notin Due /\ proc[p].pc # "write" /\ "off" # "write"
    BY Zenon, <2>1 DEF Due
  <2>3. Changed(p, "off", 0, Rb!None, Rb!None)
    BY Zenon, <2>1, ExitEffect DEF RebuildInv
  <2> QED  BY Zenon, <2>1, <2>2, <2>3, WalkFresh
<1>7. CASE Rb!UpstreamFixed(p) /\ stamp[k] # Rb!None
  <2>1. /\ UNCHANGED <<faults, overlap, kernel, pacman, dep, admin>>
        /\ proc[p].pc = "prepare" /\ Rb!Goes(p, "undepmod")
        /\ ko' = [ko EXCEPT ![k] = Rb!None]
    BY Zenon, <1>7 DEF Rb!UpstreamFixed, Rb!At, Rb!system, Rb!index
  <2>2. /\ proc[p].pc # "write" /\ "undepmod" \in Due /\ "undepmod" \in Pcs
        /\ ko \in [Kernel -> Nat \X Nat]
    BY Zenon, <2>1 DEF Due, Pcs, RebuildInv, RebuildTyped
  <2>3. Changed(p, "undepmod", k, pid, built)
    BY Zenon, <2>1, <2>2, GoesEffect DEF RebuildInv
  <2>4. k = kernel \/ ko'[kernel] = ko[kernel]
    BY Zenon, <2>1, <2>2 DEF RebuildInv, RebuildTyped
  <2> QED  BY Zenon, <2>1, <2>2, <2>3, <2>4, FileFresh
<1>8. CASE Rb!Depmod(p) \/ Rb!UpstreamDepmod(p)
  <2>1. Rb!Scans(p) /\ proc[p].pc \in {"depmod", "undepmod"}
    BY Zenon, <1>8 DEF Rb!Depmod, Rb!UpstreamDepmod, Rb!At
  <2>2. proc[p].pc # "write"
    BY Zenon, <2>1
  <2> QED  BY Zenon, <2>1, <2>2, ScansFresh
<1> QED  BY Zenon, <1>1, <1>2, <1>3, <1>4, <1>5, <1>6, <1>7, <1>8,
         DepmodWriteFresh DEF Rb!Step

(* A rebuild begins. *)
LEMMA BeginFresh ==
    ASSUME RebuildInv, Fresh, NEW p \in Proc, NEW force \in BOOLEAN,
           Rb!Begins(p, force),
           admin' = admin \/ (admin.pc = "force" /\ admin' = Rb!NoAdmin)
    PROVE  Fresh'
<1>1. /\ UNCHANGED <<faults, overlap, kernel, pacman, dep, ko>>
      /\ proc[p].pc = "off"
  BY Zenon DEF Rb!Begins, Rb!At, Rb!files, Rb!index
<1>2. proc[p].pc \notin Due /\ proc[p].pc # "write" /\ "wait" # "write"
  BY Zenon, <1>1 DEF Due
<1>3. Changed(p, "wait", 0, Rb!None, Rb!None)
  BY Zenon, BeginsEffect DEF RebuildInv
<1> QED  BY Zenon, <1>1, <1>2, <1>3, WalkFresh

(* The steps of the scripts that leave the modules alone. *)
LEMMA AdminFresh ==
    ASSUME Fresh,
           \/ Rb!InstallDelete \/ Rb!InstallCopy \/ Rb!InstallScript
           \/ Rb!InstallDies \/ Rb!Pull \/ Rb!UninstallScript
           \/ Rb!UninstallPatches \/ Rb!UninstallStops \/ Rb!UninstallEnds
    PROVE  Fresh'
<1>1. UNCHANGED <<faults, overlap, kernel, pacman, dep, ko, proc>>
  BY ZenonT(60) DEF Rb!InstallDelete, Rb!InstallCopy, Rb!InstallScript,
     Rb!InstallDies, Rb!Pull, Rb!UninstallScript, Rb!UninstallPatches,
     Rb!UninstallStops, Rb!UninstallEnds, Rb!files, Rb!index, Rb!system
<1>2. /\ admin.pc \in {"idle", "copy", "script", "force", "patches", "modules"}
      /\ admin'.pc # "write" \/ admin' = admin
  <2>1. CASE \/ Rb!InstallDelete \/ Rb!InstallCopy \/ Rb!InstallScript
             \/ Rb!UninstallScript
    <3>1. \E c \in {"copy", "script", "force", "patches"} :
              /\ admin' = [Rb!NoAdmin EXCEPT !.pc = c]
              /\ admin.pc \in {"idle", "copy", "script"}
      BY Zenon, <2>1 DEF Rb!InstallDelete, Rb!InstallCopy, Rb!InstallScript,
         Rb!UninstallScript, Rb!Admin
    <3>2. /\ admin'.pc \in {"copy", "script", "force", "patches"}
          /\ admin.pc \in {"idle", "copy", "script"}
      BY Zenon, <3>1 DEF Rb!NoAdmin
    <3> QED  BY <3>2
  <2>2. CASE Rb!InstallDies \/ Rb!UninstallStops \/ Rb!UninstallEnds
    <3>1. /\ admin' = Rb!NoAdmin
          /\ admin.pc \in {"copy", "script", "force", "patches", "modules"}
      BY Zenon, <2>2 DEF Rb!InstallDies, Rb!UninstallStops, Rb!UninstallEnds
    <3>2. admin'.pc = "idle"
      BY Zenon, <3>1 DEF Rb!NoAdmin
    <3> QED  BY <3>1, <3>2
  <2>3. CASE Rb!Pull
    BY Zenon, <2>3 DEF Rb!Pull
  <2>4. CASE Rb!UninstallPatches
    <3>1. admin.pc = "patches" /\ admin'.pc = "modules"
      BY Zenon, <2>4 DEF Rb!UninstallPatches, Rb!NoAdmin
    <3> QED  BY <3>1
  <2> QED  BY Zenon, <2>1, <2>2, <2>3, <2>4
<1>3. admin.pc \notin {"depmod", "write"}
  BY <1>2
<1> QED  BY Zenon, <1>1, <1>2, <1>3, StillFresh

(* uninstall.sh removes a module and will run depmod. *)
LEMMA UninstallModuleFresh ==
    ASSUME RebuildInv, Fresh, NEW k \in Kernel, Rb!UninstallModule(k)
    PROVE  Fresh'
<1>1. /\ UNCHANGED <<faults, overlap, kernel, pacman, dep, proc>>
      /\ ko' = [ko EXCEPT ![k] = Rb!None] /\ admin.pc = "modules"
      /\ admin' = [Rb!NoAdmin EXCEPT !.pc = "depmod",
                       !.todo = admin.todo \ {k}, !.k = k]
  BY Zenon DEF Rb!UninstallModule, Rb!system, Rb!index
<1>2. /\ admin'.pc = "depmod" /\ admin'.k = k
      /\ ko \in [Kernel -> Nat \X Nat] /\ kernel \in Kernel
  BY Zenon, <1>1 DEF Rb!NoAdmin, RebuildInv, RebuildTyped
<1>3. CASE k = kernel
  <2>1. Pending'
    BY Zenon, <1>1, <1>2, <1>3 DEF Pending
  <2> QED  BY Zenon, <1>1, <2>1, DueFresh
<1>4. CASE k # kernel
  <2>1. /\ ko'[kernel] = ko[kernel]
        /\ admin.pc \notin {"depmod", "write"} /\ admin'.pc # "write"
    BY Zenon, <1>1, <1>2, <1>4
  <2> QED  BY Zenon, <1>1, <2>1, StillFresh
<1> QED  BY Zenon, <1>3, <1>4

(* pacman will run depmod for the kernel it installs. *)
LEMMA KernelUpdateFresh ==
    ASSUME Fresh, NEW k \in Kernel, Rb!KernelUpdate(k)
    PROVE  Fresh'
<1>1. /\ UNCHANGED <<faults, overlap, dep>>
      /\ pacman' = [Rb!NoPacman EXCEPT !.pc = "depmod"]
  BY Zenon DEF Rb!KernelUpdate
<1>2. Pending'
  BY Zenon, <1>1 DEF Pending, Rb!NoPacman
<1> QED  BY Zenon, <1>1, <1>2, DueFresh

(* After a fault nothing is claimed; a reboot with nothing running changes *)
(* nothing of the index.                                                   *)
LEMMA FaultFresh ==
    ASSUME Fresh, faults' = faults + 1, dep' = dep
    PROVE  Fresh'
<1>1. faults' \in Nat /\ faults' # 0
  BY DEF Fresh
<1> QED  BY Zenon, <1>1 DEF Fresh

LEMMA QuietIsTrue ==
    ASSUME Fresh, Rb!Quiet, faults = 0, ~overlap
    PROVE  dep[kernel] = Rb!Present(kernel)
<1>1. /\ Rb!NoAdmin.pc = "idle" /\ Rb!NoPacman.pc = "idle"
      /\ "off" \notin Due /\ "off" # "write" /\ "idle" # "depmod"
      /\ "idle" # "write"
  BY Zenon DEF Rb!NoAdmin, Rb!NoPacman, Due
<1>2. /\ admin.pc = "idle" /\ pacman.pc = "idle"
      /\ \A p \in Proc : proc[p].pc = "off"
  BY Zenon, <1>1 DEF Rb!Quiet
<1>3. ~Pending /\ ~Rb!Scanned(kernel)
  BY Zenon, <1>1, <1>2 DEF Pending, Rb!Scanned
<1> QED  BY Zenon, <1>3 DEF Fresh, Current

LEMMA BootFresh ==
    ASSUME Fresh, Rb!Boot
    PROVE  Fresh'
<1>1. /\ UNCHANGED <<kernel, ko, dep, overlap>>
      /\ admin' = Rb!NoAdmin /\ pacman' = Rb!NoPacman
      /\ proc' = [p \in Proc |-> Rb!Stopped]
      /\ faults' = IF Rb!Quiet THEN faults ELSE faults + 1
  BY Zenon DEF Rb!Boot
<1>2. CASE ~Rb!Quiet
  BY Zenon, <1>1, <1>2, FaultFresh
<1>3. CASE Rb!Quiet
  <2>1. /\ admin'.pc # "write" /\ pacman'.pc # "write"
        /\ \A p \in Proc : proc'[p].pc # "write"
    BY Zenon, <1>1 DEF Rb!NoAdmin, Rb!NoPacman, Rb!Stopped
  <2>2. /\ Rb!Present(kernel)' = Rb!Present(kernel)
        /\ dep' = dep /\ kernel' = kernel /\ faults' = faults
        /\ overlap' = overlap
    BY Zenon, <1>1, <1>3 DEF Rb!Present
  <2>3. ASSUME faults = 0, ~overlap PROVE Current'
    <3>1. dep[kernel] = Rb!Present(kernel)
      BY Zenon, <1>3, <2>3, QuietIsTrue
    <3> QED  BY Zenon, <2>1, <2>2, <3>1 DEF Current
  <2> QED  BY Zenon, <2>2, <2>3 DEF Fresh
<1> QED  BY Zenon, <1>2, <1>3

(* Nothing is there and nothing listed at first, *)
LEMMA FreshInit ==
    ASSUME Rb!RebuildAssumption, Rb!Init
    PROVE  Fresh
<1>1. /\ faults = 0 /\ kernel = Rb!Oldest /\ admin = Rb!NoAdmin
      /\ ko = [k \in Kernel |-> Rb!None] /\ dep = [k \in Kernel |-> FALSE]
      /\ proc = [p \in Proc |-> Rb!Stopped] /\ pacman = Rb!NoPacman
  BY Zenon DEF Rb!Init
<1>2. /\ admin.pc # "write" /\ pacman.pc # "write"
      /\ \A p \in Proc : proc[p].pc # "write"
  BY Zenon, <1>1 DEF Rb!NoAdmin, Rb!NoPacman, Rb!Stopped
<1>3. dep[kernel] = FALSE /\ Rb!Present(kernel) = FALSE
  BY Zenon, <1>1, OldestIsOne DEF Rb!Present
<1>4. Current
  BY Zenon, <1>2, <1>3 DEF Current
<1>5. faults \in Nat
  BY <1>1
<1>6. dep = [k \in Kernel |-> dep[k]]
  BY Zenon, <1>1
<1> QED  BY Zenon, <1>4, <1>5, <1>6 DEF Fresh

(* and every step keeps Fresh. *)
LEMMA FreshNext ==
    ASSUME RebuildInv, Fresh, [Rb!Next]_(Rb!vars)
    PROVE  Fresh'
<1>1. CASE UNCHANGED Rb!vars
  BY Zenon, <1>1 DEF Rb!vars, Rb!system, Rb!files, Rb!index, Fresh, Pending,
     Current, Rb!Scanned, Rb!Present
<1>2. CASE \E p \in Proc, force \in BOOLEAN : Rb!Start(p, force)
  BY Zenon, <1>2, BeginFresh DEF Rb!Start
<1>3. CASE \E p \in Proc : Rb!Step(p) \/ Rb!BootService(p)
  <2>1. FALSE \in BOOLEAN
    BY Zenon
  <2> QED  BY Zenon, <1>3, <2>1, StepFresh, BeginFresh DEF Rb!BootService
<1>4. CASE (\E p \in Proc : Rb!InstallFails(p)) \/ Rb!UninstallDies
  BY Zenon, <1>4, FaultFresh
     DEF Rb!InstallFails, Rb!UninstallDies, Rb!files, Rb!index
<1>5. CASE Rb!Install
  <2>1. TRUE \in BOOLEAN
    BY Zenon
  <2> QED  BY Zenon, <1>5, <2>1, AdminFresh, BeginFresh
           DEF Rb!Install, Rb!InstallRebuild
<1>6. CASE Rb!Pull \/ Rb!Uninstall
  BY Zenon, <1>4, <1>6, AdminFresh, UninstallModuleFresh,
     UninstallDepmodFresh, UninstallWriteFresh DEF Rb!Uninstall
<1>7. CASE (\E k \in Kernel : Rb!KernelUpdate(k)) \/ Rb!Pacman
  BY Zenon, <1>7, KernelUpdateFresh, PacmanDepmodFresh, PacmanWriteFresh
     DEF Rb!Pacman
<1>8. CASE Rb!Boot
  BY Zenon, <1>8, BootFresh
<1> QED  BY Zenon, <1>1, <1>2, <1>3, <1>4, <1>5, <1>6, <1>7, <1>8 DEF Rb!Next

(***************************************************************************)
(* For all kernels, any number of concurrent rebuilds and all versions of  *)
(* the patches: when no script runs, no command failed and no two depmods  *)
(* of one kernel overlapped, the index of the installed kernel lists the   *)
(* module of updates/ if and only if it is there, although depmod reads    *)
(* and writes at different times and uninstall.sh and pacman take no lock. *)
(***************************************************************************)
THEOREM IndexStaysFresh ==
    ASSUME Rb!RebuildAssumption
    PROVE  Rb!Spec => []Rb!IndexFresh
<1>1. Fresh => Rb!IndexFresh
  BY Zenon, QuietIsTrue DEF Rb!IndexFresh
<1> QED  BY PTL, <1>1, RebuildInit, RebuildNext, FreshInit, FreshNext
         DEF Rb!Spec

=============================================================================
