--------------------------- MODULE CampaignProofs ---------------------------
(***************************************************************************)
(* For any admitted plan and any number of workers started on one root:    *)
(* complete.json is true, what it stands for agrees, no workload is        *)
(* started twice or out of turn, and no module is touched once a fault was *)
(* met.                                                                    *)
(*                                                                         *)
(* One worker only gets past the marker; the others are Gone.  Fresh says  *)
(* what is so before the marker is set, Turn and Held what the iterations  *)
(* of that worker have established, Traced where a decoder may still be    *)
(* running, Verdict what the terminal record stands on and Whole what      *)
(* remains of it.                                                          *)
(***************************************************************************)
EXTENDS Campaign, TLAPS

Pc == {"off", "mark", "ready", "rmmod", "gap", "insmod", "live", "dir", "file",
       "work", "wait", "judge", "restore", "unload", "reload", "modprobe",
       "proved", "cleanup", "rmdir", "terminal", "ended", "killed"}

Workers ==
    [pc : Pc, changed : BOOLEAN, restored : BOOLEAN, approved : BOOLEAN,
     failed : BOOLEAN, runs : 0..Workloads, saw : BOOLEAN]

Tracers ==
    [st : {"off", "running", "open", "exit0", "failed"}, w : 0..Workloads]

Gone == camp.pc \in {"off", "mark", "ended", "killed"}

Restoring == {"restore", "unload", "reload", "modprobe", "proved"}
Cleaning == {"cleanup", "rmdir"}
Trying == {"ready", "rmmod", "gap", "insmod", "live", "dir", "file", "work",
           "wait", "judge"}

Tracing == tracer.st \in {"running", "open"}

Fresh ==
    ~attempted =>
        /\ Gone
        /\ tracer.st = "off"
        /\ \A w \in W : begun[w] = 0 /\ result[w] = "none"

(* A worker starts with nothing done, and only one of them leaves "mark". *)
Single ==
    /\ At("mark") => /\ camp.runs = 0
                     /\ ~camp.failed /\ ~camp.restored /\ ~camp.saw
    /\ ~Gone => attempted

(* The iterations of the worker: its results, and what it has begun. *)
Turn ==
    /\ camp.pc \in Trying => ~camp.failed
    /\ camp.pc \in Trying \cup {"mark"} => camp.runs < Workloads
    /\ same # "off" => At("wait")
    /\ ~Gone => /\ \A w \in W : w <= camp.runs => result[w] = "compared"
                /\ \A w \in W : w > Current => begun[w] = 0
    /\ camp.pc \in Trying \ {"wait", "judge"} => begun[Current] = 0
    /\ ~Gone /\ ~camp.failed =>
           \A w \in W : result[w] = "compared" => w <= camp.runs

(* The decoder of the present workload may be left running by a failure only. *)
Traced ==
    /\ ~Gone /\ Tracing => /\ tracer.w = Current
                           /\ \/ camp.failed
                              \/ same \in {"trace", "term", "kill", "exit125"}
    /\ tracer.st # "off" => tracer.w \in W

(* What the comparison of workload w has found. *)
Agrees(w) ==
    /\ evidence[w] = "whole"
    /\ shown[w].pixels = "prior"
    /\ Rows[w].copy => /\ shown[w].writers = shown[Pair(w)].writers
                       /\ shown[w].window = shown[Pair(w)].window
    /\ Rows[w].client = "gst" => shown[w].window = shown[Other(w)].window

Held ==
    ~Gone => \A w \in W : w <= camp.runs =>
                 /\ Agrees(w)
                 /\ Rows[w].copy => Pair(w) <= camp.runs
                 /\ Rows[w].client = "gst" => Other(w) <= camp.runs

Verdict ==
    /\ camp.pc \in Trying \cup Restoring => ~camp.restored
    /\ camp.pc \in {"work", "wait", "judge"} => camp.approved
    /\ ~camp.failed /\ camp.pc \in Restoring \cup Cleaning =>
           camp.approved /\ camp.runs = Workloads
    /\ ~camp.failed /\ At("terminal") => approval = "none"
    /\ ~Gone /\ camp.restored => module = "original"

Whole ==
    complete => /\ Gone /\ module = "original" /\ approval = "none"
                /\ ~Tracing /\ attempted
                /\ \A w \in W : result[w] = "compared" /\ Agrees(w)

(* A fault is never taken back: what healthy() refuses it refuses for good. *)
Met ==
    camp.saw => /\ faulted
                /\ camp.pc \in {"restore", "ended", "killed", "terminal"}
                               \cup Cleaning

Inv ==
    /\ TypeOK /\ Fresh /\ Single /\ Turn /\ Traced /\ Held /\ Verdict /\ Whole
    /\ Met /\ StopsAtFirst

-----------------------------------------------------------------------------
(* The workloads are numbered from one. *)
LEMMA Numbers ==
    /\ Workloads \in Nat /\ Workloads >= 1
    /\ \A w \in W : w \in Nat /\ 1 <= w /\ w <= Workloads
    /\ \A n \in Nat : 1 <= n /\ n <= Workloads => n \in W
<1>1. Rows \in Seq(Row) /\ Rows # <<>>
  BY Zenon, CampaignAssumption
<1>2. Len(Rows) \in Nat /\ Len(Rows) >= 1
  BY <1>1
<1> QED
  BY <1>2 DEF W, Workloads

(* A workload is held against two others of the plan, or is their first. *)
LEMMA Plan ==
    ASSUME NEW w \in W
    PROVE  /\ Rows[w] \in Row
           /\ Pair(w) \in W
           /\ Rows[Pair(w)] = [vector |-> Rows[w].vector,
                               client |-> Rows[w].client, copy |-> FALSE]
           /\ Other(w) \in W
           /\ Rows[Other(w)] = [vector |-> Rows[w].vector,
                                client |-> "va", copy |-> Rows[w].copy]
<1>1. Rows \in Seq(Row) /\ w \in 1..Len(Rows)
  BY Zenon, CampaignAssumption DEF W, Workloads
<1>2. Rows[w] \in Row
  BY <1>1
<1>3. \E v \in W : Rows[v] = [vector |-> Rows[w].vector,
                              client |-> Rows[w].client, copy |-> FALSE]
  BY ZenonT(60), <1>1, CampaignAssumption DEF W, Workloads
<1>4. \E v \in W : Rows[v] = [vector |-> Rows[w].vector,
                              client |-> "va", copy |-> Rows[w].copy]
  BY ZenonT(60), <1>1, CampaignAssumption DEF W, Workloads
<1> QED
  BY ZenonT(60), <1>2, <1>3, <1>4 DEF Pair, Other, Of

(* The fields of the worker as it goes on. *)
LEMMA GoesFields ==
    ASSUME TypeOK, NEW pc \in Pc, camp' = [camp EXCEPT !.pc = pc]
    PROVE  /\ camp' \in Workers /\ camp'.pc = pc
           /\ camp'.changed = camp.changed /\ camp'.restored = camp.restored
           /\ camp'.approved = camp.approved /\ camp'.failed = camp.failed
           /\ camp'.runs = camp.runs /\ camp'.saw = camp.saw
BY Zenon DEF TypeOK, Workers, Pc

(* The same as it fails. *)
LEMMA LostFields ==
    ASSUME TypeOK, NEW pc \in Pc,
           camp' = [camp EXCEPT !.pc = pc, !.failed = TRUE]
    PROVE  /\ camp' \in Workers /\ camp'.pc = pc
           /\ camp'.changed = camp.changed /\ camp'.restored = camp.restored
           /\ camp'.approved = camp.approved /\ camp'.failed = TRUE
           /\ camp'.runs = camp.runs /\ camp'.saw = camp.saw
BY ZenonT(60) DEF TypeOK, Workers, Pc

LEMMA FailsFields ==
    ASSUME TypeOK, NEW pc \in Pc, NEW saw \in BOOLEAN,
           camp' = [camp EXCEPT !.pc = pc, !.failed = TRUE, !.saw = saw]
    PROVE  /\ camp' \in Workers /\ camp'.pc = pc
           /\ camp'.changed = camp.changed /\ camp'.restored = camp.restored
           /\ camp'.approved = camp.approved /\ camp'.failed = TRUE
           /\ camp'.runs = camp.runs /\ camp'.saw = saw
BY ZenonT(60) DEF TypeOK, Workers, Pc

(* The worker past the marker moves on without touching a root. *)
Moves ==
    /\ ~Gone
    /\ UNCHANGED <<attempted, complete, evidence, shown, result, tracer, begun>>
    /\ same' = "off"
    /\ camp'.failed \/ same \notin {"trace", "term", "kill", "exit125"}
    /\ camp'.runs = camp.runs
    /\ camp.failed => camp'.failed
    /\ camp'.pc \notin {"off", "mark", "wait"}
    /\ camp'.pc \in Trying => ~camp'.failed /\ camp.pc \in Trying
    /\ camp'.pc \in Trying \ {"judge"} => camp.pc \notin {"wait", "judge"}

LEMMA MovesKeepsInv ==
    ASSUME Inv, Moves, TypeOK', Verdict', Met'
    PROVE  Inv'
<1>1. Fresh'
  BY Zenon DEF Inv, Single, Moves, Fresh
<1>2. Single'
  BY Zenon DEF Inv, Single, Moves, At
<1>3. Turn'
  BY Zenon DEF Inv, Turn, Moves, At, Gone, Current, Trying, W, Workloads
<1>4. Traced'
  BY Zenon DEF Inv, Traced, Turn, Moves, Gone, Tracing, Current, W, Workloads
<1>5. Held'
  <2>1. \A w \in W : Agrees(w)' <=> Agrees(w)
    BY ZenonT(60) DEF Moves, Agrees, Pair, Other, Of, W, Workloads
  <2> QED
    BY Zenon, <2>1 DEF Inv, Held, Moves, Pair, Other, Of, W, Workloads
<1>6. Whole'
  BY Zenon DEF Inv, Whole, Moves
<1>7. StopsAtFirst'
  BY Zenon DEF Inv, StopsAtFirst, Moves, W, Workloads
<1> QED
  BY Zenon, <1>1, <1>2, <1>3, <1>4, <1>5, <1>6, <1>7 DEF Inv

(* The same for a failure: nothing more has to be shown for it. *)
LEMMA FailureKeepsInv ==
    ASSUME Inv, Moves, TypeOK', Met', camp'.failed,
           camp'.pc \in Restoring => ~camp'.restored,
           camp'.restored => camp'.pc = "ended" \/ module' = "original"
    PROVE  Inv'
<1>1. Verdict'
  BY Zenon DEF Moves, Verdict, Trying, Restoring, Cleaning, Gone, At
<1> QED
  BY Zenon, <1>1, MovesKeepsInv

(* Type correctness of a step of the worker. *)
LEMMA WorkerTyped ==
    ASSUME TypeOK, camp' \in Workers, module' \in {"original", "recorder", "none"},
           approval' \in {"none", "dir", "file"}, complete' \in BOOLEAN,
           same' \in {"off", same},
           UNCHANGED <<faulted, foreign, attempted, evidence, shown, result,
                       tracer, begun, starts>>
    PROVE  TypeOK'
BY ZenonT(60) DEF TypeOK, Workers, Pc, W, Workloads

(* Nothing but the worker waits for a supervisor. *)
LEMMA NotWaiting ==
    ASSUME Inv, camp.pc # "wait"
    PROVE  same = "off"
BY Zenon DEF Inv, Turn, At

(* What the worker's own steps leave alone, whatever module they load. *)
Elsewhere ==
    /\ module' \in {"original", "recorder", "none"}
    /\ approval' \in {"none", "dir", "file"}
    /\ UNCHANGED <<faulted, foreign, disk, same, tracer, begun, starts>>

(* A step of the worker that goes on. *)
LEMMA GoesKeepsInv ==
    ASSUME Inv, NEW pc \in Pc \ {"off", "mark", "wait"}, Goes(pc), Elsewhere,
           ~Gone, camp.pc # "wait",
           pc \in Trying => camp.pc \in Trying \ {"judge"},
           pc \in Restoring \cup Cleaning =>
               camp.pc \in Restoring \cup Cleaning,
           pc \in Restoring => camp.pc \in Restoring,
           pc \in {"work", "wait", "judge"} => camp.approved,
           pc = "terminal" => approval' = "none",
           pc = "ended" \/ camp.pc \in Trying \cup Restoring
               \/ module' = module,
           camp.saw => pc \in {"restore", "ended", "terminal"} \cup Cleaning
    PROVE  Inv'
<1>1. TypeOK
  BY Zenon DEF Inv
<1>2. /\ camp' \in Workers /\ camp'.pc = pc
      /\ camp'.restored = camp.restored
      /\ camp'.approved = camp.approved /\ camp'.failed = camp.failed
      /\ camp'.runs = camp.runs /\ camp'.saw = camp.saw
  BY Zenon, <1>1, GoesFields DEF Goes
<1>3. same = "off"
  BY Zenon, NotWaiting
<1>4. TypeOK'
  BY Zenon, <1>1, <1>2, WorkerTyped DEF TypeOK, Elsewhere, disk
<1>5. Moves
  BY Zenon, <1>2, <1>3 DEF Moves, Gone, Trying, Elsewhere, disk, Inv, Turn
<1>6. Verdict'
  <2>1. camp.pc \in Trying \cup Restoring => ~camp.restored
    BY Zenon DEF Inv, Verdict
  <2>2. camp.restored => pc = "ended" \/ module' = module
    BY Zenon, <2>1
  <2>3. camp'.restored /\ ~Gone' => module' = "original"
    BY Zenon, <1>2, <2>2 DEF Inv, Verdict, Gone
  <2> QED
    BY Zenon, <1>2, <2>1, <2>3
    DEF Inv, Verdict, Trying, Restoring, Cleaning, Gone, At
<1>7. Met'
  BY Zenon, <1>2 DEF Inv, Met, Cleaning, Elsewhere
<1> QED
  BY Zenon, <1>4, <1>5, <1>6, <1>7, MovesKeepsInv

(* A step of the worker that fails, but for the workload's own. *)
Failing ==
    /\ camp' \in Workers
    /\ camp'.pc \in {"restore", "cleanup", "terminal", "ended"}
    /\ camp'.pc = "restore" => camp.pc \in Trying
    /\ camp'.failed = TRUE /\ camp'.restored = camp.restored
    /\ camp'.runs = camp.runs
    /\ camp'.saw => camp.saw \/ faulted

LEMMA FailingKeepsInv ==
    ASSUME Inv, Failing, Elsewhere, ~Gone, camp.pc # "wait",
           camp.pc \in Trying \cup Restoring \/ module' = module
    PROVE  Inv'
<1>1. same = "off"
  BY Zenon, NotWaiting
<1>2. TypeOK'
  BY Zenon, WorkerTyped DEF Inv, TypeOK, Elsewhere, Failing, disk
<1>3. Moves
  BY Zenon, <1>1 DEF Moves, Gone, Trying, Elsewhere, Failing, disk
<1>4. Met'
  BY Zenon DEF Inv, Met, Cleaning, Elsewhere, Failing
<1>5. camp.pc \in Trying \cup Restoring => ~camp.restored
  BY Zenon DEF Inv, Verdict
<1>6. camp.restored => module' = "original"
  BY Zenon, <1>5 DEF Inv, Verdict
<1> QED
  BY Zenon, <1>2, <1>3, <1>4, <1>5, <1>6, FailureKeepsInv DEF Failing, Restoring

(* Where a failure leads. *)
LEMMA LostFails ==
    ASSUME Inv, Lost, camp.pc \in Trying
    PROVE  Failing
<1>1. TypeOK /\ Finally(camp) \in {"restore", "cleanup", "terminal"}
  BY Zenon DEF Inv, Finally
<1> QED
  BY ZenonT(60), <1>1, LostFields DEF Lost, Failing, Pc

LEMMA NotRestoredFails ==
    ASSUME Inv, NotRestored
    PROVE  Failing
<1>1. PICK pc \in {AfterRestore, "ended"} :
          camp' = [camp EXCEPT !.pc = pc, !.failed = TRUE,
                               !.saw = camp.saw \/ (camp.pc \in HealthPC /\ faulted)]
  BY ZenonT(60) DEF NotRestored
<1>2. pc \in {"cleanup", "terminal", "ended"}
  BY Zenon, <1>1 DEF AfterRestore
<1>3. TypeOK /\ camp.saw \in BOOLEAN
  BY Zenon DEF Inv, TypeOK
<1>4. (camp.saw \/ (camp.pc \in HealthPC /\ faulted)) \in BOOLEAN
  BY Zenon
<1> QED
  BY ZenonT(60), <1>1, <1>2, <1>3, <1>4, FailsFields DEF Failing, Pc

LEMMA NotCleanedFails ==
    ASSUME Inv, NotCleaned
    PROVE  Failing
<1>1. PICK pc \in {"terminal", "ended"} :
          camp' = [camp EXCEPT !.pc = pc, !.failed = TRUE]
  BY ZenonT(60) DEF NotCleaned
<1> QED
  BY ZenonT(60), <1>1, LostFields DEF Inv, Failing, Pc

-----------------------------------------------------------------------------
(* The steps of the worker, in the order of run(). *)
(* A worker that is not past the marker, or no longer there. *)
LEMMA GoneKeepsInv ==
    ASSUME Inv, camp' \in Workers, camp'.pc \in {"mark", "ended", "killed"},
           camp'.pc = "mark" => /\ camp'.runs = 0 /\ ~camp'.failed
                                /\ ~camp'.restored /\ ~camp'.saw,
           camp'.saw => camp.saw \/ faulted,
           same' = "off", starts' \in 0..MaxStarts,
           UNCHANGED <<device, approval, disk, tracer, begun>>
    PROVE  Inv'
<1>1. TypeOK'
  BY Zenon DEF Inv, TypeOK, Workers, Pc, device, disk, W, Workloads
<1>2. Gone' /\ Fresh' /\ Single' /\ Held' /\ Verdict'
  BY Zenon DEF Inv, Fresh, Single, Held, Verdict, At, Gone, Trying, Restoring,
         Cleaning, disk, W, Workloads
<1>3. Turn' /\ Traced'
  BY <1>2, Numbers DEF Inv, Turn, Traced, At, Gone, Trying, W, Workloads
<1>4. Whole'
  <2>1. \A w \in W : Agrees(w)' <=> Agrees(w)
    BY Zenon DEF disk, Agrees, Pair, Other, Of, W, Workloads
  <2> QED
    BY Zenon, <1>2, <2>1 DEF Inv, Whole, device, disk, Tracing, W, Workloads
<1>5. Met' /\ StopsAtFirst'
  BY Zenon DEF Inv, Met, StopsAtFirst, device, disk, W, Workloads
<1> QED
  BY Zenon, <1>1, <1>2, <1>3, <1>4, <1>5 DEF Inv

LEMMA StartKeepsInv ==
    ASSUME Inv, Start
    PROVE  Inv'
<1>1. same = "off"
  BY Zenon, NotWaiting DEF Start
<1>2. starts' \in 0..MaxStarts
  BY CampaignAssumption DEF Start, Inv, TypeOK
<1>3. /\ camp' \in Workers /\ camp'.pc = "mark" /\ camp'.runs = 0
      /\ ~camp'.failed /\ ~camp'.restored /\ ~camp'.saw
  <2>1. 0 \in 0..Workloads
    BY Numbers
  <2>2. /\ Worker \in Workers /\ Worker.runs = 0
        /\ ~Worker.failed /\ ~Worker.restored /\ ~Worker.saw
    BY Zenon, <2>1 DEF Worker, Workers, Pc
  <2> QED
    BY Zenon, <2>2 DEF Start, Workers, Pc
<1> QED
  BY Zenon, <1>1, <1>2, <1>3, GoneKeepsInv DEF Start

LEMMA RefusedEarlyKeepsInv ==
    ASSUME Inv, RefusedEarly
    PROVE  Inv'
<1>1. same = "off"
  BY Zenon, NotWaiting DEF RefusedEarly
<1>2. TypeOK /\ "ended" \in Pc /\ (At("ready") /\ faulted) \in BOOLEAN
  BY Zenon DEF Inv, Pc
<1>3. /\ camp' \in Workers /\ camp'.pc = "ended"
      /\ camp'.saw = (At("ready") /\ faulted)
  BY ZenonT(60), <1>2, FailsFields DEF RefusedEarly
<1> QED
  BY Zenon, <1>1, <1>2, <1>3, GoneKeepsInv DEF RefusedEarly, TypeOK

LEMMA GuardKillsKeepsInv ==
    ASSUME Inv, GuardKills
    PROVE  Inv'
<1>1. TypeOK
  BY Zenon DEF Inv
<1>2. camp' \in Workers /\ camp'.pc = "killed" /\ camp'.saw = camp.saw
  BY Zenon, <1>1, LostFields DEF GuardKills, Pc
<1> QED
  BY Zenon, <1>1, <1>2, GoneKeepsInv DEF GuardKills, TypeOK

(* Whoever sets the marker finds nothing begun. *)
LEMMA MarkKeepsInv ==
    ASSUME Inv, Mark
    PROVE  Inv'
<1>1. /\ At("mark") /\ ~attempted /\ attempted'
      /\ UNCHANGED <<device, approval, complete, evidence, shown, result, same,
                     tracer, begun, starts>>
  BY Zenon DEF Mark
<1>2. TypeOK /\ same = "off"
  BY Zenon, <1>1, NotWaiting DEF Inv, At
<1>3. /\ camp' \in Workers /\ camp'.pc = "ready"
      /\ camp'.restored = camp.restored /\ camp'.failed = camp.failed
      /\ camp'.runs = camp.runs /\ camp'.saw = camp.saw
  BY Zenon, <1>2, GoesFields DEF Mark, Goes, Pc
<1>4. /\ camp.runs = 0 /\ ~camp.failed /\ ~camp.restored /\ ~camp.saw
      /\ tracer.st = "off" /\ ~complete
      /\ \A w \in W : begun[w] = 0 /\ result[w] = "none"
  BY Zenon, <1>1 DEF Inv, Single, Fresh, Whole
<1>5. TypeOK'
  BY ZenonT(60), <1>1, <1>2, <1>3 DEF TypeOK, Workers, Pc, device, W, Workloads
<1>6. Fresh' /\ Single' /\ Traced' /\ Verdict' /\ Whole' /\ Met'
  BY Zenon, <1>1, <1>3, <1>4
  DEF Fresh, Single, Traced, Tracing, Verdict, Whole, Met, At, Gone, Trying,
      Restoring, Cleaning
<1>7. Turn'
  <2>1. Current' = 1 /\ 1 \in W
    BY <1>3, <1>4, Numbers DEF Current
  <2>2. \A w \in W : w > camp.runs
    BY <1>4, Numbers
  <2>3. W' = W
    BY Zenon DEF W, Workloads
  <2> QED
    BY <1>1, <1>2, <1>3, <1>4, <2>1, <2>2, <2>3, Numbers
    DEF Turn, At, Gone, Trying, Workloads
<1>8. Held'
  BY <1>3, <1>4, Numbers DEF Held, W, Workloads
<1>9. StopsAtFirst'
  BY Zenon, <1>1 DEF Inv, StopsAtFirst, W, Workloads
<1> QED
  BY Zenon, <1>5, <1>6, <1>7, <1>8, <1>9 DEF Inv

LEMMA ReadyKeepsInv ==
    ASSUME Inv, Ready
    PROVE  Inv'
<1>1. Goes("rmmod") /\ At("ready")
  BY Zenon DEF Ready
<1>2. Elsewhere
  BY Zenon DEF Ready, Elsewhere, device, Inv, TypeOK
<1>3. ~camp.saw
  BY Zenon, <1>1 DEF Inv, Met, Cleaning, At
<1> QED
  BY Zenon, <1>1, <1>2, <1>3, GoesKeepsInv
  DEF At, Gone, Pc, Trying, Restoring, Cleaning

LEMMA RmmodKeepsInv ==
    ASSUME Inv, Rmmod
    PROVE  Inv'
<1>1. At("rmmod") /\ Elsewhere
  BY Zenon DEF Rmmod, Elsewhere, Inv, TypeOK
<1>2. CASE Lost
  BY Zenon, <1>1, <1>2, LostFails, FailingKeepsInv DEF At, Gone, Trying
<1>3. CASE camp' = [camp EXCEPT !.pc = "gap", !.changed = TRUE]
  <2>1. TypeOK
    BY Zenon DEF Inv
  <2>2. /\ camp' \in Workers /\ camp'.pc = "gap"
        /\ camp'.restored = camp.restored
        /\ camp'.approved = camp.approved /\ camp'.failed = camp.failed
        /\ camp'.runs = camp.runs /\ camp'.saw = camp.saw
    BY ZenonT(60), <1>3, <2>1 DEF TypeOK, Workers, Pc
  <2>3. same = "off" /\ ~camp.saw
    BY Zenon, <1>1, NotWaiting DEF Inv, Met, Cleaning, At
  <2>4. TypeOK'
    BY Zenon, <1>1, <2>1, <2>2, WorkerTyped DEF TypeOK, Elsewhere, disk
  <2>5. Moves
    BY Zenon, <1>1, <2>2, <2>3 DEF Moves, Gone, Trying, Elsewhere, disk, Inv, Turn, At
  <2>6. Verdict'
    BY Zenon, <1>1, <2>2 DEF Inv, Verdict, Trying, Restoring, Cleaning, Gone, At
  <2>7. Met'
    BY Zenon, <2>2, <2>3 DEF Met
  <2> QED
    BY Zenon, <2>4, <2>5, <2>6, <2>7, MovesKeepsInv
<1> QED
  BY Zenon, <1>2, <1>3 DEF Rmmod, Done

LEMMA InsmodKeepsInv ==
    ASSUME Inv, Gap \/ Insmod \/ LiveCheck \/ InstallDir
    PROVE  Inv'
<1>1. Elsewhere
  BY ZenonT(60) DEF Gap, Insmod, LiveCheck, InstallDir, Elsewhere, device, Inv, TypeOK
<1>2. camp.pc \in {"gap", "insmod", "live", "dir"}
  BY ZenonT(60) DEF Gap, Insmod, LiveCheck, InstallDir, At
<1>3. ~camp.saw
  BY Zenon, <1>2 DEF Inv, Met, Cleaning
<1>4. ASSUME NEW pc \in {"insmod", "live", "dir", "file"}, Goes(pc)
      PROVE  Inv'
  BY Zenon, <1>1, <1>2, <1>3, <1>4, GoesKeepsInv
  DEF Gone, Pc, Trying, Restoring, Cleaning
<1>5. CASE Lost
  BY Zenon, <1>1, <1>2, <1>5, LostFails, FailingKeepsInv DEF Gone, Trying
<1> QED
  BY ZenonT(60), <1>4, <1>5 DEF Gap, Insmod, LiveCheck, InstallDir, Done, Goes

LEMMA InstallFileKeepsInv ==
    ASSUME Inv, InstallFile
    PROVE  Inv'
<1>1. At("file") /\ Elsewhere
  BY Zenon DEF InstallFile, Elsewhere, device, Inv, TypeOK
<1>2. CASE Lost
  BY Zenon, <1>1, <1>2, LostFails, FailingKeepsInv DEF At, Gone, Trying
<1>3. CASE camp' = [camp EXCEPT !.pc = "work", !.approved = TRUE]
  <2>1. TypeOK
    BY Zenon DEF Inv
  <2>2. /\ camp' \in Workers /\ camp'.pc = "work"
        /\ camp'.restored = camp.restored
        /\ camp'.approved = TRUE /\ camp'.failed = camp.failed
        /\ camp'.runs = camp.runs /\ camp'.saw = camp.saw
    BY ZenonT(60), <1>3, <2>1 DEF TypeOK, Workers, Pc
  <2>3. same = "off" /\ ~camp.saw
    BY Zenon, <1>1, NotWaiting DEF Inv, Met, Cleaning, At
  <2>4. TypeOK'
    BY Zenon, <1>1, <2>1, <2>2, WorkerTyped DEF TypeOK, Elsewhere, disk
  <2>5. Moves
    BY Zenon, <1>1, <2>2, <2>3 DEF Moves, Gone, Trying, Elsewhere, disk, Inv, Turn, At
  <2>6. Verdict'
    BY Zenon, <1>1, <2>2 DEF Inv, Verdict, Trying, Restoring, Cleaning, Gone, At
  <2>7. Met'
    BY Zenon, <2>2, <2>3 DEF Met
  <2> QED
    BY Zenon, <2>4, <2>5, <2>6, <2>7, MovesKeepsInv
<1> QED
  BY Zenon, <1>2, <1>3 DEF InstallFile, Done

LEMMA FailsKeepsInv ==
    ASSUME Inv, Fails
    PROVE  Inv'
<1>1. Elsewhere /\ module' = module
  BY Zenon DEF Fails, Elsewhere, device, Inv, TypeOK
<1>2. camp.pc \in Trying \ {"wait"}
  BY Zenon DEF Fails, Trying
<1>3. /\ TypeOK
      /\ Finally(camp) \in {"restore", "cleanup", "terminal"}
      /\ (camp.saw \/ (camp.pc \in HealthPC /\ faulted)) \in BOOLEAN
  BY Zenon DEF Inv, Finally
<1>4. Failing
  BY ZenonT(60), <1>2, <1>3, FailsFields DEF Fails, Failing, Pc
<1> QED
  BY Zenon, <1>1, <1>2, <1>4, FailingKeepsInv DEF Gone, Trying

LEMMA RestoreKeepsInv ==
    ASSUME Inv, Restore \/ Unload \/ Reload \/ Modprobe \/ RestoreFails
    PROVE  Inv'
<1>1. Elsewhere
  BY ZenonT(60) DEF Restore, Unload, Reload, Modprobe, RestoreFails, Elsewhere, device,
         Inv, TypeOK
<1>2. camp.pc \in Restoring
  BY ZenonT(60) DEF Restore, Unload, Reload, Modprobe, RestoreFails, Restoring, At
<1>3. CASE NotRestored
  BY Zenon, <1>1, <1>2, <1>3, NotRestoredFails, FailingKeepsInv DEF Gone, Restoring
<1>4. ASSUME ~NotRestored
      PROVE  ~camp.saw
  BY Zenon, <1>4 DEF Inv, Met, Cleaning, Restore, Unload, Reload, Modprobe,
              RestoreFails, Healthy, At
<1>5. ASSUME NEW pc \in Restoring, Goes(pc), ~NotRestored
      PROVE  Inv'
  BY Zenon, <1>1, <1>2, <1>4, <1>5, GoesKeepsInv
  DEF Gone, Pc, Trying, Restoring, Cleaning
<1> QED
  BY ZenonT(60), <1>3, <1>5 DEF Restore, Unload, Reload, Modprobe, RestoreFails, Restoring

LEMMA ProvedKeepsInv ==
    ASSUME Inv, Proved
    PROVE  Inv'
<1>1. /\ At("proved") /\ Elsewhere /\ module' = module
      /\ module = "original" /\ ~camp.saw /\ approval' = approval
  BY Zenon DEF Proved, Elsewhere, device, Inv, TypeOK, Identity, Met, Cleaning, At
<1>2. PICK pc \in {AfterRestore, "ended"}, b \in BOOLEAN :
          /\ camp' = [camp EXCEPT !.pc = pc, !.restored = TRUE, !.failed = b]
          /\ camp.failed => b
          /\ ~b => pc = AfterRestore
  <2>1. CASE camp' = [camp EXCEPT !.pc = AfterRestore, !.restored = TRUE]
    <3>1. camp \in Workers
      BY Zenon DEF Inv, TypeOK, Workers, Pc
    <3>2. camp' = [camp EXCEPT !.pc = AfterRestore, !.restored = TRUE,
                               !.failed = camp.failed]
      BY ZenonT(60), <2>1, <3>1 DEF Workers
    <3> QED
      BY ZenonT(60), <3>1, <3>2 DEF Workers
  <2> QED
    BY ZenonT(60), <2>1 DEF Proved
<1>3. pc \in {"cleanup", "terminal", "ended"}
  BY Zenon, <1>2 DEF AfterRestore
<1>4. TypeOK
  BY Zenon DEF Inv
<1>5. /\ camp' \in Workers /\ camp'.pc = pc
      /\ camp'.restored = TRUE
      /\ camp'.approved = camp.approved /\ camp'.failed = b
      /\ camp'.runs = camp.runs /\ camp'.saw = camp.saw
  BY ZenonT(60), <1>2, <1>3, <1>4 DEF TypeOK, Workers, Pc
<1>6. same = "off"
  BY Zenon, <1>1, NotWaiting DEF At
<1>7. TypeOK'
  BY Zenon, <1>1, <1>4, <1>5, WorkerTyped DEF TypeOK, Elsewhere, disk
<1>8. Moves
  BY Zenon, <1>1, <1>2, <1>3, <1>5, <1>6 DEF Moves, Gone, Trying, Elsewhere, disk, At
<1>9. Verdict'
  <2>1. ~b => camp.approved /\ camp.runs = Workloads /\ pc = "cleanup"
    BY Zenon, <1>1, <1>2 DEF Inv, Verdict, Restoring, At, AfterRestore
  <2> QED
    BY Zenon, <1>1, <1>3, <1>5, <2>1
    DEF Verdict, Trying, Restoring, Cleaning, Gone, At
<1>10. Met'
  BY Zenon, <1>1, <1>5 DEF Met
<1> QED
  BY Zenon, <1>7, <1>8, <1>9, <1>10, MovesKeepsInv

LEMMA CleanupKeepsInv ==
    ASSUME Inv, RemoveFile \/ RemoveDir \/ CleanupFails
    PROVE  Inv'
<1>1. Elsewhere /\ module' = module
  BY Zenon DEF RemoveFile, RemoveDir, CleanupFails, Elsewhere, device, Inv, TypeOK
<1>2. camp.pc \in Cleaning
  BY Zenon DEF RemoveFile, RemoveDir, CleanupFails, Cleaning, At
<1>3. CASE NotCleaned
  BY Zenon, <1>1, <1>2, <1>3, NotCleanedFails, FailingKeepsInv DEF Gone, Cleaning
<1>4. ASSUME NEW pc \in {"rmdir", "terminal"}, Goes(pc),
             pc = "terminal" => approval' = "none"
      PROVE  Inv'
  BY Zenon, <1>1, <1>2, <1>4, GoesKeepsInv
  DEF Gone, Pc, Trying, Restoring, Cleaning
<1> QED
  BY Zenon, <1>3, <1>4 DEF RemoveFile, RemoveDir, CleanupFails

(* What an unfailed worker has done when it comes to its terminal record. *)
LEMMA TerminalKeepsInv ==
    ASSUME Inv, Terminal
    PROVE  Inv'
<1>1. At("terminal") /\ module' = module /\ approval' = approval
  BY Zenon DEF Terminal, device
<1>2. CASE camp' = [camp EXCEPT !.pc = "ended", !.failed = TRUE] /\ complete' = complete
  <2>1. Elsewhere
    BY Zenon, <1>1, <1>2 DEF Terminal, Elsewhere, device, disk, Inv, TypeOK
  <2>2. Failing
    BY Zenon, <1>2, LostFields DEF Inv, Failing, Pc
  <2> QED
    BY Zenon, <1>1, <2>1, <2>2, FailingKeepsInv DEF At, Gone
<1>3. CASE /\ ~camp.failed
           /\ camp.restored /\ camp.runs = Workloads
           /\ complete' = TRUE
           /\ Goes("ended")
  <2>1. /\ TypeOK /\ same = "off" /\ module = "original" /\ approval = "none"
        /\ ~Gone /\ attempted
    BY Zenon, <1>1, <1>3, NotWaiting DEF Inv, Verdict, Single, At, Gone
  <2>2. ~Tracing
    BY Zenon, <1>3, <2>1 DEF Inv, Traced
  <2>3. \A w \in W : result[w] = "compared" /\ Agrees(w)
    BY Zenon, <1>3, <2>1, Numbers DEF Inv, Turn, Held
  <2>4. /\ camp' \in Workers /\ camp'.pc = "ended"
        /\ camp'.saw = camp.saw
    BY Zenon, <1>3, <2>1, GoesFields DEF Goes, Pc
  <2>5. /\ UNCHANGED <<device, approval, attempted, evidence, shown, result,
                       same, tracer, begun, starts>>
    BY Zenon DEF Terminal
  <2>6. TypeOK'
    BY Zenon, <1>3, <2>1, <2>4, <2>5, WorkerTyped DEF TypeOK, device
  <2>7. Gone' /\ Fresh' /\ Single' /\ Held' /\ Verdict'
    BY Zenon, <2>1, <2>4, <2>5
    DEF Fresh, Single, Held, Verdict, At, Gone, Trying, Restoring, Cleaning
  <2>8. Turn' /\ Traced'
    BY Zenon, <2>1, <2>4, <2>5, <2>7
    DEF Inv, Turn, Traced, At, Gone, Trying, W, Workloads
  <2>9. Whole'
    <3>1. \A w \in W : Agrees(w)'
      BY ZenonT(60), <2>3, <2>5 DEF Agrees, Pair, Other, Of, W, Workloads
    <3> QED
      BY Zenon, <2>1, <2>2, <2>3, <2>5, <2>7, <3>1
      DEF Whole, device, Tracing, W, Workloads
  <2>10. Met' /\ StopsAtFirst'
    BY Zenon, <2>4, <2>5 DEF Inv, Met, StopsAtFirst, device, W, Workloads
  <2> QED
    BY Zenon, <2>6, <2>7, <2>8, <2>9, <2>10 DEF Inv
<1> QED
  BY ZenonT(60), <1>2, <1>3 DEF Terminal

-----------------------------------------------------------------------------
(* The workloads, one after the other. *)
LEMMA WorkloadStartsKeepsInv ==
    ASSUME Inv, WorkloadStarts
    PROVE  Inv'
<1>1. /\ At("work") /\ same' = "root" /\ Goes("wait")
      /\ begun' = [begun EXCEPT ![Current] = @ + 1]
      /\ UNCHANGED <<device, approval, disk, tracer, starts>>
  BY Zenon DEF WorkloadStarts
<1>2. TypeOK /\ same = "off" /\ ~Gone
  BY Zenon, <1>1, NotWaiting DEF Inv, At, Gone
<1>3. /\ camp' \in Workers /\ camp'.pc = "wait"
      /\ camp'.restored = camp.restored /\ camp'.failed = camp.failed
      /\ camp'.approved = camp.approved
      /\ camp'.runs = camp.runs /\ camp'.saw = camp.saw
  BY Zenon, <1>1, <1>2, GoesFields DEF Goes, Pc
<1>4. /\ camp.runs \in Nat /\ camp.runs < Workloads /\ ~camp.failed
      /\ begun[Current] = 0 /\ Current = camp.runs + 1 /\ Current \in W
  BY <1>1, <1>2, Numbers DEF Inv, TypeOK, Turn, At, Trying, Current
<1>5. /\ begun' \in [W -> Nat] /\ begun'[Current] = 1
      /\ \A w \in W : w # Current => begun'[w] = begun[w]
  BY <1>1, <1>2, <1>4 DEF TypeOK
<1>6. W' = W /\ Current' = Current
  BY Zenon, <1>3 DEF W, Workloads, Current
<1>7. TypeOK'
  BY Zenon, <1>1, <1>2, <1>3, <1>5, <1>6 DEF TypeOK, Workers, Pc, device, disk, Workloads
<1>8. Fresh' /\ Single'
  BY Zenon, <1>1, <1>2, <1>3 DEF Inv, Fresh, Single, At, disk
<1>9. Turn'
  BY SMTT(60), <1>1, <1>2, <1>3, <1>4, <1>5, <1>6
  DEF Inv, Turn, At, Gone, Trying, Workloads, disk
<1>10. Traced' /\ Met' /\ Whole'
  BY Zenon, <1>1, <1>2, <1>3, <1>4, <1>6
  DEF Inv, Traced, Met, Whole, Tracing, At, Gone, Cleaning, disk
<1>11. Held'
  <2>1. \A w \in W : Agrees(w)' <=> Agrees(w)
    BY Zenon, <1>1 DEF disk, Agrees, Pair, Other, Of, W, Workloads
  <2> QED
    BY ZenonT(60), <1>2, <1>3, <2>1 DEF Inv, Held, Pair, Other, Of, W, Workloads
<1>12. Verdict'
  BY Zenon, <1>1, <1>2, <1>3
  DEF Inv, Verdict, At, Gone, Trying, Restoring, Cleaning
<1>13. StopsAtFirst'
  <2>1. \A v \in 1..(Current - 1) : result[v] = "compared"
    BY <1>2, <1>4, Numbers DEF Inv, Turn
  <2> QED
    BY <1>1, <1>4, <1>5, <1>6, <2>1 DEF Inv, StopsAtFirst, disk
<1> QED
  BY Zenon, <1>7, <1>8, <1>9, <1>10, <1>11, <1>12, <1>13 DEF Inv

LEMMA WorkloadEndsKeepsInv ==
    ASSUME Inv, WorkloadExits \/ WorkloadFails \/ WorkloadTimeout
    PROVE  Inv'
<1>1. /\ At("wait") /\ same' = "off" /\ TypeOK
      /\ UNCHANGED <<device, approval, disk, tracer, begun, starts>>
  BY Zenon DEF WorkloadExits, WorkloadFails, WorkloadTimeout, Inv
<1>2. ~camp.saw /\ ~camp.restored /\ camp.approved
  BY Zenon, <1>1 DEF Inv, Met, Verdict, Trying, Cleaning, At
<1>3. CASE WorkloadExits
  <2>1. Goes("judge") /\ same = "exit0"
    BY Zenon, <1>3 DEF WorkloadExits
  <2>2. /\ camp' \in Workers /\ camp'.pc = "judge"
        /\ camp'.restored = camp.restored /\ camp'.failed = camp.failed
        /\ camp'.approved = camp.approved
        /\ camp'.runs = camp.runs /\ camp'.saw = camp.saw
    BY Zenon, <1>1, <2>1, GoesFields DEF Goes, Pc
  <2>3. TypeOK'
    BY Zenon, <1>1, <2>2, WorkerTyped DEF TypeOK, device, disk
  <2>4. Moves
    BY Zenon, <1>1, <2>1, <2>2 DEF Moves, Gone, Trying, disk, Inv, Turn, At
  <2>5. Verdict' /\ Met'
    BY Zenon, <1>2, <2>2 DEF Verdict, Met, Trying, Restoring, Cleaning, Gone, At
  <2> QED
    BY Zenon, <2>3, <2>4, <2>5, MovesKeepsInv
<1>4. CASE WorkloadFails \/ WorkloadTimeout
  <2>1. /\ camp' = [camp EXCEPT !.pc = Finally(camp), !.failed = TRUE]
        /\ Finally(camp) \in {"restore", "cleanup", "terminal"}
    BY Zenon, <1>4 DEF WorkloadFails, WorkloadTimeout, Finally
  <2>2. /\ camp' \in Workers /\ camp'.pc \in {"restore", "cleanup", "terminal"}
        /\ camp'.restored = camp.restored /\ camp'.failed = TRUE
        /\ camp'.runs = camp.runs /\ camp'.saw = camp.saw
    BY ZenonT(60), <1>1, <2>1, LostFields DEF Pc
  <2>3. TypeOK'
    BY Zenon, <1>1, <2>2, WorkerTyped DEF TypeOK, device, disk
  <2>4. Moves
    BY Zenon, <1>1, <2>2 DEF Moves, Gone, Trying, disk, At
  <2>5. Met'
    BY Zenon, <1>2, <2>2 DEF Met
  <2> QED
    BY Zenon, <1>2, <2>2, <2>3, <2>4, <2>5, FailureKeepsInv
<1> QED
  BY Zenon, <1>3, <1>4

(***************************************************************************)
(* A comparison holds against workloads already compared, and as the       *)
(* decoder has ended nothing of them is written any more.                  *)
(***************************************************************************)
LEMMA JudgeKeepsInv ==
    ASSUME Inv, Judge
    PROVE  Inv'
<1> DEFINE w == Current
<1>1. /\ At("judge") /\ TypeOK /\ same = "off" /\ ~Gone
      /\ CompareFrames(w) /\ CompareProjection(w) /\ CompareCapture(w)
      /\ result[w] = "joined"
      /\ result' = [result EXCEPT ![w] = "compared"]
      /\ UNCHANGED <<device, approval, attempted, complete, evidence, shown,
                     same, tracer, begun, starts>>
  BY Zenon, NotWaiting DEF Judge, Inv, At, Gone
<1>2. /\ camp.runs \in Nat /\ camp.runs < Workloads
      /\ w = camp.runs + 1 /\ w \in W
      /\ ~camp.failed /\ ~camp.restored /\ ~camp.saw /\ camp.approved
      /\ ~complete /\ attempted /\ ~Tracing
  BY SMTT(60), <1>1, Numbers
  DEF Inv, TypeOK, Turn, Verdict, Met, Whole, Single, Traced, At, Trying,
      Cleaning, Current
<1> HIDE DEF w
<1>3. /\ result' \in [W -> {"none", "root", "joined", "compared"}]
      /\ result'[w] = "compared"
      /\ \A v \in W : v # w => result'[v] = result[v]
  BY Zenon, <1>1, <1>2 DEF TypeOK
<1>4. W' = W /\ Workloads' = Workloads
  BY Zenon DEF W, Workloads
<1>5. \A v \in W : /\ Agrees(v)' <=> Agrees(v)
                   /\ Pair(v)' = Pair(v) /\ Other(v)' = Other(v)
  BY Zenon, <1>1 DEF Agrees, Pair, Other, Of, W, Workloads
<1>6. StopsAtFirst'
  BY <1>1, <1>3, <1>4, Numbers DEF Inv, StopsAtFirst
<1>7. CASE Lost
  <2>1. Finally(camp) \in {"restore", "cleanup", "terminal"}
    BY Zenon DEF Finally
  <2>2. /\ camp' \in Workers /\ camp'.pc \in {"restore", "cleanup", "terminal"}
        /\ camp'.restored = camp.restored /\ camp'.failed = TRUE
        /\ camp'.runs = camp.runs /\ camp'.saw = camp.saw
    BY ZenonT(60), <1>1, <1>7, <2>1, LostFields DEF Lost, Pc
  <2>3. TypeOK'
    BY Zenon, <1>1, <1>3, <1>4, <2>2 DEF TypeOK, Workers, Pc, device
  <2>4. Fresh' /\ Single' /\ Met' /\ Whole' /\ Verdict'
    BY Zenon, <1>1, <1>2, <2>2
    DEF Fresh, Single, Met, Whole, Verdict, At, Gone, Trying, Restoring, Cleaning
  <2>5. Traced'
    BY Zenon, <1>1, <1>2, <1>4 DEF Inv, Traced, Tracing
  <2>6. Turn'
    <3>1. Current' = Current
      BY Zenon, <2>2 DEF Current
    <3> QED
      BY Zenon, <1>1, <1>2, <1>3, <1>4, <2>2, <3>1
      DEF Inv, Turn, At, Gone, Trying
  <2>7. Held'
    BY Zenon, <1>1, <1>4, <1>5, <2>2 DEF Inv, Held
  <2> QED
    BY Zenon, <1>6, <2>3, <2>4, <2>5, <2>6, <2>7 DEF Inv
<1>8. CASE camp' = [camp EXCEPT !.runs = w,
                      !.pc = IF w = Workloads THEN "restore" ELSE "work"]
  <2>1. /\ camp' \in Workers
        /\ camp'.pc = IF w = Workloads THEN "restore" ELSE "work"
        /\ camp'.restored = camp.restored /\ camp'.failed = camp.failed
        /\ camp'.approved = camp.approved
        /\ camp'.runs = w /\ camp'.saw = camp.saw
    <3>1. w \in 0..Workloads
      BY <1>2, Numbers
    <3> QED
      BY ZenonT(60), <1>1, <1>8, <3>1 DEF TypeOK, Workers, Pc
  <2>2. TypeOK'
    BY ZenonT(60), <1>1, <1>3, <1>4, <2>1 DEF TypeOK, Workers, Pc, device
  <2>3. Fresh' /\ Single' /\ Met' /\ Whole'
    BY Zenon, <1>1, <1>2, <2>1
    DEF Fresh, Single, Met, Whole, At, Gone
  <2>4. Verdict'
    BY Zenon, <1>2, <1>4, <2>1 DEF Verdict, At, Trying, Restoring, Cleaning
  <2>5. Traced'
    BY Zenon, <1>1, <1>2, <1>4 DEF Inv, Traced, Tracing
  <2>6. Turn'
    <3>1. Current' = w + 1
      BY Zenon, <2>1 DEF Current
    <3>2. \A v \in W : v <= w => v <= camp.runs \/ v = w
      BY SMTT(60), <1>2, Numbers
    <3>3. \A v \in W : v <= w => result'[v] = "compared"
      BY Zenon, <1>1, <1>3, <3>2 DEF Inv, Turn
    <3>4. \A v \in W : v > w => begun[v] = 0
      BY Zenon, <1>1 DEF Inv, Turn, w
    <3>5. camp'.pc = "work" => w < Workloads /\ Current' \in W
      BY SMTT(60), <1>2, <2>1, <3>1, Numbers
    <3>6. \A v \in W : v > Current' => begun[v] = 0
      BY <1>2, <3>1, <3>4, Numbers
    <3>7. camp'.pc = "work" => begun[Current'] = 0
      BY SMTT(60), <1>2, <3>1, <3>4, <3>5
    <3>8. \A v \in W : result'[v] = "compared" => v <= w
      BY SMTT(60), <1>1, <1>2, <1>3, Numbers DEF Inv, Turn
    <3> QED
      BY Zenon, <1>1, <1>2, <1>4, <2>1, <3>3, <3>5, <3>6, <3>7, <3>8
      DEF Turn, At, Gone, Trying
  <2>7. Held'
    <3>1. Agrees(w)
      BY Zenon, <1>1 DEF Agrees, CompareFrames, CompareProjection, CompareCapture, Measured
    <3>2. /\ Rows[w].copy => result[Pair(w)] = "compared"
          /\ Rows[w].client = "gst" => result[Other(w)] = "compared"
      BY Zenon, <1>1 DEF CompareFrames, CompareCapture
    <3>3. /\ Rows[w].copy => Pair(w) <= camp.runs
          /\ Rows[w].client = "gst" => Other(w) <= camp.runs
      BY ZenonT(60), <1>1, <1>2, <3>2, Plan DEF Inv, Turn
    <3>4. \A v \in W : v <= w => v <= camp.runs \/ v = w
      BY <1>2, Numbers
    <3>5. \A v \in W : v <= camp.runs => v <= w
      BY <1>2, Numbers
    <3>6. ASSUME NEW v \in W, v <= w
          PROVE  /\ Agrees(v)
                 /\ Rows[v].copy => Pair(v) <= w
                 /\ Rows[v].client = "gst" => Other(v) <= w
      BY ZenonT(60), <1>1, <3>1, <3>3, <3>4, <3>5, <3>6, Plan DEF Inv, Held
    <3> QED
      BY Zenon, <1>4, <1>5, <2>1, <3>6 DEF Held
  <2> QED
    BY Zenon, <1>6, <2>2, <2>3, <2>4, <2>5, <2>6, <2>7 DEF Inv
<1> QED
  BY Zenon, <1>7, <1>8 DEF Judge, Done, w

-----------------------------------------------------------------------------
(* The same-run supervisor: the worker waits for it. *)
LEMMA SupervisorRuns ==
    ASSUME Inv, same # "off"
    PROVE  /\ camp.pc = "wait" /\ ~Gone /\ ~camp.failed
           /\ camp.runs \in Nat /\ Current = camp.runs + 1 /\ Current \in W
           /\ result[Current] # "compared" /\ attempted /\ ~complete
           /\ Tracing => same \in {"trace", "term", "kill", "exit125"}
<1>1. camp.pc = "wait" /\ ~Gone /\ ~camp.failed
  BY Zenon DEF Inv, Turn, At, Gone, Trying
<1>2. camp.runs \in Nat /\ Current = camp.runs + 1 /\ Current \in W
  BY <1>1, Numbers DEF Inv, TypeOK, Turn, Trying, Current
<1>3. result[Current] # "compared"
  BY <1>1, <1>2 DEF Inv, Turn
<1> QED
  BY Zenon, <1>1, <1>2, <1>3 DEF Inv, Traced, Single, Whole

LEMMA SameGoesKeepsInv ==
    ASSUME Inv, same # "off",
           NEW pc \in {"term", "kill", "validate", "publish", "exit125"},
           SameGoes(pc), pc \in {"term", "kill", "exit125"} \/ ~Tracing
    PROVE  Inv'
<1>1. /\ same' = pc
      /\ UNCHANGED <<device, approval, disk, camp, tracer, begun, starts>>
  BY Zenon DEF SameGoes
<1>2. TypeOK'
  BY SMTT(60), <1>1 DEF Inv, TypeOK, device, disk, W, Workloads
<1>3. Fresh' /\ Single' /\ Verdict' /\ Met'
  BY Zenon, <1>1 DEF Inv, Fresh, Single, Verdict, Met, Gone, At, device, disk, W, Workloads
<1>4. Turn'
  BY Zenon, <1>1 DEF Inv, Turn, Gone, At, Current, disk, W, Workloads
<1>5. Traced'
  BY Zenon, <1>1 DEF Inv, Traced, Tracing, Gone, Current, W, Workloads
<1>6. Held' /\ Whole'
  <2>1. \A w \in W : Agrees(w)' <=> Agrees(w)
    BY Zenon, <1>1 DEF disk, Agrees, Pair, Other, Of, W, Workloads
  <2>2. Held'
    BY Zenon, <1>1, <2>1 DEF Inv, Held, Gone, Pair, Other, Of, W, Workloads
  <2> QED
    BY Zenon, <1>1, <2>1, <2>2, SupervisorRuns DEF Whole, disk
<1>7. StopsAtFirst'
  BY Zenon, <1>1 DEF Inv, StopsAtFirst, disk, W, Workloads
<1> QED
  BY Zenon, <1>2, <1>3, <1>4, <1>5, <1>6, <1>7 DEF Inv

(* The present root is made, or filled. *)
LEMMA ResultKeepsInv ==
    ASSUME Inv, same # "off", NEW r \in {"root", "joined"},
           result' = [result EXCEPT ![Current] = r],
           same' \in {"trace", "exit0", "exit125"},
           same' = "exit0" => ~Tracing',
           tracer' = tracer \/ tracer' = [st |-> "running", w |-> Current],
           UNCHANGED <<device, approval, attempted, complete, evidence, shown,
                       camp, begun, starts>>
    PROVE  Inv'
<1>1. /\ camp.pc = "wait" /\ ~Gone /\ ~camp.failed
      /\ camp.runs \in Nat /\ Current = camp.runs + 1 /\ Current \in W
      /\ result[Current] # "compared" /\ attempted /\ ~complete
  BY Zenon, SupervisorRuns
<1>2. /\ result' \in [W -> {"none", "root", "joined", "compared"}]
      /\ result'[Current] = r
      /\ \A v \in W : v # Current => result'[v] = result[v]
  BY Zenon, <1>1 DEF Inv, TypeOK
<1>3. W' = W /\ Workloads' = Workloads /\ Current' = Current /\ Gone' = Gone
  BY Zenon DEF W, Workloads, Current, Gone
<1>4. TypeOK'
  <2>1. Current \in 0..Workloads
    BY SMTT(60), <1>1, Numbers
  <2>2. tracer' \in Tracers
    BY SMTT(60), <2>1 DEF Inv, TypeOK, Tracers
  <2> QED
    BY SMTT(60), <1>2, <1>3, <2>2 DEF Inv, TypeOK, device, Tracers
<1>5. Fresh' /\ Single' /\ Verdict' /\ Whole' /\ Met'
  BY Zenon, <1>1, <1>3 DEF Inv, Fresh, Single, Verdict, Whole, Met, At, device
<1>6. Turn'
  <2>1. \A v \in W : v <= camp.runs => v # Current
    BY SMTT(60), <1>1, Numbers
  <2>2. \A v \in W : result'[v] = "compared" => result[v] = "compared"
    BY Zenon, <1>1, <1>2
  <2> QED
    BY Zenon, <1>1, <1>2, <1>3, <2>1, <2>2 DEF Inv, Turn, At, Trying
<1>7. Traced'
  <2>1. tracer'.st # "off" => tracer'.w \in W
    BY SMTT(60), <1>1 DEF Inv, Traced
  <2>2. Tracing' => tracer'.w = Current
    BY SMTT(60), <1>1 DEF Inv, Traced, Tracing
  <2> QED
    BY Zenon, <1>3, <2>1, <2>2 DEF Traced
<1>8. Held'
  <2>1. \A w \in W : Agrees(w)' <=> Agrees(w)
    BY Zenon DEF Agrees, Pair, Other, Of, W, Workloads
  <2> QED
    BY Zenon, <2>1 DEF Inv, Held, Gone, Pair, Other, Of, W, Workloads
<1>9. StopsAtFirst'
  <2> SUFFICES ASSUME NEW w \in W, begun[w] = 1, NEW v \in 1..(w - 1)
               PROVE  result'[v] = "compared"
    BY Zenon, <1>3 DEF Inv, StopsAtFirst
  <2>1. w <= Current
    BY SMTT(60), <1>1, Numbers DEF Inv, Turn
  <2>2. v \in W /\ v # Current
    BY <1>1, <2>1, Numbers
  <2> QED
    BY Zenon, <1>2, <2>2 DEF Inv, StopsAtFirst
<1> QED
  BY Zenon, <1>4, <1>5, <1>6, <1>7, <1>8, <1>9 DEF Inv

LEMMA SameStepKeepsInv ==
    ASSUME Inv, SameStep
    PROVE  Inv'
<1>1. same # "off"
  BY Zenon DEF SameStep, SameTraces, SameStatus, SameTimeout, SameReaps,
         SameValidates, SamePublishes, SameRefuses
<1>2. Tracing => same \in {"trace", "term", "kill", "exit125"}
  BY Zenon, <1>1, SupervisorRuns
<1>3. CASE SameTraces
  BY Zenon, <1>1, <1>3, ResultKeepsInv DEF SameTraces, StartsTracer
<1>4. CASE SamePublishes
  <2>1. same = "publish" /\ tracer' = tracer
    BY Zenon, <1>4 DEF SamePublishes
  <2>2. ~Tracing'
    BY Zenon, <1>2, <2>1 DEF Tracing
  <2> QED
    BY Zenon, <1>1, <1>4, <2>1, <2>2, ResultKeepsInv DEF SamePublishes
<1>5. CASE SameStatus
  <2>1. ~Tracing
    BY Zenon, <1>5 DEF SameStatus, Tracing
  <2> QED
    BY Zenon, <1>1, <1>5, <2>1, SameGoesKeepsInv DEF SameStatus
<1>6. CASE SameTimeout
  BY Zenon, <1>1, <1>6, SameGoesKeepsInv DEF SameTimeout
<1>7. CASE SameReaps
  BY Zenon, <1>1, <1>7, SameGoesKeepsInv DEF SameReaps
<1>8. CASE SameValidates
  BY Zenon, <1>1, <1>2, <1>8, SameGoesKeepsInv DEF SameValidates
<1>9. CASE SameRefuses
  BY Zenon, <1>1, <1>9, SameGoesKeepsInv DEF SameRefuses
<1> QED
  BY Zenon, <1>3, <1>4, <1>5, <1>6, <1>7, <1>8, <1>9 DEF SameStep

-----------------------------------------------------------------------------
(* The decoder of a workload, which writes only into the root of its own. *)
LEMMA TracerKeepsInv ==
    ASSUME Inv, TracerOpens \/ TracerEnds \/ TracerRefuses
    PROVE  Inv'
<1>1. /\ Tracing
      /\ UNCHANGED <<device, approval, attempted, complete, result, camp, same,
                     begun, starts>>
  BY Zenon DEF TracerOpens, TracerEnds, TracerRefuses, Tracing, disk
<1>2. /\ TypeOK /\ tracer.w \in W /\ ~complete /\ attempted
      /\ ~Gone => tracer.w = Current
  BY Zenon, <1>1 DEF Inv, Traced, Whole, Fresh, Tracing
<1>3. /\ tracer' \in Tracers /\ tracer'.w = tracer.w
      /\ tracer'.st # "off"
  BY ZenonT(60), <1>2 DEF TypeOK, Tracers, TracerOpens, TracerEnds, TracerRefuses
<1>4. /\ evidence' \in [W -> {"none", "partial", "whole"}]
      /\ shown' \in [W -> Shows \cup {NoShow}]
      /\ \A v \in W : v # tracer.w => /\ evidence'[v] = evidence[v]
                                      /\ shown'[v] = shown[v]
  <2>1. CASE TracerEnds
    BY <1>2, <2>1 DEF TypeOK, TracerEnds
  <2>2. CASE TracerOpens \/ TracerRefuses
    BY ZenonT(60), <1>2, <2>2 DEF TypeOK, TracerOpens, TracerRefuses, disk
  <2> QED
    BY Zenon, <2>1, <2>2
<1>5. W' = W /\ Workloads' = Workloads /\ Current' = Current /\ Gone' = Gone
  BY Zenon, <1>1 DEF W, Workloads, Current, Gone
<1>6. TypeOK'
  BY SMTT(60), <1>1, <1>2, <1>3, <1>4, <1>5 DEF TypeOK, Tracers, device
<1>7. Fresh' /\ Single' /\ Turn' /\ Verdict' /\ Whole' /\ Met'
  BY ZenonT(60), <1>1, <1>2, <1>5
  DEF Inv, Fresh, Single, Turn, Verdict, Whole, Met, At, device
<1>8. Traced'
  BY Zenon, <1>1, <1>2, <1>3, <1>5 DEF Inv, Traced
<1>9. Held'
  <2> SUFFICES ASSUME ~Gone, NEW w \in W, w <= camp.runs
               PROVE  /\ Agrees(w)'
                      /\ Rows[w].copy => Pair(w) <= camp.runs
                      /\ Rows[w].client = "gst" => Other(w) <= camp.runs
    BY Zenon, <1>1, <1>5 DEF Held, Pair, Other, Of
  <2>1. /\ Agrees(w)
        /\ Rows[w].copy => Pair(w) <= camp.runs
        /\ Rows[w].client = "gst" => Other(w) <= camp.runs
    BY Zenon DEF Inv, Held
  <2>2. \A v \in W : v <= camp.runs => v # tracer.w
    BY SMTT(60), <1>2, Numbers DEF Inv, TypeOK, Current
  <2>3. Pair(w) \in W /\ Other(w) \in W
    BY ZenonT(60), Plan
  <2>4. Pair(w)' = Pair(w) /\ Other(w)' = Other(w)
    BY Zenon, <1>5 DEF Pair, Other, Of
  <2> QED
    BY Zenon, <1>4, <2>1, <2>2, <2>3, <2>4 DEF Agrees
<1>10. StopsAtFirst'
  BY Zenon, <1>1, <1>5 DEF Inv, StopsAtFirst
<1> QED
  BY Zenon, <1>6, <1>7, <1>8, <1>9, <1>10 DEF Inv

LEMMA DeviceKeepsInv ==
    ASSUME Inv, ForeignOpens \/ ForeignCloses \/ Fault
    PROVE  Inv'
<1>1. /\ UNCHANGED <<module, approval, disk, camp, same, tracer, begun, starts>>
      /\ faulted' \in BOOLEAN /\ foreign' \in BOOLEAN
      /\ faulted => faulted'
  <2>1. faulted \in BOOLEAN /\ foreign \in BOOLEAN
    BY Zenon DEF Inv, TypeOK
  <2>2. CASE ForeignOpens \/ ForeignCloses
    BY ZenonT(60), <2>1, <2>2 DEF ForeignOpens, ForeignCloses
  <2>3. CASE Fault
    BY Zenon, <2>1, <2>3 DEF Fault
  <2> QED
    BY Zenon, <2>2, <2>3
<1>2. W' = W /\ Workloads' = Workloads /\ Current' = Current /\ Gone' = Gone
  BY Zenon, <1>1 DEF W, Workloads, Current, Gone
<1>3. TypeOK'
  BY <1>1, <1>2 DEF Inv, TypeOK, disk
<1>4. Fresh' /\ Single' /\ Turn' /\ Verdict' /\ Met'
  BY ZenonT(60), <1>1, <1>2 DEF Inv, Fresh, Single, Turn, Verdict, Met, At, disk
<1>5. Traced' /\ StopsAtFirst'
  BY Zenon, <1>1, <1>2 DEF Inv, Traced, Tracing, StopsAtFirst, disk
<1>6. Held' /\ Whole'
  <2>1. \A w \in W : /\ Agrees(w)' <=> Agrees(w)
                     /\ Pair(w)' = Pair(w) /\ Other(w)' = Other(w)
    BY Zenon, <1>1 DEF disk, Agrees, Pair, Other, Of, W, Workloads
  <2> QED
    BY Zenon, <1>1, <1>2, <2>1 DEF Inv, Held, Whole, Tracing, disk
<1> QED
  BY Zenon, <1>3, <1>4, <1>5, <1>6 DEF Inv

-----------------------------------------------------------------------------
LEMMA InitInv == Init => Inv
<1> SUFFICES ASSUME Init
             PROVE  Inv
  BY Zenon
<1>1. /\ camp \in Workers /\ camp.pc = "off" /\ ~camp.saw
  <2>1. 0 \in 0..Workloads
    BY SMTT(60), Numbers
  <2> QED
    BY Zenon, <2>1 DEF Init, Worker, Workers, Pc
<1>2. tracer \in Tracers /\ tracer.st = "off"
  BY SMTT(60), Numbers DEF Init, Tracers
<1>3. TypeOK
  <2>1. /\ evidence \in [W -> {"none", "partial", "whole"}]
        /\ result \in [W -> {"none", "root", "joined", "compared"}]
        /\ begun \in [W -> Nat] /\ starts \in 0..MaxStarts
    BY CampaignAssumption DEF Init
  <2>2. shown \in [W -> Shows \cup {NoShow}]
    BY Zenon DEF Init
  <2> QED
    BY ZenonT(60), <1>1, <1>2, <2>1, <2>2 DEF Init, TypeOK, Workers, Pc, Tracers
<1>4. Fresh /\ Single /\ Turn /\ Traced /\ Held /\ Verdict /\ Whole /\ Met
  BY Zenon, <1>1, <1>2
  DEF Init, Fresh, Single, Turn, Traced, Tracing, Held, Verdict, Whole, Met,
      Gone, At, Trying, Restoring, Cleaning
<1>5. StopsAtFirst
  BY DEF Init, StopsAtFirst
<1> QED
  BY Zenon, <1>3, <1>4, <1>5 DEF Inv

LEMMA NextInv == Inv /\ [Next]_vars => Inv'
<1> SUFFICES ASSUME Inv, [Next]_vars
             PROVE  Inv'
  BY Zenon
<1>1. CASE WorkerStep
  BY Zenon, <1>1, MarkKeepsInv, ReadyKeepsInv, RefusedEarlyKeepsInv, RmmodKeepsInv,
     InsmodKeepsInv, InstallFileKeepsInv, WorkloadStartsKeepsInv,
     WorkloadEndsKeepsInv, JudgeKeepsInv, FailsKeepsInv, RestoreKeepsInv,
     ProvedKeepsInv, CleanupKeepsInv, TerminalKeepsInv
  DEF WorkerStep
<1>2. CASE Start \/ GuardKills
  BY Zenon, <1>2, StartKeepsInv, GuardKillsKeepsInv
<1>3. CASE SameStep
  BY Zenon, <1>3, SameStepKeepsInv
<1>4. CASE TracerOpens \/ TracerEnds \/ TracerRefuses
  BY Zenon, <1>4, TracerKeepsInv
<1>5. CASE ForeignOpens \/ ForeignCloses \/ Fault
  BY Zenon, <1>5, DeviceKeepsInv
<1>6. CASE UNCHANGED vars
  <2>1. UNCHANGED <<module, faulted, foreign, approval, attempted, complete,
                    camp, same, tracer, evidence, shown, result, begun, starts>>
    BY Zenon, <1>6 DEF vars, device, disk
  <2>2. W' = W /\ Workloads' = Workloads /\ Current' = Current /\ Gone' = Gone
    BY Zenon, <2>1 DEF W, Workloads, Current, Gone
  <2>3. \A w \in W : /\ Agrees(w)' <=> Agrees(w)
                     /\ Pair(w)' = Pair(w) /\ Other(w)' = Other(w)
    BY Zenon, <2>1 DEF Agrees, Pair, Other, Of, W, Workloads
  <2>4. TypeOK' /\ Fresh' /\ Single' /\ Turn' /\ Traced'
    BY SMTT(60), <2>1, <2>2
    DEF Inv, TypeOK, Fresh, Single, Turn, Traced, Tracing, At
  <2>5. Held' /\ Verdict' /\ Whole' /\ Met' /\ StopsAtFirst'
    BY ZenonT(60), <2>1, <2>2, <2>3
    DEF Inv, Held, Verdict, Whole, Met, StopsAtFirst, Tracing, At
  <2> QED
    BY Zenon, <2>4, <2>5 DEF Inv
<1> QED
  BY Zenon, <1>1, <1>2, <1>3, <1>4, <1>5, <1>6 DEF Next

LEMMA Invariance == Spec => []Inv
BY InitInv, NextInv, PTL DEF Spec

(***************************************************************************)
(* complete.json, once it is there, stands for a whole campaign: every     *)
(* workload of the plan compared on whole evidence, no decoder left, the   *)
(* ordinary module loaded and the approval gone, for any plan and however  *)
(* often run.py is killed, timed out or started again.                     *)
(***************************************************************************)
THEOREM CompleteMeansWhole == Spec => []CompleteIsWhole
<1>1. Inv => CompleteIsWhole
  BY Zenon DEF Inv, Whole, Agrees, Tracing, CompleteIsWhole
<1> QED
  BY <1>1, Invariance, PTL

(***************************************************************************)
(* run() starts no workload twice and none before those ahead of it have   *)
(* been compared, over every worker started on the output root.            *)
(***************************************************************************)
THEOREM CampaignStopsAtFirst == Spec => []StopsAtFirst
<1>1. Inv => StopsAtFirst
  BY Zenon DEF Inv
<1> QED
  BY <1>1, Invariance, PTL

(***************************************************************************)
(* Each run is compared with one or two others only (compare_frames, the   *)
(* projections), and yet a complete campaign has one outcome per vector:   *)
(* each comparison leads back to the first run of the vector, or to the    *)
(* run of the same client without the copy.                                *)
(***************************************************************************)
THEOREM CompleteRunsAgree == Spec => []RunsAgree
<1>1. ASSUME Inv, complete, NEW v \in W, NEW w \in W,
             Rows[v].vector = Rows[w].vector
      PROVE  /\ shown[v].window = shown[w].window
             /\ shown[v].pixels = "prior"
             /\ Rows[v].client = Rows[w].client =>
                    shown[v].writers = shown[w].writers
  <2> DEFINE first(x) == Of(Rows[x].vector, "va", FALSE)
  <2>1. \A x \in W : Agrees(x)
    BY Zenon, <1>1 DEF Inv, Whole
  <2>2. \A x, y \in W : Rows[x] = Rows[y] => x = y
    BY Zenon, CampaignAssumption DEF W, Workloads
  <2>3. ASSUME NEW x \in W
        PROVE  /\ Rows[x].client \in {"va", "gst"} /\ Rows[x].copy \in BOOLEAN
               /\ Rows[x] = [vector |-> Rows[x].vector,
                             client |-> Rows[x].client, copy |-> Rows[x].copy]
    BY ZenonT(60), Plan DEF Row
  <2>4. ASSUME NEW x \in W, Rows[x].copy = FALSE
        PROVE  Pair(x) = x
    <3>1. Pair(x) \in W /\ Rows[Pair(x)] = Rows[x]
      BY ZenonT(60), <2>3, <2>4, Plan
    <3> QED
      BY Zenon, <2>2, <3>1
  <2>5. ASSUME NEW x \in W, Rows[x].client = "va"
        PROVE  Other(x) = x
    <3>1. Other(x) \in W /\ Rows[Other(x)] = Rows[x]
      BY ZenonT(60), <2>3, <2>5, Plan
    <3> QED
      BY Zenon, <2>2, <3>1
  <2>6. ASSUME NEW x \in W
        PROVE  /\ shown[x].window = shown[Pair(x)].window
               /\ shown[x].writers = shown[Pair(x)].writers
               /\ shown[x].window = shown[Other(x)].window
    BY ZenonT(60), <2>1, <2>3, <2>4, <2>5 DEF Agrees
  <2>7. ASSUME NEW x \in W
        PROVE  Pair(Other(x)) = first(x)
    <3>1. Rows[Other(x)] = [vector |-> Rows[x].vector,
                            client |-> "va", copy |-> Rows[x].copy]
      BY ZenonT(60), Plan
    <3>2. Rows[Other(x)].vector = Rows[x].vector /\ Rows[Other(x)].client = "va"
      BY <3>1
    <3> QED
      BY Zenon, <3>2 DEF Pair
  <2> HIDE DEF first
  <2>8. ASSUME NEW x \in W
        PROVE  shown[x].window = shown[first(x)].window
    <3>1. Other(x) \in W
      BY ZenonT(60), Plan
    <3> QED
      BY Zenon, <2>6, <2>7, <3>1
  <2>9. first(v) = first(w)
    BY Zenon, <1>1 DEF first
  <2>10. shown[v].window = shown[w].window
    BY Zenon, <2>8, <2>9
  <2>11. Rows[v].client = Rows[w].client => Pair(v) = Pair(w)
    BY Zenon, <1>1 DEF Pair
  <2>12. Rows[v].client = Rows[w].client => shown[v].writers = shown[w].writers
    BY Zenon, <2>6, <2>11
  <2> QED
    BY Zenon, <2>1, <2>10, <2>12 DEF Agrees
<1>2. Inv => RunsAgree
  BY Zenon, <1>1 DEF RunsAgree
<1> QED
  BY <1>2, Invariance, PTL

(***************************************************************************)
(* Once healthy() has met a fault, run() unloads and loads no module: what *)
(* healthy() refused it goes on refusing, and every step that touches the  *)
(* module comes after it.                                                  *)
(***************************************************************************)
THEOREM FaultIsNotRecovered == Spec => NoRecovery
<1>1. ASSUME Inv, [Next]_vars, module' # module
      PROVE  ~camp.saw
  <2>1. Rmmod \/ Insmod \/ Unload \/ Modprobe
    BY ZenonT(60), <1>1
    DEF Next, WorkerStep, SameStep, vars, device, Start, GuardKills, Mark,
        Ready, RefusedEarly, Gap, LiveCheck, InstallDir, InstallFile,
        WorkloadStarts, WorkloadExits, WorkloadFails, WorkloadTimeout, Judge,
        Fails, Restore, Reload, Proved, RestoreFails, RemoveFile, RemoveDir,
        CleanupFails, Terminal, SameTraces, SameStatus, SameTimeout, SameReaps,
        SameValidates, SamePublishes, SameRefuses, SameGoes, TracerOpens,
        TracerEnds, TracerRefuses, ForeignOpens, ForeignCloses, Fault
  <2>2. camp.pc \in {"rmmod", "insmod", "unload", "modprobe"}
    BY Zenon, <2>1 DEF Rmmod, Insmod, Unload, Modprobe, At
  <2> QED
    BY Zenon, <1>1, <2>2 DEF Inv, Met, Cleaning
<1>2. Inv /\ [Next]_vars => [module' # module => ~camp.saw]_vars
  BY Zenon, <1>1
<1> QED
  BY <1>2, Invariance, PTL DEF Spec, NoRecovery

=============================================================================
