----------------------------- MODULE ModuleSwap -----------------------------
(***************************************************************************)
(* Two single-use programs that exchange the decoder module for a          *)
(* candidate, decode under it and put the original back:                   *)
(* hevc-avd-command-capture/campaign.py, with measure.py for one decode,   *)
(* and avd-allocation-qualification/qualify.py; and the two reports that   *)
(* later judge what they recorded.                                         *)
(*                                                                         *)
(* A program is a script of operations.  Each may raise, so a failure is   *)
(* an action of its own and the guard of an operation says what it takes   *)
(* to go on.  Around them: the hardware guard, which may kill the program, *)
(* another client of the decoder, faults, and a package upgrade that       *)
(* replaces a module file.                                                 *)
(*                                                                         *)
(* The log holds what the reports read: of the health records only the     *)
(* unhealthy ones, since a report only asks that there is none.            *)
(***************************************************************************)
EXTENDS Naturals, Sequences, Functions

CONSTANTS
    Programs,   \* of "probe", "capture", "qualify"
    Jobs,       \* the decodes of a stage, in order
    MaxStarts   \* bound: processes started on one root

ASSUME ModuleSwapAssumption ==
    /\ Programs \subseteq {"probe", "capture", "qualify"}
    /\ Jobs \in Seq(Range(Jobs)) /\ IsInjective(Jobs)
    /\ MaxStarts \in Nat

VARIABLES
    module,     \* the loaded module: "original", "candidate", "other", "none"
    live,       \* its initstate is "live"
    intact,     \* the module files that are still the ones pinned
    faulted,    \* the journal holds a decoder fault
    holders,    \* who has the decoder open: "foreign", "decoder"
    attempted,  \* the single-use marker is there
    complete,   \* the completion marker is there
    log,        \* campaign-events.jsonl or events.jsonl
    proc,       \* the program
    guard,      \* the result of the hardware guard
    story,      \* history: module changes and decodes as they happened
    starts

device == <<module, live, intact, faulted, holders>>
disk == <<attempted, complete, log>>
vars == <<device, disk, proc, guard, story, starts>>

-----------------------------------------------------------------------------
(* The scripts. *)

I(which) == [op |-> "identity", which |-> which]
H(present) == [op |-> "healthy", present |-> present]
T(argv) == [op |-> "transition", argv |-> argv]
Decode(stage, job) == [op |-> "decode", stage |-> stage, job |-> job]
Judge(stage, job) == [op |-> "judge", stage |-> stage, job |-> job]
Do(op) == [op |-> op]

(* The n operations of every job, job after job. *)
ForEach(n, Ops(_)) ==
    [k \in 1..(n * Len(Jobs)) |->
        Ops(Jobs[((k - 1) \div n) + 1])[((k - 1) % n) + 1]]

(* stage() of qualify.py and the workloads of campaign.py. *)
Stage(name, which) ==
    <<I(which)>>
        \o ForEach(4, LAMBDA j : <<H(TRUE), Decode(name, j), H(TRUE), Judge(name, j)>>)

Workloads ==
    ForEach(5, LAMBDA j : <<I("candidate"), H(TRUE), Decode("candidate", j),
                            Judge("candidate", j), H(TRUE)>>)

Load ==
    <<T("rmmod"), H(FALSE), T("insmod"), I("candidate"), H(TRUE)>>

(* The first operation and whether the module is loaded decide whether the *)
(* second and third are skipped.                                           *)
Restore ==
    <<Do("loaded"), I("candidate"), T("rmmod"), H(FALSE), T("modprobe"),
      I("original"), H(TRUE), Do("restored")>>

Script(prog) ==
    [before |-> <<Do("mark"), I("original"), H(TRUE)>>,
     try |-> CASE prog = "probe" -> Load \o <<Do("preflight")>>
               [] prog = "capture" -> Load \o <<Do("preflight")>> \o Workloads
               [] prog = "qualify" -> Stage("baseline", "original")
                                        \o <<H(TRUE)>> \o Load
                                        \o Stage("candidate", "candidate"),
     restore |-> Restore,
     terminal |-> <<Do("terminal")>>,
     after |-> IF prog = "qualify"
               THEN Stage("restored", "original") \o <<H(TRUE), Do("complete")>>
               ELSE <<Do("complete")>>]

-----------------------------------------------------------------------------
Idle(prog) ==
    [prog |-> prog, part |-> "off", pc |-> 1, changed |-> FALSE,
     restored |-> FALSE, failed |-> FALSE, out |-> "none", saw |-> FALSE]

Init ==
    /\ module = "original"
    /\ live = TRUE
    /\ intact = {"original", "candidate"}
    /\ faulted \in BOOLEAN
    /\ holders = {}
    /\ attempted = FALSE
    /\ complete = FALSE
    /\ log = <<>>
    /\ \E prog \in Programs : proc = Idle(prog)
    /\ guard = "none"
    /\ story = <<>>
    /\ starts = 0

Running ==
    proc.part \notin {"off", "ended", "killed"}

Ops(p) ==
    Script(p.prog)[p.part]

At(op) ==
    Running /\ Ops(proc)[proc.pc].op = op

Op ==
    Ops(proc)[proc.pc]

(* Mutant: the first failure is forgotten once the original is back. *)
FollowingForgets(p) ==
    CASE p.part = "before" -> "try"
      [] p.part = "try" -> IF p.changed THEN "restore" ELSE "terminal"
      [] p.part = "restore" -> "terminal"
      [] p.part = "terminal" -> IF p.restored THEN "after" ELSE "ended"
      [] p.part = "after" -> "ended"

(* The end of a part: of the try the finally, of the terminal record what  *)
(* follows the finally.                                                    *)
Following(p) ==
    CASE p.part = "before" -> "try"
      [] p.part = "try" -> IF p.changed THEN "restore" ELSE "terminal"
      [] p.part = "restore" -> "terminal"
      [] p.part = "terminal" -> IF p.failed \/ ~p.restored THEN "ended" ELSE "after"
      [] p.part = "after" -> "ended"

Leave(p) ==
    [p EXCEPT !.part = Following(p), !.pc = 1]

Step(p, n) ==
    IF p.pc + n > Len(Ops(p)) THEN Leave(p) ELSE [p EXCEPT !.pc = @ + n]

Goes(p) ==
    proc' = Step(p, 1)

Record(event) ==
    log' = Append(log, event)

(***************************************************************************)
(* An exception.  It is recorded, unless recording is what fails; a        *)
(* restoration whose failure cannot be recorded also skips the terminal    *)
(* record.                                                                 *)
(***************************************************************************)
FailureEvent(part) ==
    CASE part = "try" -> <<[event |-> "failed"]>>
      [] part = "restore" -> <<[event |-> "restore-incomplete"]>>
      [] part = "after" -> <<[event |-> "restored-stage-failed"]>>
      [] OTHER -> <<>>

Raise(p, events) ==
    LET q == [p EXCEPT !.failed = TRUE]
    IN  \/ /\ proc' = IF p.part \in {"try", "restore"} THEN Leave(q)
                      ELSE [q EXCEPT !.part = "ended"]
           /\ log' = log \o events \o FailureEvent(p.part)
        \/ /\ proc' = IF p.part = "try" THEN Leave(q)
                      ELSE [q EXCEPT !.part = "ended"]
           /\ log' = log \o events

-----------------------------------------------------------------------------
(* The checks. *)

Start ==
    /\ ~Running
    /\ starts < MaxStarts
    /\ starts' = starts + 1
    /\ proc' = [Idle(proc.prog) EXCEPT !.part = "before"]
    /\ guard' = "none"
    /\ UNCHANGED <<device, disk, story>>

(* The host, the tools and the files are as pinned; nothing was attempted. *)
Mark ==
    /\ At("mark")
    /\ ~attempted
    /\ intact = {"original", "candidate"}
    /\ attempted' = TRUE
    /\ Goes(proc)
    /\ UNCHANGED <<device, complete, log, guard, story, starts>>

Unhealthy ==
    holders # {} \/ faulted \/ (module # "none" /\ ~live)

Reads(present) ==
    ~Unhealthy /\ (present => module # "none")

Healthy ==
    /\ At("healthy")
    /\ Reads(Op.present)
    /\ Goes(proc)
    /\ UNCHANGED <<device, disk, guard, story, starts>>

(* The state is recorded before it is judged. *)
HealthyRaises ==
    /\ At("healthy") \/ At("loaded")
    /\ ~Reads(IF At("loaded") THEN FALSE ELSE Op.present)
    /\ Raise([proc EXCEPT !.saw = @ \/ faulted],
             IF Unhealthy THEN <<[event |-> "unhealthy"]>> ELSE <<>>)
    /\ UNCHANGED <<device, attempted, complete, guard, story, starts>>

(* Mutant: the loaded module is taken for the one that is expected. *)
IdentityAny ==
    /\ At("identity")
    /\ "original" \in intact
    /\ Goes(proc)
    /\ UNCHANGED <<device, disk, guard, story, starts>>

Identity ==
    /\ At("identity")
    /\ "original" \in intact
    /\ module = Op.which
    /\ Goes(proc)
    /\ UNCHANGED <<device, disk, guard, story, starts>>

(* recorder_preflight(): both recorders exist, off and without contexts. *)
Preflight ==
    /\ At("preflight")
    /\ module = "candidate" /\ holders = {}
    /\ Record([event |-> "preflight"])
    /\ Goes(proc)
    /\ UNCHANGED <<device, attempted, complete, guard, story, starts>>

(* Any operation may fail without having done anything. *)
Refused ==
    /\ Running
    /\ Op.op \notin {"decode", "transition"}
    /\ Raise(proc, <<>>)
    /\ UNCHANGED <<device, attempted, complete, guard, story, starts>>

-----------------------------------------------------------------------------
(***************************************************************************)
(* A module transition.  It takes effect or not, and may end in time or    *)
(* not.  What the kernel refuses: a module in use, a second one.           *)
(***************************************************************************)
Pinned(file) ==
    IF file \in intact THEN file ELSE "other"

Effect(argv) ==
    CASE argv = "rmmod" -> IF holders = {} /\ live THEN "none" ELSE module
      [] argv = "insmod" -> IF module = "none" THEN Pinned("candidate") ELSE module
      [] argv = "modprobe" -> IF module = "none" THEN Pinned("original") ELSE module

Happens(argv) ==
    /\ module' = Effect(argv)
    /\ story' = IF module' = module THEN story ELSE Append(story, <<module'>>)

Attempt == [event |-> "attempt", argv |-> Op.argv]
Result(rc) == [event |-> "result", argv |-> Op.argv, rc |-> rc]

Transition ==
    /\ At("transition")
    /\ Happens(Op.argv)
    /\ module' # module \/ Op.argv = "modprobe"
    /\ log' = log \o <<Attempt, Result(0)>>
    /\ Goes(IF proc.part = "try" /\ Op.argv = "rmmod"
            THEN [proc EXCEPT !.changed = TRUE] ELSE proc)
    /\ UNCHANGED <<live, intact, faulted, holders, attempted, complete, guard,
                   starts>>

(* It failed, or its result is not known: the timeout, or record(). *)
TransitionFails ==
    /\ At("transition")
    /\ \/ /\ UNCHANGED <<module, story>>
          /\ \E known \in BOOLEAN :
                 Raise(proc, <<Attempt>> \o IF known THEN <<Result(1)>> ELSE <<>>)
       \/ Happens(Op.argv) /\ Raise(proc, <<Attempt>>)
    /\ UNCHANGED <<live, intact, faulted, holders, attempted, complete, guard,
                   starts>>

(* The unloading candidate oopses: it stays, and is not live any more. *)
TransitionOopses ==
    /\ At("transition")
    /\ Op.argv = "rmmod" /\ module = "candidate" /\ holders = {}
    /\ live' = FALSE
    /\ faulted' = TRUE
    /\ Raise(proc, <<Attempt, Result(1)>>)
    /\ UNCHANGED <<module, intact, holders, attempted, complete, guard, story,
                   starts>>

(***************************************************************************)
(* The decoder of a job, under measure.py and v4l2-tracer or directly.     *)
(***************************************************************************)
Starts ==
    /\ At("decode")
    /\ "decoder" \notin holders
    /\ module # "none"
    /\ holders' = holders \cup {"decoder"}
    /\ story' = Append(story, <<Op.stage, Op.job, module>>)
    /\ UNCHANGED <<module, live, intact, faulted, disk, proc, guard, starts>>

(* out: its pixels and records are as they should be, or they are not. *)
Exits ==
    /\ At("decode")
    /\ "decoder" \in holders
    /\ holders' = holders \ {"decoder"}
    /\ \E out \in {"right", "wrong"} : Goes([proc EXCEPT !.out = out])
    /\ story' = Append(story, <<proc'.out>>)
    /\ UNCHANGED <<module, live, intact, faulted, disk, guard, starts>>

(***************************************************************************)
(* A status other than 0, or the timeout: subprocess.run() of qualify.py   *)
(* kills the decoder and waits for it, that of campaign.py kills           *)
(* measure.py, and the tracer under it may go on.                          *)
(***************************************************************************)
DecodeFails ==
    /\ At("decode")
    /\ holders' \in {holders \ {"decoder"}}
                      \cup IF proc.prog = "capture" THEN {holders} ELSE {}
    /\ Raise(proc, <<>>)
    /\ UNCHANGED <<module, live, intact, faulted, attempted, complete, guard,
                   story, starts>>

DecoderEndsLate ==
    /\ ~At("decode")
    /\ "decoder" \in holders
    /\ holders' = holders \ {"decoder"}
    /\ UNCHANGED <<module, live, intact, faulted, disk, proc, guard, story, starts>>

(* execute(), from the output on; run() of measure.py. *)
Judges ==
    /\ At("judge")
    /\ proc.out = "right"
    /\ Record([event |-> "accepted", stage |-> Op.stage, job |-> Op.job])
    /\ Goes(proc)
    /\ UNCHANGED <<device, attempted, complete, guard, story, starts>>

-----------------------------------------------------------------------------
(* The finally, and the end. *)

(* Mutant: an unknown module is unloaded like the candidate. *)
LoadedAny ==
    /\ At("loaded")
    /\ Reads(FALSE)
    /\ proc' = Step(proc, IF module = "none" THEN 3 ELSE 2)
    /\ UNCHANGED <<device, disk, guard, story, starts>>

Loaded ==
    /\ At("loaded")
    /\ Reads(FALSE)
    /\ proc' = Step(proc, IF module = "none" THEN 3 ELSE 1)
    /\ UNCHANGED <<device, disk, guard, story, starts>>

Restored ==
    /\ At("restored")
    /\ Record([event |-> "restored"])
    /\ Goes([proc EXCEPT !.restored = TRUE])
    /\ UNCHANGED <<device, attempted, complete, guard, story, starts>>

(* record_final_state(): recorded, not judged. *)
Terminal ==
    /\ At("terminal")
    /\ Record([event |-> "terminal", restored |-> proc.restored,
               well |-> ~Unhealthy /\ module # "none"])
    /\ proc' = Leave(proc)
    /\ UNCHANGED <<device, attempted, complete, guard, story, starts>>

(* The last statement: the program ends with status 0. *)
Complete ==
    /\ At("complete")
    /\ Record([event |-> "complete"])
    /\ complete' = TRUE
    /\ Goes([proc EXCEPT !.failed = FALSE])
    /\ UNCHANGED <<device, attempted, guard, story, starts>>

(* The guard sees the program end: its status, and the decoder idle. *)
GuardEnds ==
    /\ proc.part = "ended" /\ guard = "none"
    /\ guard' = IF proc.failed \/ Unhealthy THEN "failed" ELSE "ok"
    /\ UNCHANGED <<device, disk, proc, story, starts>>

(* A deadline, a fault or a foreign holder: the program and what it        *)
(* started are killed; nothing is restored.                                *)
GuardKills ==
    /\ Running
    /\ proc' = [proc EXCEPT !.part = "killed"]
    /\ guard' = "failed"
    /\ holders' = holders \ {"decoder"}
    /\ UNCHANGED <<module, live, intact, faulted, disk, story, starts>>

ForeignOpens ==
    /\ module # "none" /\ live /\ "foreign" \notin holders
    /\ holders' = holders \cup {"foreign"}
    /\ UNCHANGED <<module, live, intact, faulted, disk, proc, guard, story, starts>>

ForeignCloses ==
    /\ "foreign" \in holders
    /\ holders' = holders \ {"foreign"}
    /\ UNCHANGED <<module, live, intact, faulted, disk, proc, guard, story, starts>>

Fault ==
    /\ holders # {} /\ ~faulted
    /\ faulted' = TRUE
    /\ UNCHANGED <<module, live, intact, holders, disk, proc, guard, story, starts>>

(* An upgrade or a build replaces a module file. *)
Upgrade ==
    /\ intact = {"original", "candidate"}
    /\ \E file \in intact : intact' = intact \ {file}
    /\ UNCHANGED <<module, live, faulted, holders, disk, proc, guard, story, starts>>

Next ==
    \/ Start \/ Mark \/ Healthy \/ HealthyRaises \/ Identity \/ Preflight
    \/ Refused \/ Transition \/ TransitionFails \/ TransitionOopses
    \/ Starts \/ Exits \/ DecodeFails \/ DecoderEndsLate \/ Judges
    \/ Loaded \/ Restored \/ Terminal \/ Complete
    \/ GuardEnds \/ GuardKills \/ ForeignOpens \/ ForeignCloses \/ Fault
    \/ Upgrade

Spec ==
    Init /\ [][Next]_vars

-----------------------------------------------------------------------------
(* The reports. *)

Events(name) ==
    SelectSeq(log, LAMBDA e : e.event = name)

(* The jobs accepted and the transitions, in the order of the log. *)
Ordered ==
    LET picked == SelectSeq(log, LAMBDA e : e.event \in {"accepted", "result"})
    IN  [i \in DOMAIN picked |->
            IF picked[i].event = "result" THEN <<picked[i].argv>>
            ELSE <<picked[i].stage, picked[i].job>>]

Accepted(stage) ==
    [i \in DOMAIN Jobs |-> <<stage, Jobs[i]>>]

FinalState ==
    /\ ~Unhealthy
    /\ module = "original"
    /\ "original" \in intact

Ends(event) ==
    log # <<>> /\ log[Len(log)].event = event

verify_guard ==
    guard = "ok"

(* check() of the qualification's report. *)
check ==
    /\ verify_guard
    /\ FinalState
    /\ Ends("complete")
    /\ \A name \in {"failed", "restore-incomplete", "restored-stage-failed",
                    "unhealthy"} : Events(name) = <<>>
    /\ \A e \in Range(Events("result")) : e.rc = 0
    /\ Ordered = Accepted("baseline") \o <<<<"rmmod">>, <<"insmod">>>>
                   \o Accepted("candidate") \o <<<<"rmmod">>, <<"modprobe">>>>
                   \o Accepted("restored")
    /\ Len(Events("restored")) = 1

(* The report of the captures; of their runs only that each passed. *)
verify_transitions ==
    /\ verify_guard
    /\ FinalState
    /\ Ends("complete")
    /\ \A name \in {"failed", "restore-incomplete", "unhealthy"} :
           Events(name) = <<>>
    /\ \A e \in Range(Events("result")) : e.rc = 0
    /\ Len(Events("attempt")) = 4 /\ Len(Events("result")) = 4
    /\ Len(Events("preflight")) = 1
    /\ Ordered = <<<<"rmmod">>, <<"insmod">>>>
                   \o (IF proc.prog = "probe" THEN <<>> ELSE Accepted("candidate"))
                   \o <<<<"rmmod">>, <<"modprobe">>>>
    /\ Len(Events("restored")) = 1
    /\ Len(Events("terminal")) = 1
    /\ Events("terminal")[1].restored /\ Events("terminal")[1].well

Accepts ==
    IF proc.prog = "qualify" THEN check ELSE verify_transitions

-----------------------------------------------------------------------------
(***************************************************************************)
(* What the reports accept is what happened: the module went once to the   *)
(* candidate and back, every job was decoded once, in order, with the      *)
(* right result, on the module its stage is about, and nothing else was    *)
(* loaded ("Only a final completion marker plus all 30 accepted jobs,      *)
(* clean guard result, original identity and healthy idle final state can  *)
(* qualify", PLAN.md of the qualification).                                *)
(***************************************************************************)
Decoded(stage, on) ==
    ForEach(2, LAMBDA j : <<<<stage, j, on>>, <<"right">>>>)

There == <<<<"none">>, <<"candidate">>>>
Back == <<<<"none">>, <<"original">>>>

TheStory ==
    CASE proc.prog = "probe" -> There \o Back
      [] proc.prog = "capture" ->
             There \o Decoded("candidate", "candidate")
                 \o Back
      [] proc.prog = "qualify" ->
             Decoded("baseline", "original") \o There
                 \o Decoded("candidate", "candidate") \o Back
                 \o Decoded("restored", "original")

AcceptedIsTrue ==
    Accepts => story = TheStory

(***************************************************************************)
(* A qualification that left its completion marker, under a guard that was *)
(* content, with the final state in order, is accepted by its report: no   *)
(* path through the failures and the finally completes with a log that     *)
(* says otherwise.                                                         *)
(***************************************************************************)
CompleteIsAccepted ==
    proc.prog = "qualify" /\ complete /\ guard = "ok" /\ FinalState => check

(***************************************************************************)
(* "Never force unload, restart a faulty decoder, reset or retry": once a  *)
(* health check has met a fault nothing is loaded or unloaded by that      *)
(* process, a module that is neither of the two is never unloaded, and the *)
(* candidate is never loaded twice, by however many processes.  (A busy    *)
(* decoder only ends the experiment: the restoration looks again.)         *)
(***************************************************************************)
NeverForced ==
    [][module' # module =>
           /\ ~proc.saw
           /\ module # "other"
           /\ module' = "candidate" => <<"candidate">> \notin Range(story)]_vars
=============================================================================
