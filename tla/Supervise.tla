------------------------------ MODULE Supervise ------------------------------
(***************************************************************************)
(* supervise() of experiments/hevc-avd-command-capture/capture.py together *)
(* with what it supervises: the two recorders inside the driver, the       *)
(* decoder child, a foreign client of the device, and the directory that   *)
(* receives the evidence.  The runs are those of campaign.py, numbered     *)
(* upwards; a run may follow a failed one or one whose supervisor died.    *)
(*                                                                         *)
(* Every call into the kernel (a status, a control write, a snapshot) is   *)
(* one step, between which the child and the foreign client move.  A call  *)
(* may fail, and a control write may take effect although sudo reports a   *)
(* failure or a timeout.  A write of execution.json may fail.  The signal  *)
(* flag and the clock are looked at in a few places, where finding either  *)
(* raises; whether they are found so is a choice made there.               *)
(*                                                                         *)
(* The hooks of the driver reach the two recorders one after the other,    *)
(* each under its own lock (prepare.py of hevc-avd-command-trace).         *)
(***************************************************************************)
EXTENDS RecorderCore

CONSTANTS
    MaxRun,      \* bound: runs supervised
    MaxContext   \* bound: contexts the children open

ASSUME SuperviseAssumption ==
    {MaxRun, MaxContext} \subseteq Nat \ {0}

Run == 1..MaxRun
Rec == {1, 2}           \* PATHS: the reference and the command recorder
NoExit == 2             \* child_exit is None; 0 is success, 1 anything else
NoSnapshot == Off

VARIABLES
    rec,            \* the recorders' captures
    opens,          \* the recorders' open_contexts
    last_run,       \* the recorders' last_run
    child,          \* the forked decoder
    next_context,
    foreign,        \* the recorders that see the foreign client's file
    sup,            \* the supervisor: where it is, and its result
    disk            \* per run: the last execution.json and the snapshots

kernelVars == <<rec, opens, last_run>>
childVars == <<child, next_context>>
vars == <<kernelVars, childVars, foreign, sup, disk>>

NoChild ==
    [state |-> "none", pid |-> 0, exit |-> NoExit, context |-> 0,
     op |-> "closed", half |-> 1]

Idle ==
    [pc |-> "idle", i |-> 1, run |-> 0, enabled |-> FALSE, errors |-> FALSE,
     forked |-> FALSE, reaped |-> FALSE, exit |-> NoExit,
     armed |-> 0, seen |-> 0]

NoResult ==
    [attempted |-> 0, reaped |-> FALSE, exit |-> NoExit,
     snapshot |-> [n \in Rec |-> NoSnapshot]]

Init ==
    /\ rec = [n \in Rec |-> Off]
    /\ opens = [n \in Rec |-> 0]
    /\ last_run = [n \in Rec |-> 0]
    /\ child = NoChild
    /\ next_context = 0
    /\ foreign = {}
    /\ sup = Idle
    /\ disk = [r \in Run |-> NoResult]

-----------------------------------------------------------------------------
(***************************************************************************)
(* A status is good when no error bit is set: which bits are set is left   *)
(* out.                                                                    *)
(***************************************************************************)
Any(c) ==
    [c EXCEPT !.errors = IF @ = {} THEN {} ELSE Error]

(***************************************************************************)
(* The driver.  A file of the child goes closed, opened, started (a job    *)
(* runs) and opened again; Hook is what the operation in progress does to  *)
(* recorder n.  The job and the start hook are taken together.             *)
(***************************************************************************)
Hook(n, op) ==
    CASE op = "open"  -> atr_open(rec[n], child.pid)
      [] op = "start" -> atr_start(atr_bind(rec[n], child.pid, child.context,
                                            TRUE), child.context, TRUE)
      [] op = "done"  -> atr_done(rec[n], child.context, TRUE)
      [] op = "fail"  -> atr_done(rec[n], child.context, FALSE)
      [] op = "close" -> atr_close(rec[n], child.context)

After(op) ==
    CASE op \in {"open", "done", "fail"} -> "opened"
      [] op = "start" -> "started"
      [] op = "close" -> "closed"

InProgress == {"open", "start", "done", "fail", "close"}

(***************************************************************************)
(* The second recorder hears of a close first, of all else second.         *)
(***************************************************************************)
HookStep ==
    LET op == child.op
        n == IF op = "close" THEN 3 - child.half ELSE child.half
    IN  /\ op \in InProgress
        /\ rec' = [rec EXCEPT ![n] = Any(Hook(n, op))]
        /\ opens' = CASE op = "open"  -> [opens EXCEPT ![n] = @ + 1]
                      [] op = "close" -> [opens EXCEPT ![n] = @ - 1]
                      [] OTHER -> opens
        /\ child' = IF child.half = 1
                    THEN [child EXCEPT !.half = 2]
                    ELSE [child EXCEPT !.half = 1, !.op = After(op)]
        /\ UNCHANGED <<last_run, next_context, foreign, sup, disk>>

(* The child's own steps: they change neither a recorder nor a file. *)
Becomes(next) ==
    /\ child' = next
    /\ UNCHANGED <<kernelVars, next_context, foreign, sup, disk>>

Begins(op) ==
    Becomes([child EXCEPT !.op = op])

ChildOpens ==
    /\ child.state = "free"
    /\ child.op = "closed"
    /\ next_context < MaxContext
    /\ next_context' = next_context + 1
    /\ child' = [child EXCEPT !.op = "open", !.context = next_context + 1]
    /\ UNCHANGED <<kernelVars, foreign, sup, disk>>

(* device_run(): the job is bound and the picture starts. *)
ChildDecodes ==
    /\ child.state = "free"
    /\ child.op = "opened"
    /\ rec[1].pictures <= Pictures
    /\ Begins("start")

JobEnds ==
    child.op = "started" /\ \E op \in {"done", "fail"} : Begins(op)

ChildCloses ==
    /\ child.state \in {"free", "dying"}
    /\ child.op = "opened"
    /\ Begins("close")

(***************************************************************************)
(* A process is waited for only after the kernel has closed its files.     *)
(***************************************************************************)
Ends(exit) ==
    /\ child.op = "closed"
    /\ Becomes([child EXCEPT !.state = "dead", !.exit = exit, !.context = 0])

ChildExits ==
    child.state = "free" /\ \E exit \in {0, 1} : Ends(exit)

ChildDies ==
    child.state = "dying" /\ Ends(1)

(* Mutant: no parent-death signal. *)
ChildLosesPipe ==
    /\ child.state = "blocked"
    /\ sup.pc \in {"term", "kill", "idle"}
    /\ Becomes([child EXCEPT !.state = "dying"])

(***************************************************************************)
(* A child blocked on the pipe leaves when the writer is closed; prctl     *)
(* kills a child whose supervisor is gone.  A child in uninterruptible     *)
(* sleep does not die of any signal before it wakes, if it ever does.      *)
(***************************************************************************)
ChildLoses ==
    /\ \/ child.state = "blocked" /\ sup.pc \in {"term", "kill", "idle"}
       \/ child.state = "free" /\ sup.pc = "idle"
    /\ Becomes([child EXCEPT !.state = "dying"])

ChildSticks ==
    /\ child.state \in {"free", "dying"}
    /\ child.op \in {"opened", "started"}
    /\ Becomes([child EXCEPT !.state = "stuck"])

ChildWakes ==
    /\ child.state = "stuck"
    /\ Becomes([child EXCEPT !.state = "dying"])

(***************************************************************************)
(* Another process opens and closes the device; it has pid 0 here, which   *)
(* is no child's.                                                          *)
(***************************************************************************)
ForeignOpens(n) ==
    /\ n \notin foreign
    /\ n = 2 => 1 \in foreign
    /\ foreign' = foreign \cup {n}
    /\ opens' = [opens EXCEPT ![n] = @ + 1]
    /\ rec' = [rec EXCEPT ![n] = Any(atr_open(@, 0))]
    /\ UNCHANGED <<last_run, childVars, sup, disk>>

ForeignCloses(n) ==
    /\ n \in foreign
    /\ n = 1 => 2 \notin foreign
    /\ foreign' = foreign \ {n}
    /\ opens' = [opens EXCEPT ![n] = @ - 1]
    /\ UNCHANGED <<rec, last_run, childVars, sup, disk>>

-----------------------------------------------------------------------------
(***************************************************************************)
(* The supervisor.  result is what execution.json holds; event() writes it *)
(* whole.                                                                  *)
(***************************************************************************)
Written(s) ==
    [disk EXCEPT ![s.run] = [@ EXCEPT !.attempted = s.armed,
                                      !.reaped = s.reaped,
                                      !.exit = s.exit]]

(***************************************************************************)
(* Where the exception handlers of supervise() lead: out of the first try  *)
(* to the finally clause, out of a recorder's try to the next recorder.    *)
(***************************************************************************)
Handled(s) ==
    CASE s.pc \in {"seal_check", "seal", "snapshot", "stored",
                  "sealed"} ->
             IF s.i < s.armed THEN [s EXCEPT !.pc = "seal_check", !.i = @ + 1]
                              ELSE [s EXCEPT !.pc = "final", !.i = 1]
      [] s.pc = "final" -> [s EXCEPT !.pc = "judge"]
      [] s.pc \in {"clear", "cleared"} ->
             IF s.i < 2 THEN [s EXCEPT !.pc = "clear", !.i = @ + 1]
                        ELSE [s EXCEPT !.pc = "complete"]
      [] OTHER -> [s EXCEPT !.pc = "close"]

(***************************************************************************)
(* error(): the message goes to the result; writing it may fail as well.   *)
(***************************************************************************)
Fails(s) ==
    LET next == Handled([s EXCEPT !.errors = TRUE])
    IN  sup' = next /\ disk' \in {disk, Written(next)}

(***************************************************************************)
(* A fatal event(): from s to the next place when execution.json is        *)
(* written, to the handler when it is not.                                 *)
(***************************************************************************)
Event(s, pc, i) ==
    \/ sup' = [s EXCEPT !.pc = pc, !.i = i] /\ disk' = Written(s)
    \/ Fails(s)

(***************************************************************************)
(* status() and check_state(): go on when the state is good; sudo may fail *)
(* however good it is.                                                     *)
(***************************************************************************)
Checked(good, next) ==
    \/ good /\ sup' = next /\ disk' = disk
    \/ Fails(sup)

off_state(n) ==
    rec[n].phase = "off" /\ rec[n].errors = {}

live_state(n) ==
    /\ rec[n].errors = {}
    /\ rec[n].pictures <= Pictures
    /\ rec[n].completions <= rec[n].pictures
    /\ rec[n].run = sup.run
    /\ Recording(rec[n])

sealed_state(n) ==
    /\ rec[n].errors = {}
    /\ rec[n].run = sup.run
    /\ rec[n].phase = "sealed"
    /\ rec[n].context # 0
    /\ rec[n].pictures = Pictures
    /\ rec[n].completions = Pictures
    /\ opens[n] = 0

check_state(n, sealed) ==
    IF ~sup.enabled THEN off_state(n)
    ELSE IF sealed THEN sealed_state(n) ELSE live_state(n)

(***************************************************************************)
(* control_write of recorder n, with the refusal to replace a capture that *)
(* bounded.py adds: whether it accepts, and what it does.                  *)
(***************************************************************************)
Accepts(n, text) ==
    /\ opens[n] = 0
    /\ CASE text = "arm"  -> rec[n].phase = "off" /\ sup.run > last_run[n]
         [] text = "seal" -> rec[n].run = sup.run /\ CanSeal(rec[n])
         [] text = "off"  -> TRUE

Applied(n, text) ==
    CASE text = "arm"  -> Armed(sup.run, child.pid)
      [] text = "seal" -> Any(atr_seal(rec[n]))
      [] text = "off"  -> Off

(***************************************************************************)
(* control(): ok goes on; the other outcome, with or without an effect in  *)
(* the kernel, raises.                                                     *)
(***************************************************************************)
control(n, text, ok) ==
    \/ /\ Accepts(n, text)
       /\ rec' = [rec EXCEPT ![n] = Applied(n, text)]
       /\ last_run' = IF text = "arm" THEN [last_run EXCEPT ![n] = sup.run]
                                      ELSE last_run
       /\ ok \/ Fails(sup)
    \/ UNCHANGED <<rec, last_run>> /\ Fails(sup)

-----------------------------------------------------------------------------
At(pc) ==
    sup.pc = pc

To(s, pc, i) ==
    [s EXCEPT !.pc = pc, !.i = i]

kernelAndWorld == <<kernelVars, childVars, foreign>>

(***************************************************************************)
(* A fresh Store and the preflight event.  Runs are numbered upwards.      *)
(***************************************************************************)
Begin(enabled) ==
    LET s == [Idle EXCEPT !.run = sup.run + 1, !.enabled = enabled,
                          !.pc = "preflight"]
    IN  /\ At("idle")
        /\ sup.run < MaxRun
        /\ child.state \in {"none", "dead", "stuck"}
        /\ Event(s, "preflight", 1)
        /\ UNCHANGED <<kernelVars, childVars, foreign>>

Preflight ==
    /\ At("preflight")
    /\ Checked(off_state(sup.i) /\ opens[sup.i] = 0,
               IF sup.i = 1 THEN To(sup, "preflight", 2)
                            ELSE To(sup, "fork", 1))
    /\ UNCHANGED kernelAndWorld

Fork ==
    /\ At("fork")
    /\ \/ /\ child' = [NoChild EXCEPT !.state = "blocked", !.pid = sup.run]
          /\ Event([sup EXCEPT !.forked = TRUE], "attempt", 1)
       \/ Fails(sup) /\ UNCHANGED child
    /\ UNCHANGED <<kernelVars, next_context, foreign>>

(***************************************************************************)
(* The attempt to arm is on disk before the control write.                 *)
(***************************************************************************)
ArmAttempt ==
    /\ At("attempt")
    /\ \/ /\ sup.enabled
          /\ Event([sup EXCEPT !.armed = sup.i], "arm", sup.i)
       \/ /\ ~sup.enabled
          /\ sup' = To(sup, "arm", sup.i)
          /\ UNCHANGED disk
       \/ Fails(sup)
    /\ UNCHANGED kernelAndWorld

ControlArm ==
    /\ At("arm")
    /\ control(sup.i, IF sup.enabled THEN "arm" ELSE "off",
               sup' = To(sup, "armed", sup.i) /\ UNCHANGED disk)
    /\ UNCHANGED <<opens, childVars, foreign>>

(* Mutant: the child is released after the first recorder. *)
ArmedStatusFirst ==
    /\ At("armed")
    /\ \/ /\ check_state(sup.i, FALSE)
          /\ opens[sup.i] = 0
          /\ Event(sup, "release", 1)
       \/ Fails(sup)
    /\ UNCHANGED kernelAndWorld

ArmedStatus ==
    /\ At("armed")
    /\ \/ /\ check_state(sup.i, FALSE)
          /\ opens[sup.i] = 0
          /\ \/ sup.i = 1 /\ Event(sup, "attempt", 2)
             \/ sup.i = 2 /\ Event(sup, "release", 1)
       \/ Fails(sup)
    /\ UNCHANGED kernelAndWorld

Release ==
    /\ At("release")
    /\ \/ /\ child' = [child EXCEPT !.state = "free"]
          /\ Event(sup, "poll", 1)
       \/ Fails(sup) /\ UNCHANGED child
    /\ UNCHANGED <<kernelVars, next_context, foreign>>

Reaped(s) ==
    [s EXCEPT !.reaped = TRUE, !.exit = child.exit]

AfterWait(s) ==
    IF s.armed > 0 THEN "seal_check" ELSE "final"

Poll ==
    /\ At("poll")
    /\ \/ child.state = "dead" /\ Event(Reaped(sup), AfterWait(sup), 1)
       \/ /\ child.state # "dead"
          /\ sup' = To(sup, "watch", 1)
          /\ UNCHANGED disk
    /\ UNCHANGED kernelAndWorld

(* Mutant: there is no deadline. *)
PollLateNever ==
    /\ FALSE
    /\ Fails(sup)
    /\ UNCHANGED kernelAndWorld

(* The deadline has passed, or a signal has come, at the time of a poll. *)
PollLate ==
    /\ At("poll")
    /\ child.state # "dead"
    /\ Fails(sup)
    /\ UNCHANGED kernelAndWorld

(***************************************************************************)
(* The context of the first recorder is kept until the second one's is     *)
(* read.                                                                   *)
(***************************************************************************)
Seen(pc) ==
    [To(sup, pc, 2) EXCEPT !.seen = rec[1].context]

Unseen(pc) ==
    [To(sup, pc, 1) EXCEPT !.seen = 0]

(***************************************************************************)
(* The two statuses are read one after the other and then compared.        *)
(***************************************************************************)
Watch ==
    /\ At("watch")
    /\ Checked(/\ check_state(sup.i, FALSE)
               /\ sup.i = 2 => 0 \in {sup.seen, rec[2].context}
                               \/ sup.seen = rec[2].context,
               IF sup.i = 1 THEN Seen("watch") ELSE Unseen("poll"))
    /\ UNCHANGED kernelAndWorld

(* An event that is not fatal: a failed write only adds an error. *)
Note(s) ==
    \/ sup' = s /\ disk' = Written(s)
    \/ sup' = [s EXCEPT !.errors = TRUE] /\ UNCHANGED disk

-----------------------------------------------------------------------------
(***************************************************************************)
(* The finally clause.  Close: the writer is closed, and a child that was  *)
(* not waited for is terminated.                                           *)
(***************************************************************************)
Close ==
    /\ At("close")
    /\ sup' = To(sup, IF sup.reaped THEN AfterWait(sup)
                      ELSE IF sup.forked THEN "term" ELSE "judge", 1)
    /\ UNCHANGED <<disk, kernelAndWorld>>

(***************************************************************************)
(* A decoder may catch SIGTERM; SIGKILL it cannot.                         *)
(***************************************************************************)
Signal ==
    LET killed == IF child.state \in {"blocked", "free"}
                  THEN [child EXCEPT !.state = "dying"] ELSE child
    IN  /\ \/ /\ At("term")
              /\ sup' = To(sup, "termwait", 1)
              /\ child' \in {child, killed}
              /\ child.state = "blocked" => child' = killed
           \/ /\ At("kill")
              /\ sup' = To(sup, "killwait", 1)
              /\ child' = killed
        /\ UNCHANGED <<kernelVars, next_context, foreign, disk>>

AwaitChild ==
    /\ At("termwait") \/ At("killwait")
    /\ \/ /\ child.state = "dead"
          /\ Note(To(Reaped(sup), AfterWait(sup), 1))
       \/ /\ child.state # "dead"
          /\ At("termwait")
          /\ sup' = To(sup, "kill", 1)
          /\ UNCHANGED disk
       \/ /\ child.state # "dead"
          /\ At("killwait")
          /\ Note(To([sup EXCEPT !.errors = TRUE], "judge", 1))
    /\ UNCHANGED kernelAndWorld

SealCheck ==
    /\ At("seal_check")
    /\ Checked(rec[sup.i].run = sup.run /\ opens[sup.i] = 0,
               To(sup, "seal", sup.i))
    /\ UNCHANGED kernelAndWorld

ControlSeal ==
    /\ At("seal")
    /\ control(sup.i, "seal", Event(sup, "snapshot", sup.i))
    /\ UNCHANGED <<opens, childVars, foreign>>

Snapshot ==
    /\ At("snapshot")
    /\ \/ /\ rec[sup.i].phase = "sealed"
          /\ disk' = [disk EXCEPT ![sup.run].snapshot[sup.i] = rec[sup.i]]
          /\ sup' = To(sup, "stored", sup.i)
       \/ Fails(sup)
    /\ UNCHANGED kernelAndWorld

SnapshotStored ==
    /\ At("stored")
    /\ Event(sup, "sealed", sup.i)
    /\ UNCHANGED kernelAndWorld

SealedStatus ==
    /\ At("sealed")
    /\ Checked(sealed_state(sup.i), Handled(sup))
    /\ UNCHANGED kernelAndWorld

Final ==
    /\ At("final")
    /\ \/ /\ ~sup.errors
          /\ Checked(/\ check_state(sup.i, TRUE)
                     /\ opens[sup.i] = 0
                     /\ sup.i = 2 /\ sup.enabled => sup.seen = rec[2].context,
                     IF sup.i = 1 THEN Seen("final") ELSE Unseen("judge"))
       \/ /\ sup.errors
          /\ sup' = To(sup, "judge", 1)
          /\ UNCHANGED disk
    /\ UNCHANGED kernelAndWorld

(* Mutant: a failed run is cleared as well. *)
JudgeLenient ==
    /\ At("judge")
    /\ sup' = To(sup, IF sup.reaped /\ sup.exit = 0 THEN "clear"
                      ELSE "complete", 1)
    /\ UNCHANGED <<disk, kernelAndWorld>>

Judge ==
    /\ At("judge")
    /\ \/ /\ ~sup.errors
          /\ Note(To([sup EXCEPT !.errors = TRUE], "complete", 1))
       \/ /\ sup' = To(sup, IF sup.reaped /\ sup.exit = 0 /\ ~sup.errors
                            THEN "clear" ELSE "complete", 1)
          /\ UNCHANGED disk
    /\ UNCHANGED kernelAndWorld

ControlOff ==
    /\ At("clear")
    /\ control(sup.i, "off", sup' = To(sup, "cleared", sup.i) /\ UNCHANGED disk)
    /\ UNCHANGED <<opens, childVars, foreign>>

Cleared ==
    LET next == Handled(sup)
    IN  /\ At("cleared")
        /\ \/ off_state(sup.i) /\ Event(sup, next.pc, next.i)
           \/ Fails(sup)
        /\ UNCHANGED kernelAndWorld

(* Mutant: main() returns the child's status whatever went wrong. *)
EndedRegardless(s) ==
    [Idle EXCEPT !.run = s.run, !.enabled = s.enabled, !.exit = s.exit]

(* What supervise() returns of its result. *)
Ended(s) ==
    [Idle EXCEPT !.run = s.run, !.enabled = s.enabled, !.errors = s.errors,
                 !.exit = s.exit]

Complete ==
    /\ At("complete")
    /\ \/ sup' = Ended(sup) /\ disk' = Written(sup)
       \/ sup' = Ended([sup EXCEPT !.errors = TRUE]) /\ UNCHANGED disk
    /\ UNCHANGED kernelAndWorld

-----------------------------------------------------------------------------
(***************************************************************************)
(* The end of the supervisor itself: hwguard and the outer tracer kill it  *)
(* when they run out of patience.                                          *)
(***************************************************************************)
SupervisorDies ==
    /\ ~At("idle")
    /\ sup' = Ended([sup EXCEPT !.errors = TRUE])
    /\ UNCHANGED <<disk, kernelAndWorld>>

SupervisorStep ==
    \/ Preflight \/ Fork \/ ArmAttempt \/ ControlArm \/ ArmedStatus
    \/ Release \/ Poll \/ PollLate \/ Watch
    \/ Close \/ Signal \/ AwaitChild
    \/ SealCheck \/ ControlSeal \/ Snapshot \/ SnapshotStored \/ SealedStatus
    \/ Final \/ Judge \/ ControlOff \/ Cleared \/ Complete

ChildStep ==
    \/ ChildOpens \/ ChildDecodes \/ ChildExits \/ ChildSticks \/ ChildWakes

(* What the kernel does for the child whether or not it asks. *)
KernelStep ==
    \/ HookStep \/ JobEnds \/ ChildCloses
    \/ ChildDies \/ ChildLoses

Next ==
    \/ \E enabled \in BOOLEAN : Begin(enabled)
    \/ SupervisorStep
    \/ SupervisorDies
    \/ ChildStep
    \/ KernelStep
    \/ \E n \in Rec : ForeignOpens(n) \/ ForeignCloses(n)

Spec == Init /\ [][Next]_vars

(***************************************************************************)
(* The deadline passes, and a poll notices; every call of the supervisor   *)
(* returns (sudo runs with a timeout); the device ends its jobs (AvdJob);  *)
(* the kernel finishes the hooks, and the exit of a process that is not in *)
(* uninterruptible sleep.  Nothing is assumed of the decoder or of the     *)
(* foreign client.                                                         *)
(***************************************************************************)
Fairness ==
    /\ WF_vars(SupervisorStep)
    /\ SF_vars(PollLate)
    /\ WF_vars(HookStep)
    /\ WF_vars(JobEnds)
    /\ WF_vars(child.state = "dying" /\ ChildCloses)
    /\ WF_vars(ChildDies)
    /\ WF_vars(ChildLoses)

FairSpec == Spec /\ Fairness

-----------------------------------------------------------------------------
Pc == {"idle", "preflight", "fork", "attempt", "arm", "armed", "release",
       "poll", "watch", "close", "term", "termwait", "kill", "killwait",
       "seal_check", "seal", "snapshot", "stored", "sealed", "final",
       "judge", "clear", "cleared", "complete"}

(* Type correctness. *)
TypeOK ==
    /\ rec \in [Rec -> Capture(Run, Run)]
    /\ opens \in [Rec -> Nat]
    /\ last_run \in [Rec -> Run \cup {0}]
    /\ child \in [state : {"none", "blocked", "free", "dying", "stuck",
                           "dead"},
                  pid : Run \cup {0}, exit : 0..NoExit, context : Nat,
                  op : InProgress \cup {"closed", "opened", "started"},
                  half : {1, 2}]
    /\ next_context \in Nat
    /\ foreign \subseteq Rec
    /\ sup \in [pc : Pc, i : {1, 2}, run : Run \cup {0}, enabled : BOOLEAN,
                errors : BOOLEAN, forked : BOOLEAN,
                reaped : BOOLEAN, exit : 0..NoExit, armed : 0..2,
                seen : Nat]
    /\ disk \in [Run -> [attempted : 0..2, reaped : BOOLEAN,
                         exit : 0..NoExit,
                         snapshot : [Rec -> Capture(Run, Run)]]]

Whole(c, run) ==
    /\ c.phase = "sealed"
    /\ c.errors = {}
    /\ c.run = run
    /\ c.pid = run
    /\ c.pictures = Pictures
    /\ c.completions = Pictures

(***************************************************************************)
(* What a run whose supervise() returned without an error and with exit    *)
(* status 0 leaves on disk: both captures, whole, of the same context, and *)
(* the waited status.                                                      *)
(***************************************************************************)
AcceptedIsComplete ==
    At("idle") /\ ~sup.errors /\ sup.exit = 0 =>
        LET d == disk[sup.run]
        IN  /\ d.reaped /\ d.exit = 0
            /\ sup.enabled =>
                  /\ \A n \in Rec : Whole(d.snapshot[n], sup.run)
                  /\ d.snapshot[1].context = d.snapshot[2].context

(***************************************************************************)
(* A recorder loses a capture only after the evidence is safe: its         *)
(* snapshot is on disk as it was in the kernel, it is whole, and the       *)
(* child's successful status is on disk too ("Clear only successful,       *)
(* durably preserved evidence").  So no later run and no failure, in       *)
(* whatever order the calls fail, throws away a failed capture.            *)
(***************************************************************************)
ClearedOnlyDurable ==
    [][\A n \in Rec :
          rec[n].phase # "off" /\ rec'[n].phase = "off" =>
              LET d == disk[rec[n].run]
              IN  /\ d.snapshot[n] = rec[n]
                  /\ Whole(rec[n], rec[n].run)
                  /\ d.reaped
                  /\ d.exit = 0]_vars

(***************************************************************************)
(* While a child of a traced run has the device open, both recorders       *)
(* record that child under its run: it is released only after both are     *)
(* armed, and neither is sealed, freed or armed for another before the     *)
(* child is gone, though supervisors fail, die and start anew.             *)
(***************************************************************************)
DecodesUnderCapture ==
    child.op # "closed" /\ disk[child.pid].attempted # 0 =>
        \A n \in Rec :
            /\ Recording(rec[n])
            /\ rec[n].run = child.pid
            /\ rec[n].pid = child.pid

(***************************************************************************)
(* supervise() returns: the polling ends by the deadline at the latest,    *)
(* and the clean-up waits a bounded time for the child.                    *)
(***************************************************************************)
Returns ==
    ~At("idle") ~> At("idle")

(***************************************************************************)
(* Every child ends, unless it sleeps uninterruptibly in the driver: by    *)
(* itself, by the signals of the clean-up, by the closed pipe, or by the   *)
(* parent-death signal when its supervisor is gone.                        *)
(***************************************************************************)
ChildEnds ==
    child.state \in {"blocked", "free"} ~> child.state \in {"dead", "stuck"}

=============================================================================
