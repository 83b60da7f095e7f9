------------------------------- MODULE AvdJob -------------------------------
(***************************************************************************)
(* The life of the one mem2mem job the Apple AVD decoder runs at a time,   *)
(* as patches 0005 and 0012 leave it: avd_device_run() and the codec's     *)
(* run, avd_submit_job(), the completion interrupt, the per-context        *)
(* watchdog (a delayed_work), avd_job_finish(), stream-off and release.    *)
(*                                                                         *)
(* Every critical section of avd_dev.job_lock is one atomic action; a      *)
(* process may stop for any time between two of them.  Processes are the   *)
(* threads that execute device_run (the QBUF caller or the mem2mem         *)
(* kworker), the interrupt handler, and one watchdog worker per context    *)
(* (the context itself names its worker).                                  *)
(*                                                                         *)
(* The interrupt may fire at any moment: completions that are early, late, *)
(* duplicated or left over from an older job are all interleavings of this *)
(* model, and the hardware may also never complete a job.  Buffer results  *)
(* and segment contents are data no property tells apart.                  *)
(***************************************************************************)
EXTENDS Naturals

CONSTANTS Ctx,      \* the open files of the device (struct avd_ctx)
          Thread,   \* the threads avd_device_run() may execute on
          Irq,      \* the completion interrupt handler
          NoCtx,    \* the NULL context pointer
          MaxSeq    \* bound on job_seq

ASSUME ProcAssumption == /\ Ctx \cap Thread = {}
                         /\ Irq \notin Ctx \cup Thread
                         /\ NoCtx \notin Ctx
ASSUME MaxSeqAssumption == MaxSeq \in Nat

Proc == Ctx \cup Thread \cup {Irq}

VARIABLES
  job_state,     \* avd_dev.job_state
  job_ctx,       \* avd_dev.job_ctx
  job_seq,       \* avd_dev.job_seq
  job_end_sent,  \* avd_dev.job_end_sent
  job_pending,   \* avd_dev.job_pending
  curr,          \* the context whose job mem2mem considers running
  file,          \* per context: "open", "closing" (inside release), "closed"
  segments,      \* per context: ctx->job.segments, 0 for NULL
  wd_seq,        \* per context: ctx->wd_seq
  timer,         \* per context: watchdog_work is pending
  tables,        \* the segment tables that are allocated
  pc,            \* per process: where it stands
  pctx,          \* per process: its ctx
  pseq,          \* per thread: avd_device_run()'s local seq
  walked,        \* per thread: avd_submit_job()'s local copy of the table
  wd_for         \* history: the job the pending and the running watchdog
                 \* of a context were armed for

dev == <<job_state, job_ctx, job_seq, job_end_sent, job_pending>>
ctxs == <<file, segments, wd_seq, timer, tables, wd_for>>
procs == <<pc, pctx, pseq, walked>>
vars == <<dev, curr, ctxs, procs>>

IDLE == "IDLE"
RUNNING == "RUNNING"
SUBMITTED == "SUBMITTED"
FINISHING == "FINISHING"

(***************************************************************************)
(* Where a process can stand.  "fin" is a call of avd_job_finish() before  *)
(* its critical section, "m2m" after it and before mem2mem has retired the *)
(* job; the Held variants are the same calls made inside ops->run for a    *)
(* held capture buffer, which return into avd_device_run().                *)
(***************************************************************************)
ThreadPC == {"idle", "pm", "build", "stream", "submit", "sent", "tail",
             "fin", "m2m", "finHeld", "m2mHeld", "tailHeld"}
IrqPC == {"idle", "irq", "cancel", "fin", "m2m"}
WatchdogPC == {"idle", "wd", "reset", "fin", "m2m"}

Init ==
  /\ job_state = IDLE /\ job_ctx = NoCtx /\ job_seq = 0
  /\ job_end_sent = FALSE /\ job_pending = FALSE
  /\ curr = NoCtx
  /\ file = [c \in Ctx |-> "open"]
  /\ segments = [c \in Ctx |-> 0]
  /\ wd_seq = [c \in Ctx |-> 0]
  /\ timer = [c \in Ctx |-> FALSE]
  /\ tables = {}
  /\ pc = [p \in Proc |-> "idle"]
  /\ pctx = [p \in Proc |-> IF p \in Ctx THEN p ELSE NoCtx]
  /\ pseq = [t \in Thread |-> 0]
  /\ walked = [t \in Thread |-> 0]
  /\ wd_for = [c \in Ctx |-> [pending |-> 0, running |-> 0]]

Goto(p, l) == pc' = [pc EXCEPT ![p] = l]

-----------------------------------------------------------------------------
(* avd_device_run() on thread t.                                           *)

(* mem2mem picks a ready context and calls device_run; one job at a time.  *)
M2mRun(t, c) ==
  /\ pc[t] = "idle" /\ curr = NoCtx /\ file[c] = "open" /\ job_seq < MaxSeq
  /\ curr' = c
  /\ pctx' = [pctx EXCEPT ![t] = c]
  /\ Goto(t, "pm")
  /\ UNCHANGED <<dev, ctxs, pseq, walked>>

(* The device could not be resumed: avd_job_finish_no_pm() and return.     *)
PmFails(t) ==
  /\ pc[t] = "pm"
  /\ Goto(t, "fin")
  /\ UNCHANGED <<dev, curr, ctxs, pctx, pseq, walked>>

(* The first critical section: the job is RUNNING under a fresh sequence   *)
(* number.  The early return of WARN_ON(!desc) before it is an assertion   *)
(* and left out: every open context has a coded format, and finishing its  *)
(* job dereferences it without a test.                                     *)
DeviceRun(t) ==
  /\ pc[t] = "pm"
  /\ job_seq' = job_seq + 1
  /\ pseq' = [pseq EXCEPT ![t] = job_seq + 1]
  /\ job_ctx' = pctx[t]
  /\ job_state' = RUNNING
  /\ job_end_sent' = FALSE
  /\ job_pending' = FALSE
  /\ Goto(t, "build")
  /\ UNCHANGED <<curr, ctxs, pctx, walked>>

(* Mutant: a table that was never submitted is replaced and not freed, as  *)
(* before patch 0012.                                                      *)
InitJobLeaks(t) ==
  LET c == pctx[t] IN
  /\ pc[t] = "build"
  /\ \/ /\ segments' = [segments EXCEPT ![c] = pseq[t]]
        /\ tables' = tables \cup {pseq[t]}
        /\ Goto(t, "stream")
     \/ /\ segments' = [segments EXCEPT ![c] = 0]
        /\ UNCHANGED tables
        /\ Goto(t, "fin")
  /\ UNCHANGED <<dev, curr, file, wd_seq, timer, wd_for, pctx, pseq, walked>>

(* avd_init_job(): the old table, if any, is freed and a new one is        *)
(* allocated; on failure the run returns -ENOMEM with no table.            *)
InitJob(t) ==
  LET c == pctx[t] IN
  /\ pc[t] = "build"
  /\ \/ /\ segments' = [segments EXCEPT ![c] = pseq[t]]
        /\ tables' = (tables \ {segments[c]}) \cup {pseq[t]}
        /\ Goto(t, "stream")
     \/ /\ segments' = [segments EXCEPT ![c] = 0]
        /\ tables' = tables \ {segments[c]}
        /\ Goto(t, "fin")
  /\ UNCHANGED <<dev, curr, file, wd_seq, timer, wd_for, pctx, pseq, walked>>

(* A later H.264 slice, is_new_frame() being false, calls no               *)
(* avd_init_job() and adds to the table of the frame's first slice.        *)
AppendSlice(t) ==
  /\ pc[t] = "build"
  /\ Goto(t, "stream")
  /\ UNCHANGED <<dev, curr, ctxs, pctx, pseq, walked>>

(* ops->run returns an error: a rejected slice, a failed allocation, too   *)
(* few entry points.  avd_job_finish(ERROR) and return.                    *)
RunFails(t) ==
  /\ pc[t] \in {"build", "stream"}
  /\ Goto(t, "fin")
  /\ UNCHANGED <<dev, curr, ctxs, pctx, pseq, walked>>

(* A slice whose capture buffer is held: the run finishes the job itself   *)
(* and leaves the table to the next slice.                                 *)
RunHolds(t) ==
  /\ pc[t] = "stream"
  /\ Goto(t, "finHeld")
  /\ UNCHANGED <<dev, curr, ctxs, pctx, pseq, walked>>

(* avd_submit_job() up to its loop: take a local copy of the table pointer,*)
(* or fail the run with -EINVAL when there is no table.                    *)
SubmitJob(t) ==
  LET c == pctx[t] IN
  /\ pc[t] = "stream"
  /\ walked' = [walked EXCEPT ![t] = segments[c]]
  /\ Goto(t, IF segments[c] = 0 THEN "fin" ELSE "submit")
  /\ UNCHANGED <<dev, curr, ctxs, pctx, pseq>>

(* The last segment is in the queue: job_end_sent, then the END command.   *)
SendEnd(t) ==
  /\ pc[t] = "submit"
  /\ job_end_sent' = TRUE
  /\ Goto(t, "sent")
  /\ UNCHANGED <<job_state, job_ctx, job_seq, job_pending, curr, ctxs, pctx, pseq, walked>>

(* avd_wait_submission_queue() gave up: the loop ends without END.         *)
QueueStuck(t) ==
  /\ pc[t] = "submit"
  /\ Goto(t, "sent")
  /\ UNCHANGED <<dev, curr, ctxs, pctx, pseq, walked>>

(* The end of avd_submit_job(): drop the context's pointer, if it still is *)
(* this table, and free the table.                                         *)
FreeTable(t) ==
  LET c == pctx[t] IN
  /\ pc[t] = "sent"
  /\ segments' = [segments EXCEPT ![c] = IF @ = walked[t] THEN 0 ELSE @]
  /\ tables' = tables \ {walked[t]}
  /\ walked' = [walked EXCEPT ![t] = 0]
  /\ Goto(t, "tail")
  /\ UNCHANGED <<dev, curr, file, wd_seq, timer, wd_for, pctx, pseq>>

(* Mutant: the job is handed to the hardware before its watchdog is armed, *)
(* and arming it is forgotten.                                             *)
RunReturnsUnarmed(t) ==
  /\ pc[t] \in {"tail", "tailHeld"}
  /\ job_state' = IF job_seq = pseq[t] /\ job_state = RUNNING THEN SUBMITTED ELSE job_state
  /\ Goto(t, "idle")
  /\ UNCHANGED <<job_ctx, job_seq, job_end_sent, job_pending, curr, ctxs, pctx, pseq, walked>>

(* The second critical section of avd_device_run().  A job that is still   *)
(* this run's and RUNNING is finished when its completion already came,    *)
(* and otherwise handed to the hardware with the watchdog armed            *)
(* (schedule_delayed_work() leaves a timer that is already pending alone). *)
RunReturns(t) ==
  LET c == pctx[t]
      mine == job_seq = pseq[t] /\ job_state = RUNNING
  IN
  /\ pc[t] \in {"tail", "tailHeld"}
  /\ \/ /\ mine /\ job_pending
        /\ job_state' = FINISHING
        /\ Goto(t, "fin")
        /\ UNCHANGED <<wd_seq, timer, wd_for>>
     \/ /\ mine /\ ~job_pending
        /\ job_state' = SUBMITTED
        /\ wd_seq' = [wd_seq EXCEPT ![c] = pseq[t]]
        /\ timer' = [timer EXCEPT ![c] = TRUE]
        /\ wd_for' = IF timer[c] THEN wd_for
                     ELSE [wd_for EXCEPT ![c].pending = pseq[t]]
        /\ Goto(t, "idle")
     \/ /\ ~mine
        /\ Goto(t, "idle")
        /\ UNCHANGED <<job_state, wd_seq, timer, wd_for>>
  /\ UNCHANGED <<job_ctx, job_seq, job_end_sent, job_pending, curr, file,
                 segments, tables, pctx, pseq, walked>>

-----------------------------------------------------------------------------
(* avd_job_finish(), called by process p for its context.                  *)

(* The critical section of avd_job_finish_no_pm().                         *)
JobFinish(p) ==
  /\ pc[p] \in {"fin", "finHeld"}
  /\ IF job_ctx = pctx[p]
     THEN /\ job_state' = IDLE /\ job_ctx' = NoCtx /\ job_pending' = FALSE
     ELSE UNCHANGED <<job_state, job_ctx, job_pending>>
  /\ Goto(p, IF pc[p] = "fin" THEN "m2m" ELSE "m2mHeld")
  /\ UNCHANGED <<job_seq, job_end_sent, curr, ctxs, pctx, pseq, walked>>

(* The job is given back to mem2mem, which ignores a call for a context    *)
(* that is not the current one.                                            *)
M2mFinish(p) ==
  /\ pc[p] \in {"m2m", "m2mHeld"}
  /\ curr' = IF curr = pctx[p] THEN NoCtx ELSE curr
  /\ Goto(p, IF pc[p] = "m2m" THEN "idle" ELSE "tailHeld")
  /\ UNCHANGED <<dev, ctxs, pctx, pseq, walked>>

-----------------------------------------------------------------------------
(* The completion interrupt.                                               *)

(* The handler reads the current context; with none there is nothing to do.*)
IrqEnter ==
  /\ pc[Irq] = "idle" /\ curr # NoCtx
  /\ pctx' = [pctx EXCEPT ![Irq] = curr]
  /\ Goto(Irq, "irq")
  /\ UNCHANGED <<dev, curr, ctxs, pseq, walked>>

(* Mutant: a completion finishes the job whatever its state, as before     *)
(* patch 0005.                                                             *)
IrqHandleAnyState ==
  LET finish == job_ctx = pctx[Irq] IN
  /\ pc[Irq] = "irq"
  /\ job_state' = IF finish THEN FINISHING ELSE job_state
  /\ Goto(Irq, IF finish THEN "cancel" ELSE "idle")
  /\ UNCHANGED <<job_ctx, job_seq, job_end_sent, job_pending, curr, ctxs, pctx, pseq, walked>>

(* The handler's critical section: finish a job the hardware owns,         *)
(* remember the completion of a job whose END went out, drop any other.    *)
IrqHandle ==
  LET own == job_ctx = pctx[Irq]
      finish == own /\ job_state = SUBMITTED
      early == own /\ job_state = RUNNING /\ job_end_sent
  IN
  /\ pc[Irq] = "irq"
  /\ job_state' = IF finish THEN FINISHING ELSE job_state
  /\ job_pending' = (job_pending \/ early)
  /\ Goto(Irq, IF finish THEN "cancel" ELSE "idle")
  /\ UNCHANGED <<job_ctx, job_seq, job_end_sent, curr, ctxs, pctx, pseq, walked>>

(* cancel_delayed_work(): a pending watchdog is dropped, a running one is  *)
(* not waited for.                                                         *)
IrqCancel ==
  /\ pc[Irq] = "cancel"
  /\ timer' = [timer EXCEPT ![pctx[Irq]] = FALSE]
  /\ Goto(Irq, "fin")
  /\ UNCHANGED <<dev, curr, file, segments, wd_seq, tables, wd_for, pctx, pseq, walked>>

-----------------------------------------------------------------------------
(* The watchdog of context c.                                              *)

(* The two seconds are over and the work starts; one instance at a time.   *)
WatchdogFires(c) ==
  /\ pc[c] = "idle" /\ timer[c]
  /\ timer' = [timer EXCEPT ![c] = FALSE]
  /\ wd_for' = [wd_for EXCEPT ![c].running = wd_for[c].pending]
  /\ Goto(c, "wd")
  /\ UNCHANGED <<dev, curr, file, segments, wd_seq, tables, pctx, pseq, walked>>

(* Mutant: the watchdog gives the hardware another two seconds, for ever.  *)
WatchdogRearms(c) ==
  /\ pc[c] = "wd"
  /\ timer' = [timer EXCEPT ![c] = TRUE]
  /\ Goto(c, "idle")
  /\ UNCHANGED <<dev, curr, file, segments, wd_seq, tables, wd_for, pctx, pseq, walked>>

(* Its critical section: claim the job, or find that it is not its own.    *)
WatchdogClaims(c) ==
  LET claimed == /\ job_ctx = c
                 /\ job_seq = wd_seq[c]
                 /\ job_state = SUBMITTED
  IN
  /\ pc[c] = "wd"
  /\ job_state' = IF claimed THEN FINISHING ELSE job_state
  /\ Goto(c, IF claimed THEN "reset" ELSE "idle")
  /\ UNCHANGED <<job_ctx, job_seq, job_end_sent, job_pending, curr, ctxs, pctx, pseq, walked>>

(* Mutant: after the reset the claimed job is given to the hardware again. *)
WatchdogRetries(c) ==
  /\ pc[c] = "reset"
  /\ job_state' = SUBMITTED
  /\ timer' = [timer EXCEPT ![c] = TRUE]
  /\ Goto(c, "idle")
  /\ UNCHANGED <<job_ctx, job_seq, job_end_sent, job_pending, curr, file,
                 segments, wd_seq, tables, wd_for, pctx, pseq, walked>>

(* Mask the mailbox interrupt and reset the hardware; then the job is      *)
(* finished with an error.                                                 *)
WatchdogResets(c) ==
  /\ pc[c] = "reset"
  /\ Goto(c, "fin")
  /\ UNCHANGED <<dev, curr, ctxs, pctx, pseq, walked>>

-----------------------------------------------------------------------------
(* Stream-off and release of context c: mem2mem first waits until the      *)
(* context's job is no longer running.                                     *)

(* avd_stop_streaming() on the OUTPUT queue drops a left-over table.       *)
StopStreaming(c) ==
  /\ file[c] = "open" /\ curr # c
  /\ segments' = [segments EXCEPT ![c] = 0]
  /\ tables' = tables \ {segments[c]}
  /\ UNCHANGED <<dev, curr, file, wd_seq, timer, wd_for, procs>>

(* avd_release(): v4l2_m2m_ctx_release() has waited for the job.           *)
Release(c) ==
  /\ file[c] = "open" /\ curr # c
  /\ file' = [file EXCEPT ![c] = "closing"]
  /\ UNCHANGED <<dev, curr, segments, wd_seq, timer, tables, wd_for, procs>>

(* Mutant: release frees the context without cancelling its watchdog.      *)
FreeCtxAtOnce(c) ==
  /\ file[c] = "closing"
  /\ tables' = tables \ {segments[c]}
  /\ segments' = [segments EXCEPT ![c] = 0]
  /\ file' = [file EXCEPT ![c] = "closed"]
  /\ UNCHANGED <<dev, curr, wd_seq, timer, wd_for, procs>>

(* cancel_delayed_work_sync() has waited for a running watchdog; the       *)
(* table and the context are freed.                                        *)
FreeCtx(c) ==
  /\ file[c] = "closing" /\ pc[c] = "idle"
  /\ timer' = [timer EXCEPT ![c] = FALSE]
  /\ tables' = tables \ {segments[c]}
  /\ segments' = [segments EXCEPT ![c] = 0]
  /\ file' = [file EXCEPT ![c] = "closed"]
  /\ UNCHANGED <<dev, curr, wd_seq, wd_for, procs>>

(* A new open() gets a zeroed context.                                     *)
Open(c) ==
  /\ file[c] = "closed"
  /\ file' = [file EXCEPT ![c] = "open"]
  /\ wd_seq' = [wd_seq EXCEPT ![c] = 0]
  /\ UNCHANGED <<dev, curr, segments, timer, tables, wd_for, procs>>

-----------------------------------------------------------------------------
ThreadStep(t) ==
  \/ PmFails(t) \/ DeviceRun(t)
  \/ InitJob(t) \/ AppendSlice(t) \/ RunFails(t) \/ RunHolds(t)
  \/ SubmitJob(t) \/ SendEnd(t) \/ QueueStuck(t) \/ FreeTable(t)
  \/ RunReturns(t)
FinishStep(p) == JobFinish(p) \/ M2mFinish(p)
IrqStep == IrqHandle \/ IrqCancel
WatchdogStep(c) == WatchdogFires(c) \/ WatchdogClaims(c) \/ WatchdogResets(c)
FileStep(c) == StopStreaming(c) \/ Release(c) \/ FreeCtx(c) \/ Open(c)

Next ==
  \/ \E t \in Thread : ThreadStep(t) \/ (\E c \in Ctx : M2mRun(t, c))
  \/ \E p \in Proc : FinishStep(p)
  \/ IrqEnter \/ IrqStep
  \/ \E c \in Ctx : WatchdogStep(c) \/ FileStep(c)

(* Started code runs on: threads, the handler and the worker are scheduled *)
(* and the timer of a pending delayed_work expires.  Nothing makes the     *)
(* hardware interrupt, mem2mem start a job, or a file be closed.           *)
Fairness ==
  /\ \A t \in Thread : WF_vars(ThreadStep(t))
  /\ \A p \in Proc : WF_vars(FinishStep(p))
  /\ WF_vars(IrqStep)
  /\ \A c \in Ctx : WF_vars(WatchdogStep(c))

Spec == Init /\ [][Next]_vars
FairSpec == Spec /\ Fairness

-----------------------------------------------------------------------------
(* A process that has work left to do on the current job.                  *)
Engaged(p) == pc[p] \notin {"idle", "irq", "wd", "tailHeld"}
(* A thread that is building or submitting its job.                        *)
InRun(t) == pc[t] \in {"build", "stream", "submit", "sent", "tail"}
Walking(t) == pc[t] \in {"submit", "sent"}

TypeOK ==
  /\ job_state \in {IDLE, RUNNING, SUBMITTED, FINISHING}
  /\ job_ctx \in Ctx \cup {NoCtx}
  /\ job_seq \in 0..MaxSeq
  /\ job_end_sent \in BOOLEAN
  /\ job_pending \in BOOLEAN
  /\ curr \in Ctx \cup {NoCtx}
  /\ file \in [Ctx -> {"open", "closing", "closed"}]
  /\ segments \in [Ctx -> Nat]
  /\ wd_seq \in [Ctx -> Nat]
  /\ timer \in [Ctx -> BOOLEAN]
  /\ tables \in SUBSET (Nat \ {0})
  /\ pc \in [Proc -> ThreadPC \cup IrqPC \cup WatchdogPC]
  /\ \A t \in Thread : pc[t] \in ThreadPC
  /\ pc[Irq] \in IrqPC
  /\ \A c \in Ctx : pc[c] \in WatchdogPC /\ pctx[c] = c
  /\ pctx \in [Proc -> Ctx \cup {NoCtx}]
  /\ pseq \in [Thread -> Nat]
  /\ walked \in [Thread -> Nat]
  /\ wd_for \in [Ctx -> [pending : Nat, running : Nat]]

(* At most one of the run, the interrupt handler and the watchdogs is      *)
(* about to finish a job, it is the job mem2mem is running, and that job   *)
(* is finished once: no call of v4l2_m2m_job_finish() comes for a job that *)
(* is not current.                                                         *)
OneOwner ==
  /\ \A p \in Proc : Engaged(p) => curr = pctx[p] /\ curr # NoCtx
  /\ \A p, q \in Proc : Engaged(p) /\ Engaged(q) => p = q

(* From the first critical section of avd_device_run() to the second the   *)
(* job stays that run's, RUNNING and current: no completion and no         *)
(* watchdog ends it, and mem2mem starts no other job on the same table.    *)
RunUndisturbed ==
  \A t \in Thread : InRun(t) => /\ job_state = RUNNING
                                /\ job_seq = pseq[t]
                                /\ job_ctx = pctx[t]
                                /\ curr = pctx[t]

(* A job that mem2mem considers running always has someone left to finish  *)
(* it: the run, the handler or a watchdog is at it, or the hardware owns   *)
(* it and its watchdog is pending or has just started.                     *)
NoOrphanJob ==
  curr # NoCtx => \/ \E p \in Proc : Engaged(p)
                  \/ /\ job_state = SUBMITTED
                     /\ job_ctx = curr
                     /\ wd_seq[curr] = job_seq
                     /\ timer[curr] \/ pc[curr] = "wd"

(* The table avd_submit_job() walks, and the one a context points to, are  *)
(* allocated, and two contexts never share one: nothing is read after, or  *)
(* freed twice by, avd_init_job(), stream-off, release or the submission.  *)
NoDanglingTable ==
  /\ \A t \in Thread : Walking(t) => /\ walked[t] \in tables
                                     /\ segments[pctx[t]] = walked[t]
  /\ \A c \in Ctx : segments[c] # 0 => segments[c] \in tables
  /\ \A c, d \in Ctx : segments[c] = segments[d] /\ segments[c] # 0 => c = d

(* Every allocated table is some context's: a frame that was started and   *)
(* never submitted does not leak it (patch 0012).                          *)
NoTableLeak == \A s \in tables : \E c \in Ctx : segments[c] = s

(* The tables avd_init_job() allocated are exactly the ones contexts point *)
(* to, one each: whatever a frame meets after it was started (a rejected   *)
(* slice, a failed allocation, stream-off, close, the submission), its     *)
(* table is neither used after it is freed nor left behind.                *)
TablesOwned == NoDanglingTable /\ NoTableLeak

(* Once release has freed a context no watchdog of it is pending or        *)
(* running and no process is finishing a job of it.                        *)
FreedCtxUnused ==
  \A c \in Ctx : file[c] = "closed" =>
    /\ ~timer[c] /\ pc[c] = "idle" /\ segments[c] = 0
    /\ \A p \in Proc : Engaged(p) => pctx[p] # c

(* The watchdog times out only the job it was armed for (the comment in    *)
(* avd_watchdog_func).  It does not hold: one that is already executing    *)
(* when its job completes claims the next job of its context.              *)
WatchdogOwnJob ==
  \A c \in Ctx : pc[c] = "reset" => wd_for[c].running = job_seq

(* Every job mem2mem starts is finished, even one whose completion never   *)
(* comes or came before its END command.                                   *)
JobsFinish == \A c \in Ctx : curr = c ~> curr # c

(***************************************************************************)
(* The abstract job: its owner is read off job_state, except that the      *)
(* state is IDLE before the first critical section of avd_device_run() and *)
(* again after the one of avd_job_finish_no_pm().                          *)
(***************************************************************************)
Retiring == \E p \in Proc : pc[p] \in {"m2m", "m2mHeld"}
Owner == IF curr = NoCtx THEN "none"
         ELSE IF Retiring \/ job_state = FINISHING THEN "finisher"
         ELSE IF job_state = SUBMITTED THEN "hardware"
         ELSE "driver"

Abs == INSTANCE AvdJobAbs WITH ctx <- curr, owner <- Owner

(* Every step of the run, the interrupt handler, the watchdog and release  *)
(* is a step of the abstract job or leaves it alone.                       *)
ImplementsAbs == Abs!Spec
=============================================================================
