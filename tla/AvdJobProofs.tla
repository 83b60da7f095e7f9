---------------------------- MODULE AvdJobProofs ----------------------------
(***************************************************************************)
(* Proofs about AvdJob, for any set of contexts and threads and any bound  *)
(* on the sequence number.  The safety properties are proved together:     *)
(* their conjunction with the three facts below is inductive (IInv).       *)
(* Which process may touch the job is not visible in job_state alone, so   *)
(* StateAgrees ties every program counter to the state it implies;         *)
(* HeldRunIsOver says why a run that finished its own job finds, in its    *)
(* second critical section, that the job is no longer its own; and         *)
(* TablesAreOld makes the table avd_init_job() allocates a new one.        *)
(***************************************************************************)
EXTENDS AvdJob, TLAPS

(* job_state, job_ctx and the current job agree with where every process   *)
(* stands.                                                                 *)
StateAgrees ==
  /\ job_ctx = NoCtx <=> job_state = IDLE
  /\ job_ctx # NoCtx => job_ctx = curr
  /\ curr # NoCtx => file[curr] = "open"
  /\ \A t \in Thread : pc[t] = "pm" => job_seq < MaxSeq
  /\ job_state = SUBMITTED => \A p \in Proc : ~Engaged(p)
  /\ \A p \in Proc : pc[p] \in {"cancel", "reset"} => job_state = FINISHING
  /\ \A p \in Proc : pc[p] \in {"pm", "m2m", "m2mHeld"} => job_state = IDLE
  /\ \A p \in Proc \ Thread : pc[p] = "fin" => job_state = FINISHING
  /\ \A t \in Thread : pc[t] = "finHeld" =>
       job_state = RUNNING /\ pseq[t] = job_seq

(* The job of a run that finished it itself is never RUNNING again.        *)
HeldRunIsOver ==
  \A t \in Thread : pc[t] \in {"m2mHeld", "tailHeld"} =>
    pseq[t] <= job_seq /\ (pseq[t] = job_seq => job_state # RUNNING)

(* A run that has not yet built its table will give it a new identity.     *)
TablesAreOld ==
  /\ \A s \in tables : s <= job_seq
  /\ \A t \in Thread : pc[t] = "build" => pseq[t] # 0 /\ pseq[t] \notin tables

(* The inductive invariant.                                                *)
IInv ==
  /\ TypeOK /\ OneOwner /\ RunUndisturbed
  /\ StateAgrees /\ HeldRunIsOver /\ NoOrphanJob
  /\ TablesAreOld /\ NoDanglingTable /\ NoTableLeak
  /\ FreedCtxUnused

-----------------------------------------------------------------------------

(* Preserved by mem2mem starting a job: it only does so when no process is *)
(* engaged.                                                                *)
LEMMA M2mRunKeeps ==
  ASSUME IInv, NEW t \in Thread, NEW c \in Ctx, M2mRun(t, c)
  PROVE  IInv'
<1> USE ProcAssumption, MaxSeqAssumption
    DEF IInv, M2mRun, dev, ctxs, procs, Goto, Proc,
        IDLE, RUNNING, SUBMITTED, FINISHING
<1>1. OneOwner'
  BY Zenon DEF TypeOK, OneOwner, Engaged
<1>2. RunUndisturbed'
  BY Zenon DEF TypeOK, OneOwner, RunUndisturbed, Engaged, InRun
<1>3. NoOrphanJob'
  BY Zenon DEF TypeOK, NoOrphanJob, Engaged
<1>4. FreedCtxUnused'
  BY DEF TypeOK, FreedCtxUnused, Engaged
<1>5. /\ TypeOK' /\ StateAgrees' /\ HeldRunIsOver'
      /\ TablesAreOld' /\ NoDanglingTable' /\ NoTableLeak'
  BY DEF TypeOK, StateAgrees, HeldRunIsOver, TablesAreOld, NoDanglingTable,
      NoTableLeak, ThreadPC, IrqPC, WatchdogPC, Engaged, Walking
<1>. QED  BY <1>1, <1>2, <1>3, <1>4, <1>5

(* Preserved by a failed resume: the thread is still the one owner.        *)
LEMMA PmFailsKeeps ==
  ASSUME IInv, NEW t \in Thread, PmFails(t)
  PROVE  IInv'
<1> USE ProcAssumption, MaxSeqAssumption
    DEF IInv, PmFails, dev, ctxs, procs, Goto, Proc,
        IDLE, RUNNING, SUBMITTED, FINISHING
<1>1. /\ TypeOK' /\ OneOwner' /\ RunUndisturbed'
      /\ StateAgrees' /\ HeldRunIsOver' /\ NoOrphanJob'
      /\ TablesAreOld' /\ NoDanglingTable' /\ NoTableLeak'
      /\ FreedCtxUnused'
  BY DEF TypeOK, OneOwner, RunUndisturbed, StateAgrees, HeldRunIsOver,
      NoOrphanJob, TablesAreOld, NoDanglingTable, NoTableLeak,
      FreedCtxUnused, ThreadPC, IrqPC, WatchdogPC, Engaged, InRun, Walking
<1>. QED  BY <1>1

(* Preserved by the first critical section of avd_device_run(): the new    *)
(* job is this run's.                                                      *)
LEMMA DeviceRunKeeps ==
  ASSUME IInv, NEW t \in Thread, DeviceRun(t)
  PROVE  IInv'
<1> USE ProcAssumption, MaxSeqAssumption
    DEF IInv, DeviceRun, dev, ctxs, procs, Goto, Proc,
        IDLE, RUNNING, SUBMITTED, FINISHING
<1>1. job_seq' \in 0..MaxSeq /\ job_seq + 1 \in Nat /\ pctx[t] \in Ctx
  BY SMTT(30) DEF TypeOK, StateAgrees, OneOwner, Engaged
<1>2. TypeOK'
  BY Zenon, <1>1 DEF TypeOK, ThreadPC, IrqPC, WatchdogPC, OneOwner
<1>3. RunUndisturbed'
  BY DEF TypeOK, OneOwner, RunUndisturbed, Engaged, InRun
<1>4. StateAgrees'
  BY ZenonT(60) DEF TypeOK, OneOwner, StateAgrees, Engaged
<1>5. HeldRunIsOver'
  BY DEF TypeOK, HeldRunIsOver
<1>6. TablesAreOld'
  BY DEF TypeOK, TablesAreOld
<1>7. /\ OneOwner' /\ NoOrphanJob' /\ NoDanglingTable'
      /\ NoTableLeak' /\ FreedCtxUnused'
  BY DEF OneOwner, NoOrphanJob, NoDanglingTable, NoTableLeak, FreedCtxUnused,
      Engaged, Walking
<1>. QED  BY <1>2, <1>3, <1>4, <1>5, <1>6, <1>7

(* Preserved by avd_init_job(): one table goes, and a new one comes unless *)
(* the allocation fails.                                                   *)
LEMMA InitJobKeeps ==
  ASSUME IInv, NEW t \in Thread, InitJob(t)
  PROVE  IInv'
<1> USE ProcAssumption, MaxSeqAssumption
    DEF IInv, InitJob, dev, ctxs, procs, Goto, Proc,
        IDLE, RUNNING, SUBMITTED, FINISHING
<1>1. /\ pctx[t] \in Ctx /\ curr = pctx[t] /\ pseq[t] = job_seq
      /\ pseq[t] \in Nat \ {0} /\ pseq[t] \notin tables
  BY ZenonT(60) DEF TypeOK, OneOwner, RunUndisturbed, TablesAreOld, Engaged,
     InRun
<1>2. CASE /\ segments' = [segments EXCEPT ![pctx[t]] = pseq[t]]
            /\ tables' = (tables \ {segments[pctx[t]]}) \cup {pseq[t]}
            /\ pc' = [pc EXCEPT ![t] = "stream"]
  <2>1. TablesAreOld'
    BY SMTT(30), <1>1, <1>2 DEF TypeOK, OneOwner, RunUndisturbed, TablesAreOld,
        Engaged, InRun
  <2>2. NoDanglingTable'
    BY SMTT(30), <1>1, <1>2 DEF TypeOK, OneOwner, RunUndisturbed, StateAgrees,
        NoDanglingTable, Engaged, InRun, Walking
  <2>3. NoTableLeak'
    BY ZenonT(60), <1>1, <1>2 DEF TypeOK, NoTableLeak
  <2>4. /\ TypeOK' /\ OneOwner' /\ RunUndisturbed'
        /\ StateAgrees' /\ HeldRunIsOver' /\ NoOrphanJob'
        /\ FreedCtxUnused'
    BY SMTT(30), <1>1, <1>2 DEF TypeOK, OneOwner, RunUndisturbed, StateAgrees,
        HeldRunIsOver, NoOrphanJob, FreedCtxUnused, ThreadPC, IrqPC,
        WatchdogPC, Engaged, InRun
  <2>. QED  BY <2>1, <2>2, <2>3, <2>4
<1>3. CASE /\ segments' = [segments EXCEPT ![pctx[t]] = 0]
            /\ tables' = tables \ {segments[pctx[t]]}
            /\ pc' = [pc EXCEPT ![t] = "fin"]
  <2>1. \A u \in Thread : ~Walking(u)'
    BY SMTT(30), <1>1, <1>3 DEF TypeOK, OneOwner, Engaged, Walking
  <2>2. \A c \in Ctx : segments'[c] # 0 =>
          c # pctx[t] /\ segments'[c] = segments[c]
    BY Zenon, <1>1, <1>3 DEF TypeOK
  <2>3. \A c \in Ctx : segments'[c] # 0 => segments'[c] \in tables'
    BY ZenonT(60), <1>1, <1>3, <2>2 DEF NoDanglingTable
  <2>4. NoDanglingTable'
    BY ZenonT(60), <2>1, <2>2, <2>3 DEF NoDanglingTable, OneOwner
  <2>5. /\ TypeOK' /\ OneOwner' /\ RunUndisturbed'
        /\ StateAgrees' /\ HeldRunIsOver' /\ NoOrphanJob'
        /\ TablesAreOld' /\ NoTableLeak' /\ FreedCtxUnused'
    BY SMTT(30), <1>1, <1>3 DEF TypeOK, OneOwner, RunUndisturbed, StateAgrees,
        HeldRunIsOver, NoOrphanJob, TablesAreOld, NoTableLeak,
        FreedCtxUnused, ThreadPC, IrqPC, WatchdogPC, Engaged, InRun
  <2>. QED  BY <2>4, <2>5
<1>. QED  BY <1>2, <1>3

(* Preserved by a later slice of a frame: only the thread moves.           *)
LEMMA AppendSliceKeeps ==
  ASSUME IInv, NEW t \in Thread, AppendSlice(t)
  PROVE  IInv'
<1> USE ProcAssumption, MaxSeqAssumption
    DEF IInv, AppendSlice, dev, ctxs, procs, Goto, Proc,
        IDLE, RUNNING, SUBMITTED, FINISHING
<1>1. /\ TypeOK' /\ OneOwner' /\ RunUndisturbed'
      /\ StateAgrees' /\ HeldRunIsOver' /\ NoOrphanJob'
      /\ TablesAreOld' /\ NoDanglingTable' /\ NoTableLeak'
      /\ FreedCtxUnused'
  BY DEF TypeOK, OneOwner, RunUndisturbed, StateAgrees, HeldRunIsOver,
      NoOrphanJob, TablesAreOld, NoDanglingTable, NoTableLeak,
      FreedCtxUnused, ThreadPC, IrqPC, WatchdogPC, Engaged, InRun, Walking
<1>. QED  BY <1>1

(* Preserved by a failing ops->run: only the thread moves.                 *)
LEMMA RunFailsKeeps ==
  ASSUME IInv, NEW t \in Thread, RunFails(t)
  PROVE  IInv'
<1> USE ProcAssumption, MaxSeqAssumption
    DEF IInv, RunFails, dev, ctxs, procs, Goto, Proc,
        IDLE, RUNNING, SUBMITTED, FINISHING
<1>1. /\ TypeOK' /\ OneOwner' /\ RunUndisturbed'
      /\ StateAgrees' /\ HeldRunIsOver' /\ NoOrphanJob'
      /\ TablesAreOld' /\ NoDanglingTable' /\ NoTableLeak'
      /\ FreedCtxUnused'
  BY DEF TypeOK, OneOwner, RunUndisturbed, StateAgrees, HeldRunIsOver,
      NoOrphanJob, TablesAreOld, NoDanglingTable, NoTableLeak,
      FreedCtxUnused, ThreadPC, IrqPC, WatchdogPC, Engaged, InRun, Walking
<1>. QED  BY <1>1

(* Preserved by the run of a held capture buffer starting to finish its    *)
(* job.                                                                    *)
LEMMA RunHoldsKeeps ==
  ASSUME IInv, NEW t \in Thread, RunHolds(t)
  PROVE  IInv'
<1> USE ProcAssumption, MaxSeqAssumption
    DEF IInv, RunHolds, dev, ctxs, procs, Goto, Proc,
        IDLE, RUNNING, SUBMITTED, FINISHING
<1>1. StateAgrees'
  BY ZenonT(60) DEF TypeOK, OneOwner, RunUndisturbed, StateAgrees, Engaged, InRun
<1>2. /\ TypeOK' /\ OneOwner' /\ RunUndisturbed'
      /\ HeldRunIsOver' /\ NoOrphanJob' /\ TablesAreOld'
      /\ NoDanglingTable' /\ NoTableLeak' /\ FreedCtxUnused'
  BY SMTT(30) DEF TypeOK, OneOwner, RunUndisturbed, HeldRunIsOver, NoOrphanJob,
      TablesAreOld, NoDanglingTable, NoTableLeak, FreedCtxUnused, ThreadPC,
      IrqPC, WatchdogPC, Engaged, InRun, Walking
<1>. QED  BY <1>1, <1>2

(* Preserved by avd_submit_job() taking its local copy of the table.       *)
LEMMA SubmitJobKeeps ==
  ASSUME IInv, NEW t \in Thread, SubmitJob(t)
  PROVE  IInv'
<1> USE ProcAssumption, MaxSeqAssumption
    DEF IInv, SubmitJob, dev, ctxs, procs, Goto, Proc,
        IDLE, RUNNING, SUBMITTED, FINISHING
<1>1. TypeOK'
  BY DEF TypeOK, OneOwner, ThreadPC, IrqPC, WatchdogPC, Engaged
<1>2. NoDanglingTable'
  BY DEF TypeOK, OneOwner, NoDanglingTable, Engaged, Walking
<1>3. /\ OneOwner' /\ RunUndisturbed' /\ StateAgrees'
      /\ HeldRunIsOver' /\ NoOrphanJob' /\ TablesAreOld'
      /\ NoTableLeak' /\ FreedCtxUnused'
  BY DEF OneOwner, RunUndisturbed, StateAgrees, HeldRunIsOver, NoOrphanJob,
      TablesAreOld, NoTableLeak, FreedCtxUnused, Engaged, InRun
<1>. QED  BY <1>1, <1>2, <1>3

(* Preserved by the END command: job_end_sent is set for the running job.  *)
LEMMA SendEndKeeps ==
  ASSUME IInv, NEW t \in Thread, SendEnd(t)
  PROVE  IInv'
<1> USE ProcAssumption, MaxSeqAssumption
    DEF IInv, SendEnd, dev, ctxs, procs, Goto, Proc,
        IDLE, RUNNING, SUBMITTED, FINISHING
<1>1. /\ TypeOK' /\ OneOwner' /\ RunUndisturbed'
      /\ StateAgrees' /\ HeldRunIsOver' /\ NoOrphanJob'
      /\ TablesAreOld' /\ NoDanglingTable' /\ NoTableLeak'
      /\ FreedCtxUnused'
  BY DEF TypeOK, OneOwner, RunUndisturbed, StateAgrees, HeldRunIsOver,
      NoOrphanJob, TablesAreOld, NoDanglingTable, NoTableLeak,
      FreedCtxUnused, ThreadPC, IrqPC, WatchdogPC, Engaged, InRun, Walking
<1>. QED  BY SMTT(30), <1>1

(* Preserved by a submission queue that stays full: only the thread moves. *)
LEMMA QueueStuckKeeps ==
  ASSUME IInv, NEW t \in Thread, QueueStuck(t)
  PROVE  IInv'
<1> USE ProcAssumption, MaxSeqAssumption
    DEF IInv, QueueStuck, dev, ctxs, procs, Goto, Proc,
        IDLE, RUNNING, SUBMITTED, FINISHING
<1>1. /\ TypeOK' /\ OneOwner' /\ RunUndisturbed'
      /\ StateAgrees' /\ HeldRunIsOver' /\ NoOrphanJob'
      /\ TablesAreOld' /\ NoDanglingTable' /\ NoTableLeak'
      /\ FreedCtxUnused'
  BY DEF TypeOK, OneOwner, RunUndisturbed, StateAgrees, HeldRunIsOver,
      NoOrphanJob, TablesAreOld, NoDanglingTable, NoTableLeak,
      FreedCtxUnused, ThreadPC, IrqPC, WatchdogPC, Engaged, InRun, Walking
<1>. QED  BY SMTT(30), <1>1

(* Preserved by the end of avd_submit_job(): the walked table was the      *)
(* context's.                                                              *)
LEMMA FreeTableKeeps ==
  ASSUME IInv, NEW t \in Thread, FreeTable(t)
  PROVE  IInv'
<1> USE ProcAssumption, MaxSeqAssumption
    DEF IInv, FreeTable, dev, ctxs, procs, Goto, Proc,
        IDLE, RUNNING, SUBMITTED, FINISHING
<1>1. TypeOK'
  BY ZenonT(60) DEF TypeOK, ThreadPC, IrqPC, WatchdogPC
<1>2. NoDanglingTable'
  BY DEF TypeOK, OneOwner, StateAgrees, NoDanglingTable, Engaged, Walking
<1>3. NoTableLeak'
  BY DEF NoTableLeak
<1>4. /\ OneOwner' /\ RunUndisturbed' /\ StateAgrees'
      /\ HeldRunIsOver' /\ NoOrphanJob' /\ TablesAreOld'
      /\ FreedCtxUnused'
  BY DEF OneOwner, RunUndisturbed, StateAgrees, HeldRunIsOver, NoOrphanJob,
      TablesAreOld, FreedCtxUnused, Engaged, InRun
<1>. QED  BY <1>1, <1>2, <1>3, <1>4

(* Preserved by the second critical section of avd_device_run(), by its    *)
(* three outcomes.                                                         *)
LEMMA RunReturnsKeeps ==
  ASSUME IInv, NEW t \in Thread, RunReturns(t)
  PROVE  IInv'
<1> USE ProcAssumption, MaxSeqAssumption
    DEF IInv, RunReturns, dev, ctxs, procs, Goto, Proc,
        IDLE, RUNNING, SUBMITTED, FINISHING
<1>1. CASE pc[t] = "tail" /\ job_pending
  <2>0. /\ job_seq = pseq[t] /\ job_state = RUNNING
        /\ job_ctx = pctx[t] /\ curr = pctx[t] /\ pctx[t] \in Ctx
        /\ job_state' = FINISHING /\ pc' = [pc EXCEPT ![t] = "fin"]
        /\ UNCHANGED <<wd_seq, timer, wd_for>>
    BY ZenonT(60), <1>1 DEF TypeOK, OneOwner, RunUndisturbed, InRun, Engaged
  <2>1. TypeOK'
    BY Zenon, <1>1, <2>0 DEF TypeOK, ThreadPC, IrqPC, WatchdogPC
  <2>2. RunUndisturbed'
    BY ZenonT(60), <1>1, <2>0 DEF TypeOK, OneOwner, RunUndisturbed, Engaged,
       InRun
  <2>3. StateAgrees'
    BY Zenon, <1>1, <2>0 DEF TypeOK, OneOwner, StateAgrees, Engaged
  <2>4. NoTableLeak'
    BY Zenon, <1>1, <2>0 DEF NoTableLeak
  <2>5. /\ OneOwner' /\ HeldRunIsOver' /\ NoOrphanJob'
        /\ TablesAreOld' /\ NoDanglingTable' /\ FreedCtxUnused'
    BY <1>1, <2>0 DEF OneOwner, HeldRunIsOver, NoOrphanJob, TablesAreOld,
        NoDanglingTable, FreedCtxUnused, Engaged, Walking
  <2>. QED  BY <2>1, <2>2, <2>3, <2>4, <2>5
<1>2. CASE pc[t] = "tail" /\ ~job_pending
  <2>0. /\ job_seq = pseq[t] /\ job_state = RUNNING
        /\ job_ctx = pctx[t] /\ curr = pctx[t] /\ pctx[t] \in Ctx
        /\ job_state' = SUBMITTED /\ pc' = [pc EXCEPT ![t] = "idle"]
        /\ wd_seq' = [wd_seq EXCEPT ![pctx[t]] = pseq[t]]
        /\ timer' = [timer EXCEPT ![pctx[t]] = TRUE]
        /\ wd_for' = IF timer[pctx[t]] THEN wd_for
                     ELSE [wd_for EXCEPT ![pctx[t]].pending = pseq[t]]
    BY ZenonT(60), <1>2 DEF TypeOK, OneOwner, RunUndisturbed, InRun, Engaged
  <2>1. TypeOK'
    BY <1>2, <2>0 DEF TypeOK, ThreadPC, IrqPC, WatchdogPC
  <2>2. RunUndisturbed'
    BY Zenon, <1>2, <2>0 DEF TypeOK, OneOwner, RunUndisturbed, Engaged, InRun
  <2>3. StateAgrees'
    BY Zenon, <1>2, <2>0 DEF TypeOK, OneOwner, StateAgrees, Engaged
  <2>4. NoOrphanJob'
    BY ZenonT(60), <1>2, <2>0 DEF TypeOK, NoOrphanJob, Engaged
  <2>5. NoTableLeak'
    BY Zenon, <1>2, <2>0 DEF NoTableLeak
  <2>6. /\ OneOwner' /\ HeldRunIsOver' /\ TablesAreOld'
        /\ NoDanglingTable' /\ FreedCtxUnused'
    BY <1>2, <2>0 DEF OneOwner, HeldRunIsOver, TablesAreOld, NoDanglingTable,
        FreedCtxUnused, Engaged, Walking
  <2>. QED  BY <2>1, <2>2, <2>3, <2>4, <2>5, <2>6
<1>3. CASE pc[t] = "tailHeld"
  <2>0. /\ pc' = [pc EXCEPT ![t] = "idle"]
        /\ UNCHANGED <<job_state, wd_seq, timer, wd_for>>
    BY Zenon, <1>3 DEF HeldRunIsOver
  <2>1. TypeOK'
    BY ZenonT(60), <1>3, <2>0 DEF TypeOK, ThreadPC, IrqPC, WatchdogPC
  <2>2. NoTableLeak'
    BY Zenon, <1>3, <2>0 DEF NoTableLeak
  <2>3. /\ OneOwner' /\ RunUndisturbed' /\ StateAgrees'
        /\ HeldRunIsOver' /\ NoOrphanJob' /\ TablesAreOld'
        /\ NoDanglingTable' /\ FreedCtxUnused'
    BY SMTT(30), <1>3, <2>0 DEF OneOwner, RunUndisturbed, StateAgrees,
       HeldRunIsOver,
        NoOrphanJob, TablesAreOld, NoDanglingTable, FreedCtxUnused, Engaged,
        InRun, Walking
  <2>. QED  BY <2>1, <2>2, <2>3
<1>. QED  BY <1>1, <1>2, <1>3

(* Preserved by the critical section of avd_job_finish_no_pm(): its caller *)
(* was the one owner.                                                      *)
LEMMA JobFinishKeeps ==
  ASSUME IInv, NEW p \in Proc, JobFinish(p)
  PROVE  IInv'
<1> USE ProcAssumption, MaxSeqAssumption
    DEF IInv, JobFinish, dev, ctxs, procs, Goto, Proc,
        IDLE, RUNNING, SUBMITTED, FINISHING
<1>1. TypeOK'
  BY ZenonT(60) DEF TypeOK, ThreadPC, IrqPC, WatchdogPC
<1>2. RunUndisturbed'
  BY Zenon DEF TypeOK, OneOwner, RunUndisturbed, Engaged, InRun
<1>3. StateAgrees'
  BY ZenonT(60) DEF TypeOK, OneOwner, StateAgrees, Engaged
<1>4. HeldRunIsOver'
  BY DEF TypeOK, OneOwner, StateAgrees, HeldRunIsOver, Engaged
<1>5. NoTableLeak'
  BY Zenon DEF NoTableLeak
<1>6. /\ OneOwner' /\ NoOrphanJob' /\ TablesAreOld'
      /\ NoDanglingTable' /\ FreedCtxUnused'
  BY SMTT(30) DEF OneOwner, NoOrphanJob, TablesAreOld, NoDanglingTable,
      FreedCtxUnused, Engaged, Walking
<1>. QED  BY <1>1, <1>2, <1>3, <1>4, <1>5, <1>6

(* Preserved by mem2mem retiring the job: nobody is engaged any more.      *)
LEMMA M2mFinishKeeps ==
  ASSUME IInv, NEW p \in Proc, M2mFinish(p)
  PROVE  IInv'
<1> USE ProcAssumption, MaxSeqAssumption
    DEF IInv, M2mFinish, dev, ctxs, procs, Goto, Proc,
        IDLE, RUNNING, SUBMITTED, FINISHING
<1>1. OneOwner'
  BY Zenon DEF TypeOK, OneOwner, Engaged
<1>2. RunUndisturbed'
  BY Zenon DEF TypeOK, OneOwner, RunUndisturbed, Engaged, InRun
<1>3. NoOrphanJob'
  BY Zenon DEF TypeOK, OneOwner, NoOrphanJob, Engaged
<1>4. /\ TypeOK' /\ StateAgrees' /\ HeldRunIsOver'
      /\ TablesAreOld' /\ NoDanglingTable' /\ NoTableLeak'
      /\ FreedCtxUnused'
  BY DEF TypeOK, StateAgrees, HeldRunIsOver, TablesAreOld, NoDanglingTable,
      NoTableLeak, FreedCtxUnused, ThreadPC, IrqPC, WatchdogPC, Engaged,
      Walking
<1>. QED  BY <1>1, <1>2, <1>3, <1>4

(* Preserved by the interrupt handler reading the current context.         *)
LEMMA IrqEnterKeeps ==
  ASSUME IInv, IrqEnter
  PROVE  IInv'
<1> USE ProcAssumption, MaxSeqAssumption
    DEF IInv, IrqEnter, dev, ctxs, procs, Goto, Proc,
        IDLE, RUNNING, SUBMITTED, FINISHING
<1>1. /\ TypeOK' /\ OneOwner' /\ RunUndisturbed'
      /\ StateAgrees' /\ HeldRunIsOver' /\ NoOrphanJob'
      /\ TablesAreOld' /\ NoDanglingTable' /\ NoTableLeak'
      /\ FreedCtxUnused'
  BY DEF TypeOK, OneOwner, RunUndisturbed, StateAgrees, HeldRunIsOver,
      NoOrphanJob, TablesAreOld, NoDanglingTable, NoTableLeak,
      FreedCtxUnused, ThreadPC, IrqPC, WatchdogPC, Engaged, InRun, Walking
<1>. QED  BY SMTT(30), <1>1

(* Preserved by the handler's critical section: it becomes the owner only  *)
(* of a job nobody else owns.                                              *)
LEMMA IrqHandleKeeps ==
  ASSUME IInv, IrqHandle
  PROVE  IInv'
<1> USE ProcAssumption, MaxSeqAssumption
    DEF IInv, IrqHandle, dev, ctxs, procs, Goto, Proc,
        IDLE, RUNNING, SUBMITTED, FINISHING
<1>1. OneOwner'
  BY Zenon DEF TypeOK, OneOwner, StateAgrees, Engaged
<1>2. NoOrphanJob'
  BY Zenon DEF TypeOK, NoOrphanJob, Engaged
<1>3. FreedCtxUnused'
  BY SMTT(30) DEF TypeOK, StateAgrees, FreedCtxUnused, Engaged
<1>4. /\ TypeOK' /\ RunUndisturbed' /\ StateAgrees'
      /\ HeldRunIsOver' /\ TablesAreOld' /\ NoDanglingTable'
      /\ NoTableLeak'
  BY DEF TypeOK, RunUndisturbed, StateAgrees, HeldRunIsOver, TablesAreOld,
      NoDanglingTable, NoTableLeak, ThreadPC, IrqPC, WatchdogPC, InRun,
      Engaged, Walking
<1>. QED  BY <1>1, <1>2, <1>3, <1>4

(* Preserved by cancel_delayed_work() in the handler, which owns the job   *)
(* by then.                                                                *)
LEMMA IrqCancelKeeps ==
  ASSUME IInv, IrqCancel
  PROVE  IInv'
<1> USE ProcAssumption, MaxSeqAssumption
    DEF IInv, IrqCancel, dev, ctxs, procs, Goto, Proc,
        IDLE, RUNNING, SUBMITTED, FINISHING
<1>1. /\ TypeOK' /\ OneOwner' /\ RunUndisturbed'
      /\ StateAgrees' /\ HeldRunIsOver' /\ NoOrphanJob'
      /\ TablesAreOld' /\ NoDanglingTable' /\ NoTableLeak'
      /\ FreedCtxUnused'
  BY DEF TypeOK, OneOwner, RunUndisturbed, StateAgrees, HeldRunIsOver,
      NoOrphanJob, TablesAreOld, NoDanglingTable, NoTableLeak,
      FreedCtxUnused, ThreadPC, IrqPC, WatchdogPC, Engaged, InRun, Walking
<1>. QED  BY SMTT(30), <1>1

(* Preserved by a watchdog starting: the job it covers stays covered.      *)
LEMMA WatchdogFiresKeeps ==
  ASSUME IInv, NEW c \in Ctx, WatchdogFires(c)
  PROVE  IInv'
<1> USE ProcAssumption, MaxSeqAssumption
    DEF IInv, WatchdogFires, dev, ctxs, procs, Goto, Proc,
        IDLE, RUNNING, SUBMITTED, FINISHING
<1>1. NoOrphanJob'
  BY ZenonT(60) DEF TypeOK, NoOrphanJob, Engaged
<1>2. /\ TypeOK' /\ OneOwner' /\ RunUndisturbed'
      /\ StateAgrees' /\ HeldRunIsOver' /\ TablesAreOld'
      /\ NoDanglingTable' /\ NoTableLeak' /\ FreedCtxUnused'
  BY DEF TypeOK, OneOwner, RunUndisturbed, StateAgrees, HeldRunIsOver,
      TablesAreOld, NoDanglingTable, NoTableLeak, FreedCtxUnused, ThreadPC,
      IrqPC, WatchdogPC, Engaged, InRun, Walking
<1>. QED  BY <1>1, <1>2

(* Preserved by the watchdog's critical section: a submitted job passes to *)
(* it.                                                                     *)
LEMMA WatchdogClaimsKeeps ==
  ASSUME IInv, NEW c \in Ctx, WatchdogClaims(c)
  PROVE  IInv'
<1> USE ProcAssumption, MaxSeqAssumption
    DEF IInv, WatchdogClaims, dev, ctxs, procs, Goto, Proc,
        IDLE, RUNNING, SUBMITTED, FINISHING
<1>1. OneOwner'
  BY DEF TypeOK, OneOwner, StateAgrees, Engaged
<1>2. NoOrphanJob'
  BY Zenon DEF TypeOK, NoOrphanJob, Engaged
<1>3. FreedCtxUnused'
  BY ZenonT(60) DEF TypeOK, FreedCtxUnused, Engaged
<1>4. /\ TypeOK' /\ RunUndisturbed' /\ StateAgrees'
      /\ HeldRunIsOver' /\ TablesAreOld' /\ NoDanglingTable'
      /\ NoTableLeak'
  BY SMTT(30) DEF TypeOK, RunUndisturbed, StateAgrees, HeldRunIsOver,
      TablesAreOld,
      NoDanglingTable, NoTableLeak, ThreadPC, IrqPC, WatchdogPC, InRun,
      Engaged, Walking
<1>. QED  BY <1>1, <1>2, <1>3, <1>4

(* Preserved by the hardware reset: only the watchdog moves.               *)
LEMMA WatchdogResetsKeeps ==
  ASSUME IInv, NEW c \in Ctx, WatchdogResets(c)
  PROVE  IInv'
<1> USE ProcAssumption, MaxSeqAssumption
    DEF IInv, WatchdogResets, dev, ctxs, procs, Goto, Proc,
        IDLE, RUNNING, SUBMITTED, FINISHING
<1>1. /\ TypeOK' /\ OneOwner' /\ RunUndisturbed'
      /\ StateAgrees' /\ HeldRunIsOver' /\ NoOrphanJob'
      /\ TablesAreOld' /\ NoDanglingTable' /\ NoTableLeak'
      /\ FreedCtxUnused'
  BY SMTT(30) DEF TypeOK, OneOwner, RunUndisturbed, StateAgrees, HeldRunIsOver,
      NoOrphanJob, TablesAreOld, NoDanglingTable, NoTableLeak,
      FreedCtxUnused, ThreadPC, IrqPC, WatchdogPC, Engaged, InRun, Walking
<1>. QED  BY SMTT(30), <1>1

(* Preserved by stream-off: the table it frees belongs to a context that   *)
(* is not running.                                                         *)
LEMMA StopStreamingKeeps ==
  ASSUME IInv, NEW c \in Ctx, StopStreaming(c)
  PROVE  IInv'
<1> USE ProcAssumption, MaxSeqAssumption
    DEF IInv, StopStreaming, dev, ctxs, procs, Goto, Proc,
        IDLE, RUNNING, SUBMITTED, FINISHING
<1>1. TypeOK'
  BY Zenon DEF TypeOK, ThreadPC, IrqPC, WatchdogPC
<1>2. NoDanglingTable'
  BY SMTT(30) DEF TypeOK, OneOwner, NoDanglingTable, Engaged, Walking
<1>3. NoTableLeak'
  BY SMTT(30) DEF NoTableLeak
<1>4. /\ OneOwner' /\ RunUndisturbed' /\ StateAgrees'
      /\ HeldRunIsOver' /\ NoOrphanJob' /\ TablesAreOld'
      /\ FreedCtxUnused'
  BY SMTT(30) DEF OneOwner, RunUndisturbed, StateAgrees, HeldRunIsOver,
      NoOrphanJob,
      TablesAreOld, FreedCtxUnused, Engaged, InRun
<1>. QED  BY <1>1, <1>2, <1>3, <1>4

(* Preserved by release waiting for the job: no new one can start on this  *)
(* context.                                                                *)
LEMMA ReleaseKeeps ==
  ASSUME IInv, NEW c \in Ctx, Release(c)
  PROVE  IInv'
<1> USE ProcAssumption, MaxSeqAssumption
    DEF IInv, Release, dev, ctxs, procs, Goto, Proc,
        IDLE, RUNNING, SUBMITTED, FINISHING
<1>1. /\ TypeOK' /\ OneOwner' /\ RunUndisturbed'
      /\ StateAgrees' /\ HeldRunIsOver' /\ NoOrphanJob'
      /\ TablesAreOld' /\ NoDanglingTable' /\ NoTableLeak'
      /\ FreedCtxUnused'
  BY DEF TypeOK, OneOwner, RunUndisturbed, StateAgrees, HeldRunIsOver,
      NoOrphanJob, TablesAreOld, NoDanglingTable, NoTableLeak,
      FreedCtxUnused, ThreadPC, IrqPC, WatchdogPC, Engaged, InRun, Walking
<1>. QED  BY SMTT(30), <1>1

(* Preserved by freeing the context: its watchdog is neither pending nor   *)
(* running.                                                                *)
LEMMA FreeCtxKeeps ==
  ASSUME IInv, NEW c \in Ctx, FreeCtx(c)
  PROVE  IInv'
<1> USE ProcAssumption, MaxSeqAssumption
    DEF IInv, FreeCtx, dev, ctxs, procs, Goto, Proc,
        IDLE, RUNNING, SUBMITTED, FINISHING
<1>1. TypeOK'
  BY ZenonT(60) DEF TypeOK, ThreadPC, IrqPC, WatchdogPC
<1>2. NoOrphanJob'
  BY ZenonT(60) DEF TypeOK, StateAgrees, NoOrphanJob, Engaged
<1>3. NoDanglingTable'
  BY DEF TypeOK, OneOwner, RunUndisturbed, StateAgrees, NoDanglingTable,
      Engaged, InRun, Walking
<1>4. NoTableLeak'
  BY DEF NoTableLeak
<1>5. FreedCtxUnused'
  BY DEF TypeOK, OneOwner, StateAgrees, FreedCtxUnused, Engaged
<1>6. /\ OneOwner' /\ RunUndisturbed' /\ StateAgrees'
      /\ HeldRunIsOver' /\ TablesAreOld'
  BY DEF OneOwner, RunUndisturbed, StateAgrees, HeldRunIsOver, TablesAreOld,
      Engaged, InRun
<1>. QED  BY <1>1, <1>2, <1>3, <1>4, <1>5, <1>6

(* Preserved by open(): a fresh context has no job.                        *)
LEMMA OpenKeeps ==
  ASSUME IInv, NEW c \in Ctx, Open(c)
  PROVE  IInv'
<1> USE ProcAssumption, MaxSeqAssumption
    DEF IInv, Open, dev, ctxs, procs, Goto, Proc,
        IDLE, RUNNING, SUBMITTED, FINISHING
<1>1. NoOrphanJob'
  BY ZenonT(60) DEF TypeOK, StateAgrees, NoOrphanJob, Engaged
<1>2. /\ TypeOK' /\ OneOwner' /\ RunUndisturbed'
      /\ StateAgrees' /\ HeldRunIsOver' /\ TablesAreOld'
      /\ NoDanglingTable' /\ NoTableLeak' /\ FreedCtxUnused'
  BY DEF TypeOK, OneOwner, RunUndisturbed, StateAgrees, HeldRunIsOver,
      TablesAreOld, NoDanglingTable, NoTableLeak, FreedCtxUnused, ThreadPC,
      IrqPC, WatchdogPC, Engaged, InRun, Walking
<1>. QED  BY <1>1, <1>2

(* The state after module load, with all contexts open and idle, satisfies *)
(* the invariant.                                                          *)
LEMMA InitIInv == Init => IInv
<1> SUFFICES ASSUME Init PROVE IInv
  BY Zenon
<1> USE ProcAssumption, MaxSeqAssumption DEF Init, Proc, IDLE
<1>1. /\ pctx \in [Proc -> Ctx \cup {NoCtx}] /\ \A c \in Ctx : pctx[c] = c
      /\ wd_for \in [Ctx -> [pending : Nat, running : Nat]]
      /\ 0 \in 0..MaxSeq
  OBVIOUS
<1>2. TypeOK
  BY Zenon, <1>1 DEF TypeOK, ThreadPC, IrqPC, WatchdogPC
<1>3. /\ OneOwner /\ RunUndisturbed /\ StateAgrees /\ HeldRunIsOver
      /\ NoOrphanJob /\ TablesAreOld /\ NoDanglingTable
      /\ NoTableLeak /\ FreedCtxUnused
  BY Zenon DEF OneOwner, RunUndisturbed, StateAgrees, HeldRunIsOver, NoOrphanJob,
         TablesAreOld, NoDanglingTable, NoTableLeak, FreedCtxUnused,
         Engaged, InRun, Walking, SUBMITTED
<1>. QED  BY <1>2, <1>3 DEF IInv

-----------------------------------------------------------------------------
(* Every step of every process preserves the invariant.                    *)
LEMMA NextKeeps == IInv /\ [Next]_vars => IInv'
<1> SUFFICES ASSUME IInv, [Next]_vars PROVE IInv'
  BY Zenon
<1>1. ASSUME NEW t \in Thread, ThreadStep(t) \/ \E c \in Ctx : M2mRun(t, c)
      PROVE  IInv'
  BY Zenon, <1>1, M2mRunKeeps, PmFailsKeeps, DeviceRunKeeps, InitJobKeeps,
     AppendSliceKeeps, RunFailsKeeps, RunHoldsKeeps, SubmitJobKeeps,
     SendEndKeeps, QueueStuckKeeps, FreeTableKeeps, RunReturnsKeeps
     DEF ThreadStep
<1>2. ASSUME NEW p \in Proc, FinishStep(p) PROVE IInv'
  BY Zenon, <1>2, JobFinishKeeps, M2mFinishKeeps DEF FinishStep
<1>3. ASSUME IrqEnter \/ IrqStep PROVE IInv'
  BY Zenon, <1>3, IrqEnterKeeps, IrqHandleKeeps, IrqCancelKeeps DEF IrqStep
<1>4. ASSUME NEW c \in Ctx, WatchdogStep(c) \/ FileStep(c) PROVE IInv'
  BY Zenon, <1>4, WatchdogFiresKeeps, WatchdogClaimsKeeps,
     WatchdogResetsKeeps,
     StopStreamingKeeps, ReleaseKeeps, FreeCtxKeeps, OpenKeeps
     DEF WatchdogStep, FileStep
<1>5. CASE UNCHANGED vars
  BY SMTT(30), <1>5 DEF IInv, TypeOK, OneOwner, RunUndisturbed, StateAgrees,
     HeldRunIsOver, NoOrphanJob, TablesAreOld, NoDanglingTable, NoTableLeak,
     FreedCtxUnused, Engaged, InRun, Walking, vars, dev, ctxs, procs
<1>. QED  BY <1>1, <1>2, <1>3, <1>4, <1>5 DEF Next

(* The invariant holds in every reachable state of the driver.             *)
THEOREM Invariance == Spec => []IInv
<1>1. Init => IInv
  BY Zenon, InitIInv
<1>2. IInv /\ [Next]_vars => IInv'
  BY Zenon, NextKeeps
<1>. QED  BY <1>1, <1>2, PTL DEF Spec

(* Type correctness of the job tracking.                                   *)
THEOREM TypeCorrect == Spec => []TypeOK
<1>1. IInv => TypeOK
  BY Zenon DEF IInv
<1>. QED  BY <1>1, Invariance, PTL

(* A job is finished by one process only, and while it is the current job: *)
(* avd_device_run(), the interrupt handler and the watchdogs never finish  *)
(* one job twice nor a job that is not running.                            *)
THEOREM JobHasOneOwner == Spec => []OneOwner
<1>1. IInv => OneOwner
  BY Zenon DEF IInv
<1>. QED  BY <1>1, Invariance, PTL

(* Neither a completion nor a watchdog ends a job while avd_device_run()   *)
(* is building or submitting it.                                           *)
THEOREM RunNeverDisturbed == Spec => []RunUndisturbed
<1>1. IInv => RunUndisturbed
  BY Zenon DEF IInv
<1>. QED  BY <1>1, Invariance, PTL

(* Every current job has an engaged process or an armed watchdog.          *)
THEOREM JobNeverOrphaned == Spec => []NoOrphanJob
<1>1. IInv => NoOrphanJob
  BY Zenon DEF IInv
<1>. QED  BY <1>1, Invariance, PTL

(* avd_submit_job() and the contexts only hold allocated segment tables,   *)
(* and every allocated table is reachable from its context.                *)
THEOREM TablesAlwaysOwned == Spec => []TablesOwned
<1>1. IInv => TablesOwned
  BY Zenon DEF IInv, TablesOwned
<1>. QED  BY <1>1, Invariance, PTL

(* A context freed by avd_release() has no watchdog and no job.            *)
THEOREM FreedCtxNeverUsed == Spec => []FreedCtxUnused
<1>1. IInv => FreedCtxUnused
  BY Zenon DEF IInv
<1>. QED  BY <1>1, Invariance, PTL

-----------------------------------------------------------------------------
(* Every step of the driver, from a state that satisfies the invariant, is *)
(* a step of the abstract job or leaves it alone.                          *)
LEMMA StepSimulation == IInv /\ IInv' /\ [Next]_vars => [Abs!Next]_(Abs!vars)
<1> SUFFICES ASSUME IInv, IInv', [Next]_vars PROVE [Abs!Next]_(Abs!vars)
  BY Zenon
<1> USE ProcAssumption
    DEF IInv, TypeOK, OneOwner, StateAgrees, Engaged, Owner, Retiring,
        Abs!Next, Abs!vars, Abs!Begin, Abs!HandOver, Abs!Claim, Abs!End,
        dev, ctxs, procs, Goto, Proc, IDLE, RUNNING, SUBMITTED, FINISHING
<1>1. ASSUME NEW t \in Thread, NEW c \in Ctx, M2mRun(t, c) PROVE Abs!Begin(c)
  BY ZenonT(60), <1>1 DEF M2mRun
<1>2. ASSUME NEW t \in Thread, ThreadStep(t), ~RunReturns(t)
      PROVE  UNCHANGED Abs!vars
  <2>1. CASE DeviceRun(t)
    BY ZenonT(60), <2>1 DEF DeviceRun
  <2>2. CASE PmFails(t) \/ AppendSlice(t) \/ RunFails(t) \/ RunHolds(t)
    BY SMTT(30), <2>2 DEF PmFails, AppendSlice, RunFails, RunHolds
  <2>3. CASE InitJob(t)
    BY SMTT(30), <2>3 DEF InitJob
  <2>4. CASE SubmitJob(t) \/ FreeTable(t)
    BY SMTT(30), <2>4 DEF SubmitJob, FreeTable
  <2>5. CASE SendEnd(t) \/ QueueStuck(t)
    BY SMTT(30), <2>5 DEF SendEnd, QueueStuck
  <2>. QED  BY Zenon, <1>2, <2>1, <2>2, <2>3, <2>4, <2>5 DEF ThreadStep
<1>3. ASSUME NEW t \in Thread, RunReturns(t)
      PROVE  Abs!HandOver \/ Abs!Claim \/ UNCHANGED Abs!vars
  BY <1>3 DEF RunReturns, RunUndisturbed, InRun, HeldRunIsOver
<1>4. ASSUME NEW p \in Proc, JobFinish(p) PROVE Abs!Claim \/ UNCHANGED Abs!vars
  BY Zenon, <1>4 DEF JobFinish
<1>5. ASSUME NEW p \in Proc, M2mFinish(p) PROVE Abs!End
  BY ZenonT(60), <1>5 DEF M2mFinish
<1>6. ASSUME IrqHandle PROVE Abs!Claim \/ UNCHANGED Abs!vars
  BY Zenon, <1>6 DEF IrqHandle
<1>7. ASSUME NEW c \in Ctx, WatchdogClaims(c)
      PROVE  Abs!Claim \/ UNCHANGED Abs!vars
  BY Zenon, <1>7 DEF WatchdogClaims
<1>8. ASSUME IrqEnter \/ IrqCancel PROVE UNCHANGED Abs!vars
  BY SMTT(30), <1>8 DEF IrqEnter, IrqCancel
<1>9. ASSUME NEW c \in Ctx, WatchdogFires(c) \/ WatchdogResets(c) \/ FileStep(c)
      PROVE  UNCHANGED Abs!vars
  BY <1>9 DEF WatchdogFires, WatchdogResets, FileStep, StopStreaming,
     Release, FreeCtx, Open
<1>10. CASE UNCHANGED vars
  BY Zenon, <1>10 DEF vars
<1> HIDE DEF IInv, Abs!vars, Abs!Begin, Abs!HandOver, Abs!Claim, Abs!End, Proc
<1>. QED  BY <1>1, <1>2, <1>3, <1>4, <1>5, <1>6, <1>7, <1>8, <1>9, <1>10
          DEF Next, FinishStep, IrqStep, WatchdogStep

(* The driver's job tracking implements the abstract job: one at a time,   *)
(* handed from party to party, ended only once claimed.                    *)
THEOREM Refinement == Spec => ImplementsAbs
<1>1. Init => Abs!Init
  BY Zenon, ProcAssumption DEF Init, Abs!Init, Owner
<1>2. IInv /\ IInv' /\ [Next]_vars => [Abs!Next]_(Abs!vars)
  BY Zenon, StepSimulation
<1>. QED  BY <1>1, <1>2, Invariance, PTL DEF Spec, Abs!Spec, ImplementsAbs
=============================================================================
