------------------------------ MODULE Recorder ------------------------------
(***************************************************************************)
(* The reference recorder of experiments/hevc-avd-trace                    *)
(* (kernel/avd-trace.c, called from the driver by hooks.patch), with the   *)
(* storage that experiments/hevc-avd-command-trace/bounded.py gives it: a  *)
(* sealed capture is not copied for its reader but pinned until the        *)
(* reader closes.                                                          *)
(*                                                                         *)
(* The driver calls the recorder when a file is opened and released, when  *)
(* a decoded buffer is created and removed, when the device takes a job,   *)
(* when an HEVC job has been set up, for each detail of it, and when the   *)
(* job ends.  Every call runs under the spinlock and is one action.  The   *)
(* device runs one job at a time (module AvdJob).  The control and         *)
(* snapshot files of debugfs may be used at any moment.                    *)
(*                                                                         *)
(* The history variables ended and seen hold how many jobs the device has  *)
(* ended between the arm and the seal, whoever asked for them, and what    *)
(* they were; the recorder never reads them.                               *)
(***************************************************************************)
EXTENDS RecorderCore, Sequences, FiniteSets

CONSTANTS
    Ctx,           \* the files that may be open on the device node
    NoCtx,         \* no file
    Pid,           \* the processes that open them
    Capacity,      \* ATR_CAPACITY, 2048 records in the code
    MaxRun,        \* bound: the largest run number armed
    MaxContext,    \* bound: how many times a file is opened
    MaxJobs,       \* bound: how many jobs a capture sees
    MaxAttempted   \* bound: details are not attempted beyond this count

ASSUME RecorderAssumption ==
    /\ IsFiniteSet(Ctx)
    /\ NoCtx \notin Ctx
    /\ Pid \subseteq Nat \ {0}
    /\ Capacity \in Nat
    /\ MaxRun \in Nat
    /\ MaxContext \in Nat
    /\ MaxJobs \in Nat
    /\ MaxAttempted \in Nat

VARIABLES
    capture,        \* the capture, or Off when the pointer is null
    records,        \* capture->records, the first capture->count of them
    attempted,      \* capture->attempted
    open_contexts,
    next_context,
    last_run,
    snapshot,       \* what the reader that set snapshot_busy is reading
    trace_context,  \* per file: its context number, 0 while it is closed
    trace_pid,      \* per file: the process that opened it
    buffer,         \* per file: its decoded buffer
    running,        \* the file whose job the device runs
    hevc,           \* whether that job is an HEVC one
    started,        \* whether that job has reached avd_trace_start
    ended,          \* history: how many jobs ended while the capture was made
    seen            \* history: what those jobs were

captureVars == <<capture, records, attempted>>
fileVars == <<open_contexts, next_context, trace_context, trace_pid>>
jobVars == <<running, hevc, started>>
history == <<ended, seen>>
vars == <<captureVars, fileVars, jobVars, last_run, snapshot, buffer, history>>

Run == 1..MaxRun

NoReader == <<>>
NoBuffer == [traced |-> FALSE, writer |-> 0, completed |-> FALSE, live |-> FALSE]

Record ==
    [kind : {"start", "done", "detail"}, picture : Nat, writer : Nat,
     completed : BOOLEAN]

Job ==
    [context : Nat, hevc : BOOLEAN, started : BOOLEAN, ok : BOOLEAN]

IsOpen(c) ==
    trace_context[c] # 0

-----------------------------------------------------------------------------
Init ==
    /\ capture = Off
    /\ records = <<>>
    /\ attempted = 0
    /\ open_contexts = 0
    /\ next_context = 0
    /\ last_run = 0
    /\ snapshot = NoReader
    /\ trace_context = [c \in Ctx |-> 0]
    /\ trace_pid = [c \in Ctx |-> 0]
    /\ buffer = [c \in Ctx |-> NoBuffer]
    /\ running = NoCtx
    /\ hevc = FALSE
    /\ started = FALSE
    /\ ended = 0
    /\ seen = {}

(* Mutant: a record that does not fit is dropped without an error. *)
append_silent(c, context, r) ==
    IF ~atr_selected(c, context)
    THEN UNCHANGED <<records, attempted>> /\ capture' = c
    ELSE /\ attempted' = attempted + 1
         /\ capture' = c
         /\ records' = IF Len(records) = Capacity THEN records
                       ELSE Append(records, r)

(***************************************************************************)
(* The append of a record for the capture c, which becomes the capture.    *)
(***************************************************************************)
atr_append(c, context, r) ==
    IF ~atr_selected(c, context)
    THEN UNCHANGED <<records, attempted>> /\ capture' = c
    ELSE /\ attempted' = attempted + 1
         /\ IF Len(records) = Capacity
            THEN capture' = Flag(c, {"overflow"}) /\ UNCHANGED records
            ELSE capture' = c /\ records' = Append(records, r)

-----------------------------------------------------------------------------
(* The calls the driver makes. *)

avd_trace_open(c, pid) ==
    /\ ~IsOpen(c)
    /\ next_context < MaxContext
    /\ next_context' = next_context + 1
    /\ trace_context' = [trace_context EXCEPT ![c] = next_context + 1]
    /\ trace_pid' = [trace_pid EXCEPT ![c] = pid]
    /\ open_contexts' = open_contexts + 1
    /\ capture' = atr_open(capture, pid)
    /\ UNCHANGED <<records, attempted, jobVars, last_run, snapshot, buffer,
                   history>>

(***************************************************************************)
(* A decoded buffer is created.  It gets an allocation number, here the    *)
(* flag traced, when its file may be the one that the capture follows.     *)
(***************************************************************************)
avd_trace_buf_init(c) ==
    /\ IsOpen(c)
    /\ ~buffer[c].live
    /\ buffer' = [buffer EXCEPT ![c] =
           [NoBuffer EXCEPT
               !.live = TRUE,
               !.traced = /\ \/ capture.phase = "armed"
                             \/ atr_selected(capture, trace_context[c])
                          /\ trace_pid[c] = capture.pid]]
    /\ UNCHANGED <<captureVars, fileVars, jobVars, last_run, snapshot, history>>

avd_trace_buf_cleanup(c) ==
    /\ buffer[c].live
    /\ running # c
    /\ buffer' = [buffer EXCEPT ![c] = NoBuffer]
    /\ UNCHANGED <<captureVars, fileVars, jobVars, last_run, snapshot, history>>

(***************************************************************************)
(* avd_device_run: the device takes a job of c, HEVC or not.               *)
(***************************************************************************)
avd_trace_job(c, is_hevc) ==
    /\ IsOpen(c)
    /\ buffer[c].live
    /\ running = NoCtx
    /\ ended < MaxJobs
    /\ running' = c
    /\ hevc' = is_hevc
    /\ started' = FALSE
    /\ capture' = atr_bind(capture, trace_pid[c], trace_context[c], is_hevc)
    /\ UNCHANGED <<records, attempted, fileVars, last_run, snapshot, buffer,
                   history>>

(***************************************************************************)
(* The HEVC job has been set up: a picture starts in its destination       *)
(* buffer.  The record keeps the writer that the buffer had before.        *)
(***************************************************************************)
avd_trace_start(good_shape) ==
    LET c == running
        next == atr_start(capture, trace_context[c], good_shape)
    IN  /\ running # NoCtx
        /\ hevc
        /\ ~started
        /\ started' = TRUE
        /\ buffer' = IF atr_selected(capture, trace_context[c])
                     THEN [buffer EXCEPT ![c].writer = next.pictures,
                                         ![c].completed = FALSE]
                     ELSE buffer
        /\ atr_append(next, trace_context[c],
               [kind |-> "start", picture |-> next.pictures,
                writer |-> buffer[c].writer, completed |-> FALSE])
        /\ UNCHANGED <<fileVars, running, hevc, last_run, snapshot, history>>

(***************************************************************************)
(* avd_trace_table, avd_trace_list and avd_trace_motion: one more record   *)
(* for a picture inside the detailed window.                               *)
(***************************************************************************)
avd_trace_detail ==
    LET c == running
    IN  /\ running # NoCtx
        /\ started
        /\ atr_selected(capture, trace_context[c])
        /\ detail(capture)
        /\ attempted < MaxAttempted
        /\ atr_append(capture, trace_context[c],
               [kind |-> "detail", picture |-> capture.pictures,
                writer |-> buffer[c].writer,
                completed |-> buffer[c].completed])
        /\ UNCHANGED <<fileVars, jobVars, last_run, snapshot, buffer, history>>

(***************************************************************************)
(* avd_job_finish_no_pm: the job ends.  An HEVC job that never reached     *)
(* avd_trace_start has failed.  has_dst is false when the destination      *)
(* queue of the file is empty.                                             *)
(***************************************************************************)
avd_trace_done(ok, has_dst) ==
    LET c == running
        context == trace_context[c]
        selected == atr_selected(capture, context)
        flagged == IF selected /\ ~has_dst THEN Flag(capture, {"order"})
                   ELSE capture
        written == [buffer[c] EXCEPT !.completed = ok]
    IN  /\ running # NoCtx
        /\ ok => started \/ ~hevc
        /\ buffer' = IF selected /\ has_dst
                     THEN [buffer EXCEPT ![c] = written] ELSE buffer
        /\ atr_append(atr_done(flagged, context, ok), context,
               [kind |-> "done", picture |-> capture.pictures,
                writer |-> IF has_dst THEN written.writer ELSE 0,
                completed |-> has_dst /\ ok])
        /\ IF Recording(capture)
           THEN /\ ended' = ended + 1
                /\ seen' = seen \cup {[context |-> context, hevc |-> hevc,
                                       started |-> started, ok |-> ok]}
           ELSE UNCHANGED history
        /\ running' = NoCtx
        /\ hevc' = FALSE
        /\ started' = FALSE
        /\ UNCHANGED <<fileVars, last_run, snapshot>>

(***************************************************************************)
(* avd_release: the buffers of the file go before the recorder is told.    *)
(***************************************************************************)
avd_trace_close(c) ==
    /\ IsOpen(c)
    /\ running # c
    /\ capture' = atr_close(capture, trace_context[c])
    /\ open_contexts' = open_contexts - 1
    /\ trace_context' = [trace_context EXCEPT ![c] = 0]
    /\ trace_pid' = [trace_pid EXCEPT ![c] = 0]
    /\ buffer' = [buffer EXCEPT ![c] = NoBuffer]
    /\ UNCHANGED <<records, attempted, next_context, jobVars, last_run,
                   snapshot, history>>

-----------------------------------------------------------------------------
(***************************************************************************)
(* control_write.  A write that is refused changes nothing.                *)
(***************************************************************************)
Busy ==
    snapshot # NoReader \/ open_contexts # 0

Arm(run, pid) ==
    /\ ~Busy
    /\ capture = Off
    /\ run > last_run
    /\ capture' = Armed(run, pid)
    /\ records' = <<>>
    /\ attempted' = 0
    /\ last_run' = run
    /\ ended' = 0
    /\ seen' = {}
    /\ UNCHANGED <<fileVars, jobVars, snapshot, buffer>>

Seal(run) ==
    /\ ~Busy
    /\ capture.run = run
    /\ CanSeal(capture)
    /\ capture' = atr_seal(capture)
    /\ UNCHANGED <<records, attempted, fileVars, jobVars, last_run, snapshot,
                   buffer, history>>

(* Mutant: a pinned capture may be freed. *)
DiscardPinned ==
    /\ open_contexts = 0
    /\ capture' = Off
    /\ records' = <<>>
    /\ attempted' = 0
    /\ ended' = 0
    /\ seen' = {}
    /\ UNCHANGED <<fileVars, jobVars, last_run, snapshot, buffer>>

(***************************************************************************)
(* "off" frees whatever capture there is.                                  *)
(***************************************************************************)
Discard ==
    /\ ~Busy
    /\ capture' = Off
    /\ records' = <<>>
    /\ attempted' = 0
    /\ ended' = 0
    /\ seen' = {}
    /\ UNCHANGED <<fileVars, jobVars, last_run, snapshot, buffer>>

snapshot_open ==
    /\ capture.phase = "sealed"
    /\ snapshot = NoReader
    /\ snapshot' = captureVars
    /\ UNCHANGED <<captureVars, fileVars, jobVars, last_run, buffer, history>>

snapshot_release ==
    /\ snapshot # NoReader
    /\ snapshot' = NoReader
    /\ UNCHANGED <<captureVars, fileVars, jobVars, last_run, buffer, history>>

Next ==
    \/ \E c \in Ctx, pid \in Pid : avd_trace_open(c, pid)
    \/ \E c \in Ctx : avd_trace_buf_init(c)
    \/ \E c \in Ctx : avd_trace_buf_cleanup(c)
    \/ \E c \in Ctx, is_hevc \in BOOLEAN : avd_trace_job(c, is_hevc)
    \/ \E good_shape \in BOOLEAN : avd_trace_start(good_shape)
    \/ avd_trace_detail
    \/ \E ok, has_dst \in BOOLEAN : avd_trace_done(ok, has_dst)
    \/ \E c \in Ctx : avd_trace_close(c)
    \/ \E run \in Run, pid \in Pid : Arm(run, pid)
    \/ \E run \in Run : Seal(run)
    \/ Discard
    \/ snapshot_open
    \/ snapshot_release

Spec == Init /\ [][Next]_vars

-----------------------------------------------------------------------------
(* Type correctness, with the extent of the record array. *)
TypeOK ==
    /\ capture \in Capture(Run, Pid)
    /\ records \in Seq(Record)
    /\ Len(records) <= Capacity
    /\ attempted \in Nat
    /\ open_contexts \in Nat
    /\ next_context \in Nat
    /\ last_run \in Run \cup {0}
    /\ snapshot = NoReader \/ snapshot \in Capture(Run, Pid) \X Seq(Record) \X Nat
    /\ trace_context \in [Ctx -> Nat]
    /\ trace_pid \in [Ctx -> Pid \cup {0}]
    /\ buffer \in [Ctx -> [traced : BOOLEAN, writer : Nat,
                           completed : BOOLEAN, live : BOOLEAN]]
    /\ running \in Ctx \cup {NoCtx}
    /\ hevc \in BOOLEAN
    /\ started \in BOOLEAN
    /\ ended \in Nat
    /\ seen \subseteq Job

(***************************************************************************)
(* What an error-free sealed capture tells its reader: between the arm and *)
(* the seal the device ended exactly Pictures jobs, all of them HEVC jobs  *)
(* of the one bound context that were set up and succeeded.  No other work *)
(* of any process escapes the sticky errors of atr_open, atr_bind,         *)
(* atr_start, atr_done, atr_close and atr_seal.                            *)
(***************************************************************************)
CleanSealIsComplete ==
    capture.phase = "sealed" /\ capture.errors = {} =>
        /\ capture.pictures = Pictures
        /\ capture.completions = Pictures
        /\ ended = Pictures
        /\ seen = {[context |-> capture.context, hevc |-> TRUE,
                    started |-> TRUE, ok |-> TRUE]}

(***************************************************************************)
(* An error-free sealed capture has lost nothing: each of its pictures has *)
(* exactly one start and one done record, although the array has a limit   *)
(* (atr_append drops what does not fit, and must say so).  The records of  *)
(* a picture lie between these two and carry its number as the writer      *)
(* (avd_trace_start sets dst->trace_writer before it appends).             *)
(***************************************************************************)
RecordsPair ==
    \A i \in 1..Len(records) :
        records[i].kind # "start" =>
            /\ records[i].writer = records[i].picture
            /\ i > 1
            /\ records[i - 1].kind # "done"
            /\ records[i - 1].picture = records[i].picture

CleanSealIsWhole ==
    capture.phase = "sealed" /\ capture.errors = {} =>
        /\ RecordsPair
        /\ \A p \in 1..Pictures, kind \in {"start", "done"} :
               \E i \in 1..Len(records) :
                   \A j \in 1..Len(records) :
                       records[j].picture = p /\ records[j].kind = kind <=> j = i

(***************************************************************************)
(* The capture a reader has opened is there, sealed and unchanged, for as  *)
(* long as the reader holds it: control_write refuses to free or replace   *)
(* it, and no call of the driver touches it (bounded-snapshot.h).          *)
(***************************************************************************)
PinnedUnchanged ==
    snapshot # NoReader => captureVars = snapshot /\ capture.phase = "sealed"

(***************************************************************************)
(* A sealed capture never changes again; it can only be discarded as a     *)
(* whole ("Sealed captures are immutable", avd-trace.c).                   *)
(***************************************************************************)
SealedStays ==
    [][capture.phase = "sealed" =>
          capture' = Off \/ captureVars' = captureVars]_vars

(***************************************************************************)
(* While a capture follows a context, that context is an open file of the  *)
(* traced process, and each of its buffers was created under this capture: *)
(* it has an allocation number and no writer beyond the pictures so far.   *)
(* An arm with files already open would break it (control_write).          *)
(***************************************************************************)
FollowsOwnFile ==
    capture.phase = "active" =>
        \E c \in Ctx :
            /\ trace_context[c] = capture.context
            /\ IsOpen(c)
            /\ trace_pid[c] = capture.pid
            /\ buffer[c].live =>
                   buffer[c].traced /\ buffer[c].writer <= capture.pictures

=============================================================================
