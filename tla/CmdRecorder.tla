---------------------------- MODULE CmdRecorder -----------------------------
(***************************************************************************)
(* The command recorder of experiments/hevc-avd-command-trace              *)
(* (kernel/cmd-core.h and kernel/avd-cmdtrace.c with the bounded storage   *)
(* of bounded.py).  Its capture has the phases and errors of the reference *)
(* recorder; what it adds is one line of history for every picture and,    *)
(* for each picture of a window, a slot with the copied controls and the   *)
(* selected command words, of which a slot holds at most Words.            *)
(*                                                                         *)
(* packing.py puts avd_cmdtrace_word after every selected push of the HEVC *)
(* code, avd_cmdtrace_slice_meta after the slice size of every slice and   *)
(* avd_cmdtrace_inactive where a part of the stream is switched off.  The  *)
(* order of these calls depends on the stream and is left open here.       *)
(*                                                                         *)
(* The history variable pushed counts the words offered for each slot.     *)
(***************************************************************************)
EXTENDS RecorderCore

CONSTANTS
    Ctx,          \* the files that may be open on the device node
    NoCtx,        \* no file
    Pid,          \* the processes that open them
    Words,        \* CMD_WORDS, 1024 in the code
    Site,         \* the sites that may be inactive, SCL_OFF and WT_SKIP
    MaxRun,       \* bound: the largest run number armed
    MaxContext,   \* bound: how many times a file is opened
    MaxPushed,    \* bound: words offered for a slot
    MaxPictures   \* bound: jobs ended for a capture's context

ASSUME CmdRecorderAssumption ==
    /\ NoCtx \notin Ctx
    /\ Pid \subseteq Nat \ {0}
    /\ {Words, MaxRun, MaxContext, MaxPushed, MaxPictures} \subseteq Nat
    /\ First \in 1..Last
    /\ Last <= Pictures

VARIABLES
    capture,        \* the capture, or Off when the pointer is null
    hist,           \* the pictures with a line of history
    window,         \* the slots of the pictures First..Last
    open_contexts,
    last_run,
    snapshot,       \* what the reader that set snapshot_busy is reading
    next_context,   \* the numbering of contexts, which avd-trace.c keeps
    trace_context,  \* per file: its context number, 0 while it is closed
    trace_pid,      \* per file: the process that opened it
    running,        \* the file whose job the device runs
    hevc,           \* whether that job is an HEVC one
    started,        \* whether that job has reached avd_cmdtrace_start
    pushed          \* history: the words offered for each slot

captureVars == <<capture, hist, window>>
fileVars == <<open_contexts, next_context, trace_context, trace_pid>>
jobVars == <<running, hevc, started>>
vars == <<captureVars, fileVars, jobVars, last_run, snapshot, pushed>>

Run == 1..MaxRun
Window == First..Last
NoReader == <<>>

EmptySlot ==
    [picture |-> 0, nwords |-> 0, nbytes |-> 0, inactive |-> {},
     meta_seen |-> 0]

IsOpen(c) ==
    trace_context[c] # 0

-----------------------------------------------------------------------------
(* The transitions of cmd-core.h that are those of avd-trace-core.h. *)

cmd_selected(c, context) ==
    atr_selected(c, context)

cmd_detail(c) ==
    detail(c)

cmd_open(c, pid) ==
    atr_open(c, pid)

cmd_bind(c, pid, context, is_hevc) ==
    atr_bind(c, pid, context, is_hevc)

cmd_done(c, context, success) ==
    atr_done(c, context, success)

cmd_close(c, context) ==
    atr_close(c, context)

cmd_seal(c) ==
    atr_seal(c)

(* good_shape also says that the picture has no tiles. *)
cmd_start(c, context, good_shape) ==
    atr_start(c, context, good_shape)

(***************************************************************************)
(* What cmd_start does to the slot of its picture.  meta_seen is not       *)
(* cleared: a slot serves one picture of a capture.                        *)
(***************************************************************************)
cmd_start_slot(slot, picture) ==
    [slot EXCEPT !.picture = picture, !.nwords = 0, !.nbytes = 0,
                 !.inactive = {}]

(***************************************************************************)
(* The controls are copied if pack_controls filled the buffer (packed).    *)
(***************************************************************************)
cmd_controls(slot, errors, packed) ==
    IF packed
    THEN [slot |-> [slot EXCEPT !.nbytes = 1], errors |-> errors]
    ELSE [slot |-> slot, errors |-> errors \cup {"overflow"}]

(* The words of a slot after n more. *)
Filled(slot, n) ==
    [slot EXCEPT !.nwords = IF @ + n <= Words THEN @ + n ELSE Words]

(* Mutant: the words that do not fit are forgotten. *)
cmd_word_silent(slot, errors, n, valid) ==
    IF valid THEN [slot |-> Filled(slot, n), errors |-> errors]
    ELSE [slot |-> slot, errors |-> errors \cup {"shape"}]

(***************************************************************************)
(* The words of a slot and the errors after n calls of cmd_word with a     *)
(* site, which is valid or not.                                            *)
(***************************************************************************)
cmd_word(slot, errors, n, valid) ==
    IF ~valid
    THEN [slot |-> slot, errors |-> errors \cup {"shape"}]
    ELSE [slot |-> Filled(slot, n),
          errors |-> errors \cup
                     IF slot.nwords + n <= Words THEN {}
                     ELSE {"words_full", "overflow"}]

(***************************************************************************)
(* good: the slice has a size and its offsets do not wrap.                 *)
(***************************************************************************)
cmd_slice_meta(slot, errors, good) ==
    LET seen == [slot EXCEPT !.meta_seen = @ + 1]
    IN  IF slot.meta_seen # 0 \/ ~good
        THEN [slot |-> seen, errors |-> errors \cup {"shape"}]
        ELSE cmd_word(seen, errors, 4, TRUE)

cmd_inactive(slot, errors, site) ==
    IF site \in slot.inactive
    THEN [slot |-> slot, errors |-> errors \cup {"shape"}]
    ELSE [slot |-> [slot EXCEPT !.inactive = @ \cup {site}],
          errors |-> errors]

-----------------------------------------------------------------------------
Init ==
    /\ capture = Off
    /\ hist = {}
    /\ window = [p \in Window |-> EmptySlot]
    /\ open_contexts = 0
    /\ last_run = 0
    /\ snapshot = NoReader
    /\ next_context = 0
    /\ trace_context = [c \in Ctx |-> 0]
    /\ trace_pid = [c \in Ctx |-> 0]
    /\ running = NoCtx
    /\ hevc = FALSE
    /\ started = FALSE
    /\ pushed = [p \in Window |-> 0]

avd_cmdtrace_open(c, pid) ==
    /\ ~IsOpen(c)
    /\ next_context < MaxContext
    /\ next_context' = next_context + 1
    /\ trace_context' = [trace_context EXCEPT ![c] = next_context + 1]
    /\ trace_pid' = [trace_pid EXCEPT ![c] = pid]
    /\ open_contexts' = open_contexts + 1
    /\ capture' = cmd_open(capture, pid)
    /\ UNCHANGED <<hist, window, jobVars, last_run, snapshot, pushed>>

avd_cmdtrace_close(c) ==
    /\ IsOpen(c)
    /\ running # c
    /\ capture' = cmd_close(capture, trace_context[c])
    /\ open_contexts' = IF open_contexts = 0 THEN 0 ELSE open_contexts - 1
    /\ trace_context' = [trace_context EXCEPT ![c] = 0]
    /\ trace_pid' = [trace_pid EXCEPT ![c] = 0]
    /\ UNCHANGED <<hist, window, next_context, jobVars, last_run, snapshot,
                   pushed>>

avd_cmdtrace_job(c, is_hevc) ==
    /\ IsOpen(c)
    /\ running = NoCtx
    /\ capture.completions < MaxPictures
    /\ running' = c
    /\ hevc' = is_hevc
    /\ started' = FALSE
    /\ capture' = cmd_bind(capture, trace_pid[c], trace_context[c], is_hevc)
    /\ UNCHANGED <<hist, window, fileVars, last_run, snapshot, pushed>>

(***************************************************************************)
(* cmd_hist_set: pictures beyond the extent have no line of history.  The  *)
(* controls of a picture of the window are packed and copied in this call. *)
(***************************************************************************)
avd_cmdtrace_start(good_shape, packed) ==
    LET context == trace_context[running]
        selected == cmd_selected(capture, context)
        next == cmd_start(capture, context, good_shape)
        picture == next.pictures
        copied == cmd_controls(cmd_start_slot(window[picture], picture),
                               next.errors, packed)
    IN  /\ running # NoCtx
        /\ hevc
        /\ ~started
        /\ started' = TRUE
        /\ IF selected /\ cmd_detail(next)
           THEN /\ capture' = [next EXCEPT !.errors = copied.errors]
                /\ window' = [window EXCEPT ![picture] = copied.slot]
           ELSE /\ capture' = next
                /\ UNCHANGED window
        /\ hist' = IF selected /\ picture <= Pictures
                   THEN hist \cup {picture} ELSE hist
        /\ UNCHANGED <<fileVars, running, hevc, last_run, snapshot, pushed>>

(***************************************************************************)
(* The three hooks that write into the slot of the current picture: result *)
(* is the slot and the errors after the call, n the words it offered.      *)
(***************************************************************************)
InSlot(n, result) ==
    /\ running # NoCtx
    /\ started
    /\ cmd_selected(capture, trace_context[running])
    /\ cmd_detail(capture)
    /\ pushed[capture.pictures] + n <= MaxPushed
    /\ window' = [window EXCEPT ![capture.pictures] = result.slot]
    /\ capture' = [capture EXCEPT !.errors = result.errors]
    /\ pushed' = [pushed EXCEPT ![capture.pictures] = @ + n]
    /\ UNCHANGED <<hist, fileVars, jobVars, last_run, snapshot>>

Slot ==
    window[capture.pictures]

avd_cmdtrace_word(valid) ==
    /\ cmd_detail(capture)
    /\ InSlot(1, cmd_word(Slot, capture.errors, 1, valid))

avd_cmdtrace_slice_meta(good) ==
    /\ cmd_detail(capture)
    /\ Slot.meta_seen < 2
    /\ InSlot(4, cmd_slice_meta(Slot, capture.errors, good))

avd_cmdtrace_inactive(site) ==
    /\ cmd_detail(capture)
    /\ InSlot(0, cmd_inactive(Slot, capture.errors, site))

avd_cmdtrace_done(ok) ==
    /\ running # NoCtx
    /\ ok => started \/ ~hevc
    /\ capture' = cmd_done(capture, trace_context[running], ok)
    /\ running' = NoCtx
    /\ hevc' = FALSE
    /\ started' = FALSE
    /\ UNCHANGED <<hist, window, fileVars, last_run, snapshot, pushed>>

-----------------------------------------------------------------------------
(***************************************************************************)
(* control_write, with the refusals that bounded.py adds (a pinned capture *)
(* is not freed, none is replaced), and the snapshot file.                 *)
(***************************************************************************)
Busy ==
    snapshot # NoReader \/ open_contexts # 0

(***************************************************************************)
(* kvzalloc for a fresh capture, kvfree for a discarded one.               *)
(***************************************************************************)
Cleared ==
    /\ hist' = {}
    /\ window' = [p \in Window |-> EmptySlot]
    /\ pushed' = [p \in Window |-> 0]

Arm(run, pid) ==
    /\ ~Busy
    /\ capture = Off
    /\ run > last_run
    /\ capture' = Armed(run, pid)
    /\ Cleared
    /\ last_run' = run
    /\ UNCHANGED <<fileVars, jobVars, snapshot>>

Seal(run) ==
    /\ ~Busy
    /\ capture.run = run
    /\ CanSeal(capture)
    /\ capture' = cmd_seal(capture)
    /\ UNCHANGED <<hist, window, fileVars, jobVars, last_run, snapshot,
                   pushed>>

Discard ==
    /\ ~Busy
    /\ capture' = Off
    /\ Cleared
    /\ UNCHANGED <<fileVars, jobVars, last_run, snapshot>>

snapshot_open ==
    /\ capture.phase = "sealed"
    /\ snapshot = NoReader
    /\ snapshot' = captureVars
    /\ UNCHANGED <<captureVars, fileVars, jobVars, last_run, pushed>>

snapshot_release ==
    /\ snapshot # NoReader
    /\ snapshot' = NoReader
    /\ UNCHANGED <<captureVars, fileVars, jobVars, last_run, pushed>>

Next ==
    \/ \E c \in Ctx, pid \in Pid : avd_cmdtrace_open(c, pid)
    \/ \E c \in Ctx : avd_cmdtrace_close(c)
    \/ \E c \in Ctx, is_hevc \in BOOLEAN : avd_cmdtrace_job(c, is_hevc)
    \/ \E good_shape, packed \in BOOLEAN : avd_cmdtrace_start(good_shape, packed)
    \/ \E valid \in BOOLEAN : avd_cmdtrace_word(valid)
    \/ \E good \in BOOLEAN : avd_cmdtrace_slice_meta(good)
    \/ \E site \in Site : avd_cmdtrace_inactive(site)
    \/ \E ok \in BOOLEAN : avd_cmdtrace_done(ok)
    \/ \E run \in Run, pid \in Pid : Arm(run, pid)
    \/ \E run \in Run : Seal(run)
    \/ Discard
    \/ snapshot_open
    \/ snapshot_release

Spec == Init /\ [][Next]_vars

-----------------------------------------------------------------------------
(* Type correctness; no slot holds more words than there is room for. *)
TypeOK ==
    /\ capture \in Capture(Run, Pid)
    /\ hist \subseteq 1..Pictures
    /\ window \in [Window -> [picture : Window \cup {0}, nwords : 0..Words,
                              nbytes : {0, 1}, inactive : SUBSET Site,
                              meta_seen : Nat]]
    /\ open_contexts \in Nat
    /\ last_run \in Run \cup {0}
    /\ next_context \in Nat
    /\ trace_context \in [Ctx -> Nat]
    /\ trace_pid \in [Ctx -> Pid \cup {0}]
    /\ running \in Ctx \cup {NoCtx}
    /\ hevc \in BOOLEAN
    /\ started \in BOOLEAN
    /\ pushed \in [Window -> Nat]

(***************************************************************************)
(* An error-free sealed capture holds the whole window: every picture has  *)
(* its line of history, every slot is labelled with its own picture, has   *)
(* the copied controls (cmd_start clears them, avd_cmdtrace_start may fail *)
(* to pack them), at most one slice header, and every word that was        *)
(* offered for it (cmd_word drops what does not fit or has no site,        *)
(* cmd_slice_meta refuses a second slice).  A reader who holds the         *)
(* snapshot sees that very capture (bounded-snapshot.h).                   *)
(***************************************************************************)
CleanWindowIsWhole ==
    capture.phase = "sealed" /\ capture.errors = {} =>
        /\ hist = 1..Pictures
        /\ \A p \in Window :
               /\ window[p].picture = p
               /\ window[p].nbytes = 1
               /\ window[p].nwords = pushed[p]
               /\ window[p].meta_seen <= 1
        /\ snapshot # NoReader => captureVars = snapshot

=============================================================================
