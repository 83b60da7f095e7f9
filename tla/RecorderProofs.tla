--------------------------- MODULE RecorderProofs ---------------------------
(***************************************************************************)
(* Proofs about Recorder, for any files, processes, extents and bounds,    *)
(* and about CmdRecorder, which has the same core, in the section before   *)
(* the last.                                                               *)
(*                                                                         *)
(* CleanSealIsComplete and FollowsOwnFile are not inductive by themselves. *)
(* FilesAgree ties the counter of open contexts to the files, so that "no  *)
(* context is open" means what the control file takes it to mean, and      *)
(* keeps context numbers apart; OwnBuffers says what the buffers of the    *)
(* traced process look like before its first job; CleanSoFar follows the   *)
(* work of the device through every phase of a capture without errors.     *)
(* CleanSealIsWhole needs NothingLost on top: what the records are while   *)
(* the capture grows, and the picture in progress that the next one joins. *)
(***************************************************************************)
EXTENDS Recorder, TLAPS

OpenFiles ==
  {c \in Ctx : IsOpen(c)}

(* The counter, the context numbers and the running job agree with the     *)
(* open files.                                                             *)
FilesAgree ==
  /\ open_contexts = Cardinality(OpenFiles)
  /\ \A c \in Ctx : trace_context[c] <= next_context
  /\ \A c, d \in Ctx : IsOpen(c) /\ trace_context[c] = trace_context[d] => c = d
  /\ capture.context <= next_context
  /\ \A c \in Ctx : ~IsOpen(c) => ~buffer[c].live
  /\ running # NoCtx => IsOpen(running) /\ buffer[running].live

(* Before its first job, the traced process owns only buffers that were    *)
(* created under the capture.                                              *)
OwnBuffers ==
  capture.phase = "armed" =>
    /\ capture.context = 0
    /\ \A c \in Ctx : buffer[c].live /\ trace_pid[c] = capture.pid =>
         buffer[c].traced /\ buffer[c].writer = 0

Good(context) ==
  [context |-> context, hevc |-> TRUE, started |-> TRUE, ok |-> TRUE]

(* A capture without errors in the phase armed has seen no work, ...       *)
CleanArmed ==
  /\ running = NoCtx /\ ended = 0 /\ seen = {}
  /\ capture.pictures = 0 /\ capture.completions = 0 /\ capture.pending = 0

(* ... in the phase active only work of its context, all of it recorded,   *)
(* ...                                                                     *)
CleanActive ==
  /\ ended = capture.completions
  /\ seen \subseteq {Good(capture.context)}
  /\ seen = {} => ended = 0
  /\ running = NoCtx => capture.pending = 0
  /\ running # NoCtx => /\ trace_context[running] = capture.context /\ hevc
                        /\ capture.pending # 0 <=> started
  /\ capture.pending = 0 => capture.pictures = capture.completions
  /\ capture.pending # 0 => capture.pictures = capture.completions + 1

(* ... and afterwards the whole of it.                                     *)
CleanComplete ==
  /\ capture.pictures = Pictures /\ capture.completions = Pictures
  /\ ended = Pictures
  /\ seen = {Good(capture.context)}

CleanSoFar ==
  capture.errors = {} =>
    /\ capture.phase = "armed" => CleanArmed
    /\ capture.phase = "active" => CleanActive
    /\ capture.phase = "drained" => CleanComplete /\ running = NoCtx
    /\ capture.phase = "sealed" => CleanComplete

(* The inductive invariant.                                                *)
IInv ==
  /\ TypeOK /\ FilesAgree /\ OwnBuffers /\ FollowsOwnFile
  /\ CleanSoFar /\ PinnedUnchanged

-----------------------------------------------------------------------------

(* Flagging no error leaves a capture as it is. *)
LEMMA FlagNothing ==
  ASSUME NEW c \in Capture(Run, Pid)
  PROVE  Flag(c, {}) = c
<1>1. c.errors \cup {} = c.errors
  BY Zenon
<1>. QED  BY <1>1 DEF Flag, Capture

(* What atr_open does: at most an error, and nothing outside a recording. *)
Opened(c, d) ==
  /\ d \in Capture(Run, Pid)
  /\ d.pid = c.pid /\ d.context = c.context /\ d.phase = c.phase
  /\ d.pictures = c.pictures /\ d.completions = c.completions
  /\ d.pending = c.pending
  /\ d.errors = {} => c.errors = {}
  /\ ~Recording(c) => d = c

(* atr_open does that. *)
LEMMA OpenEffect ==
  ASSUME NEW c \in Capture(Run, Pid), NEW pid
  PROVE  Opened(c, atr_open(c, pid))
<1> DEFINE d == atr_open(c, pid)
<1>1. ~Recording(c) => d = c
  BY Zenon, FlagNothing DEF atr_open, If
<1>. QED  BY <1>1 DEF Opened, atr_open, Flag, If, Recording, Capture, Phase, Error

(* What atr_bind does: the traced process's first HEVC job binds, work of  *)
(* the bound context passes, anything else is an error while recording.    *)
Bound(c, pid, n, h, d) ==
  /\ d \in Capture(Run, Pid)
  /\ d.pid = c.pid
  /\ d.pictures = c.pictures /\ d.completions = c.completions
  /\ d.pending = c.pending
  /\ d.errors = {} => c.errors = {}
  /\ ~Recording(c) => d = c
  /\ \/ /\ c.phase = "armed" /\ pid = c.pid /\ h
        /\ d.phase = "active" /\ d.context = n /\ d.errors = c.errors
     \/ /\ ~(c.phase = "armed" /\ pid = c.pid /\ h)
        /\ d.phase = c.phase /\ d.context = c.context
        /\ Recording(c) /\ (n # c.context \/ ~h \/ c.phase = "drained") =>
             d.errors # {}

(* atr_bind does that. *)
LEMMA BindEffect ==
  ASSUME NEW c \in Capture(Run, Pid), NEW pid, NEW n \in Nat,
         NEW h \in BOOLEAN
  PROVE  Bound(c, pid, n, h, atr_bind(c, pid, n, h))
<1> DEFINE d == atr_bind(c, pid, n, h)
<1>1. ~Recording(c) => d = c
  BY Zenon, FlagNothing DEF atr_bind, If, Recording
<1>2. d \in Capture(Run, Pid)
  BY Zenon DEF atr_bind, Flag, If, Capture, Phase, Error
<1>. QED  BY <1>1, <1>2 DEF Bound, atr_bind, Flag, If, Recording, Capture

(* What atr_start does to a selected capture.                              *)
Begun(c, n, d) ==
  /\ d \in Capture(Run, Pid)
  /\ d.pid = c.pid /\ d.context = c.context /\ d.phase = c.phase
  /\ ~atr_selected(c, n) => d = c
  /\ atr_selected(c, n) =>
       /\ d.pictures = c.pictures + 1 /\ d.pending = c.pictures + 1
       /\ d.completions = c.completions
       /\ d.errors = {} => c.errors = {} /\ c.pending = 0

(* atr_start does that. *)
LEMMA StartEffect ==
  ASSUME NEW c \in Capture(Run, Pid), NEW n \in Nat, NEW g \in BOOLEAN
  PROVE  Begun(c, n, atr_start(c, n, g))
<1> DEFINE d == atr_start(c, n, g)
<1>1. /\ c.pictures + 1 \in Nat
      /\ c.errors \cup If(c.pending # 0, "order")
           \cup If(c.pictures + 1 > Pictures, "extent")
           \cup If(~g, "shape") \in SUBSET Error
  BY DEF If, Capture, Error
<1>2. d \in Capture(Run, Pid)
  BY Zenon, <1>1 DEF atr_start, Capture
<1>. QED  BY ZenonT(60), <1>2 DEF Begun, atr_start, If, Capture

(* What atr_done does to a selected capture.                               *)
Finished(c, n, ok, d) ==
  /\ d \in Capture(Run, Pid)
  /\ d.pid = c.pid /\ d.context = c.context /\ d.phase = c.phase
  /\ d.pictures = c.pictures
  /\ ~atr_selected(c, n) => d = c
  /\ atr_selected(c, n) =>
       /\ d.completions = c.completions + 1 /\ d.pending = 0
       /\ d.errors = {} => c.errors = {} /\ c.pending # 0 /\ ok

(* atr_done does that. *)
LEMMA DoneEffect ==
  ASSUME NEW c \in Capture(Run, Pid), NEW n \in Nat, NEW ok \in BOOLEAN
  PROVE  Finished(c, n, ok, atr_done(c, n, ok))
<1> DEFINE d == atr_done(c, n, ok)
<1>1. /\ c.completions + 1 \in Nat
      /\ c.errors \cup If(c.pending = 0, "order")
           \cup If(~ok, "failed") \in SUBSET Error
  BY DEF If, Capture, Error
<1>2. d \in Capture(Run, Pid)
  BY Zenon, <1>1 DEF atr_done, Capture
<1>. QED  BY <1>2 DEF Finished, atr_done, If, Capture

(* What atr_close does to a selected capture.                              *)
Closed(c, n, d) ==
  /\ d \in Capture(Run, Pid)
  /\ d.pid = c.pid /\ d.context = c.context
  /\ d.pictures = c.pictures /\ d.completions = c.completions
  /\ d.pending = c.pending
  /\ ~atr_selected(c, n) => d = c
  /\ atr_selected(c, n) =>
       /\ d.phase = "drained"
       /\ d.errors = {} => /\ c.errors = {} /\ c.pictures = Pictures
                           /\ c.completions = Pictures
                           /\ c.pending = 0

(* atr_close does that. *)
LEMMA CloseEffect ==
  ASSUME NEW c \in Capture(Run, Pid), NEW n \in Nat
  PROVE  Closed(c, n, atr_close(c, n))
<1> DEFINE d == atr_close(c, n)
<1>1. d \in Capture(Run, Pid)
  BY Zenon DEF atr_close, If, Capture, Error, Phase
<1>. QED  BY <1>1 DEF Closed, atr_close, If, Capture

(* What an append does: the capture is the given one, or it has overflowed.*)
Appended(c, n) ==
  /\ capture' \in Capture(Run, Pid)
  /\ capture'.pid = c.pid /\ capture'.context = c.context
  /\ capture'.phase = c.phase /\ capture'.pictures = c.pictures
  /\ capture'.completions = c.completions
  /\ capture'.pending = c.pending
  /\ capture'.errors = {} => c.errors = {}
  /\ ~atr_selected(c, n) =>
       capture' = c /\ records' = records /\ attempted' = attempted
  /\ records' \in Seq(Record) /\ Len(records') <= Capacity
  /\ attempted' \in Nat

(* atr_append does that. *)
LEMMA AppendEffect ==
  ASSUME NEW c \in Capture(Run, Pid), NEW n \in Nat, NEW r \in Record,
         records \in Seq(Record), Len(records) <= Capacity, attempted \in Nat,
         atr_append(c, n, r)
  PROVE  Appended(c, n)
<1>1. capture' \in Capture(Run, Pid)
  BY ZenonT(60) DEF atr_append, Flag, Capture, Error
<1>2. /\ records' \in Seq(Record) /\ Len(records') <= Capacity
      /\ attempted' \in Nat
  BY SMTT(30), RecorderAssumption DEF atr_append
<1>. QED  BY SMTT(30), <1>1, <1>2 DEF Appended, atr_append, Flag, Capture

(* How the elements of a finite set are counted; proved at the end, from   *)
(* the library.                                                            *)
Counting ==
  \A S \in SUBSET Ctx :
    /\ Cardinality(S) \in Nat
    /\ Cardinality(S) = 0 <=> S = {}
    /\ \A c \in Ctx \ S : Cardinality(S \cup {c}) = Cardinality(S) + 1
    /\ \A c \in S : Cardinality(S \ {c}) = Cardinality(S) - 1

(* "No context is open" is what the counter says.                          *)
LEMMA NothingOpen ==
  ASSUME Counting, FilesAgree, open_contexts = 0
  PROVE  \A c \in Ctx : ~IsOpen(c)
<1>1. OpenFiles = {}
  <2>1. OpenFiles \in SUBSET Ctx
    BY Zenon DEF OpenFiles
  <2>. QED  BY Zenon, <2>1 DEF FilesAgree, Counting
<1>. QED  BY <1>1 DEF OpenFiles

-----------------------------------------------------------------------------

(* Preserved by an open: its context number is new.                        *)
LEMMA OpenKeeps ==
  ASSUME Counting, IInv, NEW c \in Ctx, NEW pid \in Pid, avd_trace_open(c, pid)
  PROVE  IInv'
<1> USE RecorderAssumption
    DEF IInv, avd_trace_open, captureVars, fileVars, jobVars, history, IsOpen
<1>0. capture \in Capture(Run, Pid) /\ capture' = atr_open(capture, pid)
  BY Zenon DEF TypeOK
<1>1. Opened(capture, capture')
  BY Zenon, <1>0, OpenEffect
<1>2. TypeOK'
  BY <1>1 DEF Opened, TypeOK
<1>3. open_contexts' = Cardinality(OpenFiles')
  <2>1. OpenFiles' = OpenFiles \cup {c} /\ c \notin OpenFiles
    BY DEF OpenFiles, TypeOK
  <2>2. OpenFiles \in SUBSET Ctx /\ c \in Ctx \ OpenFiles
    BY Zenon, <2>1 DEF OpenFiles
  <2>. QED  BY Zenon, <2>1, <2>2 DEF FilesAgree, Counting
<1>4. FilesAgree'
  <2>1. /\ \A d \in Ctx : trace_context'[d] <= next_context'
        /\ capture'.context <= next_context'
    BY SMTT(30), <1>1 DEF Opened, TypeOK, Capture, FilesAgree
  <2>2. \A d, e \in Ctx :
          trace_context'[d] # 0 /\ trace_context'[d] = trace_context'[e] => d = e
    <3>1. /\ trace_context'[c] = next_context + 1
          /\ \A d \in Ctx \ {c} : /\ trace_context'[d] = trace_context[d]
                                  /\ trace_context[d] # next_context + 1
      BY DEF TypeOK, FilesAgree
    <3>2. \A d, e \in Ctx \ {c} :
            trace_context[d] # 0 /\ trace_context[d] = trace_context[e] => d = e
      BY Zenon DEF FilesAgree
    <3>. QED  BY <3>1, <3>2
  <2>3. \A d \in Ctx : trace_context'[d] = 0 => ~buffer'[d].live
    BY Zenon DEF TypeOK, FilesAgree
  <2>4. running' # NoCtx => trace_context'[running'] # 0 /\ buffer'[running'].live
    BY Zenon DEF TypeOK, FilesAgree
  <2>. QED  BY <1>3, <2>1, <2>2, <2>3, <2>4 DEF FilesAgree
<1>5. OwnBuffers'
  BY ZenonT(60), <1>1 DEF Opened, TypeOK, FilesAgree, OwnBuffers
<1>6. FollowsOwnFile'
  BY ZenonT(60), <1>1 DEF Opened, TypeOK, FollowsOwnFile
<1>7. CleanSoFar'
  BY Zenon, <1>1 DEF Opened, TypeOK, FilesAgree, CleanSoFar, CleanArmed, CleanActive,
      CleanComplete
<1>8. PinnedUnchanged'
  BY Zenon, <1>1 DEF Opened, PinnedUnchanged, Recording
<1>. QED  BY <1>2, <1>4, <1>5, <1>6, <1>7, <1>8

(* Preserved by the creation of a buffer: a file of the traced process     *)
(* gets a traced one.                                                      *)
LEMMA BufInitKeeps ==
  ASSUME IInv, NEW c \in Ctx, avd_trace_buf_init(c)
  PROVE  IInv'
<1> USE RecorderAssumption
    DEF IInv, avd_trace_buf_init, captureVars, fileVars, jobVars, history,
        IsOpen, NoBuffer
<1>1. TypeOK'
  <2>1. buffer' \in [Ctx -> [traced : BOOLEAN, writer : Nat,
                             completed : BOOLEAN, live : BOOLEAN]]
    BY Zenon DEF TypeOK
  <2>. QED  BY SMTT(30), <2>1 DEF TypeOK
<1>2. FilesAgree' /\ OwnBuffers'
  BY ZenonT(60) DEF TypeOK, FilesAgree, OwnBuffers, OpenFiles
<1>3. FollowsOwnFile'
  BY DEF TypeOK, Capture, FollowsOwnFile, FilesAgree, atr_selected
<1>4. CleanSoFar' /\ PinnedUnchanged'
  BY Zenon DEF CleanSoFar, CleanArmed, CleanActive, CleanComplete, PinnedUnchanged
<1>. QED  BY <1>1, <1>2, <1>3, <1>4

(* Preserved by the removal of a buffer.                                   *)
LEMMA BufCleanupKeeps ==
  ASSUME IInv, NEW c \in Ctx, avd_trace_buf_cleanup(c)
  PROVE  IInv'
<1> USE RecorderAssumption
    DEF IInv, avd_trace_buf_cleanup, captureVars, fileVars, jobVars, history,
        IsOpen, NoBuffer
<1>1. TypeOK' /\ FilesAgree' /\ OwnBuffers' /\ FollowsOwnFile'
  BY ZenonT(60) DEF TypeOK, FilesAgree, OwnBuffers, OpenFiles, FollowsOwnFile
<1>2. CleanSoFar' /\ PinnedUnchanged'
  BY Zenon DEF CleanSoFar, CleanArmed, CleanActive, CleanComplete, PinnedUnchanged
<1>. QED  BY <1>1, <1>2

(* Preserved by the start of a job: it binds the capture, belongs to the   *)
(* bound context, or is an error.                                          *)
LEMMA JobKeeps ==
  ASSUME IInv, NEW c \in Ctx, NEW is_hevc \in BOOLEAN,
         avd_trace_job(c, is_hevc)
  PROVE  IInv'
<1> USE RecorderAssumption
    DEF IInv, avd_trace_job, captureVars, fileVars, jobVars, history, IsOpen
<1>0. /\ capture \in Capture(Run, Pid) /\ trace_context[c] \in Nat
      /\ capture' = atr_bind(capture, trace_pid[c], trace_context[c], is_hevc)
  BY Zenon DEF TypeOK
<1>1. Bound(capture, trace_pid[c], trace_context[c], is_hevc, capture')
  BY Zenon, <1>0, BindEffect
<1>3. TypeOK'
  BY Zenon, <1>1 DEF Bound, TypeOK
<1>4. FilesAgree'
  BY ZenonT(60), <1>1 DEF Bound, TypeOK, Capture, FilesAgree, OpenFiles
<1>5. OwnBuffers'
  BY Zenon, <1>1 DEF Bound, OwnBuffers
<1>6. FollowsOwnFile'
  BY SMTT(30), <1>1 DEF Bound, TypeOK, Capture, FollowsOwnFile, OwnBuffers
<1>7. CleanSoFar'
  BY SMTT(30), <1>1 DEF Bound, TypeOK, Recording, FilesAgree, OwnBuffers,
      CleanSoFar,
      CleanArmed, CleanActive, CleanComplete
<1>8. PinnedUnchanged'
  BY Zenon, <1>1 DEF Bound, PinnedUnchanged, Recording
<1>. QED  BY Zenon, <1>3, <1>4, <1>5, <1>6, <1>7, <1>8

(* Preserved by the start of a picture.                                    *)
LEMMA StartKeeps ==
  ASSUME IInv, NEW good_shape \in BOOLEAN, avd_trace_start(good_shape)
  PROVE  IInv'
<1> DEFINE n == trace_context[running]
           next == atr_start(capture, n, good_shape)
           r == [kind |-> "start", picture |-> next.pictures,
                 writer |-> buffer[running].writer, completed |-> FALSE]
<1> USE RecorderAssumption
    DEF IInv, avd_trace_start, captureVars, fileVars, jobVars, history, IsOpen
<1>1. running \in Ctx /\ n \in Nat /\ capture \in Capture(Run, Pid)
  BY Zenon DEF TypeOK
<1>2. Begun(capture, n, next)
  BY Zenon, <1>1, StartEffect
<1>3. atr_append(next, n, r) /\ r \in Record
  BY Zenon, <1>1, <1>2 DEF Begun, TypeOK, Record, Capture
<1>4. atr_selected(next, n) = atr_selected(capture, n)
  BY Zenon, <1>2 DEF Begun, atr_selected
<1>. HIDE DEF next, r
<1>5. Appended(next, n)
  BY Zenon, <1>1, <1>2, <1>3, AppendEffect DEF TypeOK, Begun
<1>6. /\ running' = running /\ hevc' = hevc /\ hevc /\ started'
      /\ UNCHANGED <<fileVars, last_run, snapshot, history>>
      /\ buffer' = IF atr_selected(capture, n)
                   THEN [buffer EXCEPT ![running].writer = next.pictures,
                                       ![running].completed = FALSE]
                   ELSE buffer
  BY Zenon DEF next
<1> HIDE DEF avd_trace_start
<1>7. TypeOK'
  <2>1. buffer' \in [Ctx -> [traced : BOOLEAN, writer : Nat,
                             completed : BOOLEAN, live : BOOLEAN]]
    <3>1. next.pictures \in Nat
      BY Zenon, <1>2 DEF Begun, Capture
    <3>. QED  BY ZenonT(60), <1>1, <1>6, <3>1 DEF TypeOK
  <2>. QED  BY SMTT(30), <1>5, <1>6, <2>1 DEF TypeOK, Appended
<1>8. /\ \A c \in Ctx : buffer'[c].live = buffer[c].live
      /\ \A c \in Ctx : buffer'[c].traced = buffer[c].traced
  BY ZenonT(60), <1>1, <1>6 DEF TypeOK
<1>9. FilesAgree'
  BY SMTT(30), <1>4, <1>1, <1>2, <1>5, <1>6, <1>8 DEF Begun, Appended,
      TypeOK, FilesAgree, OpenFiles
<1>10. OwnBuffers'
  BY Zenon, <1>4, <1>1, <1>2, <1>5, <1>6 DEF Begun, Appended, OwnBuffers, atr_selected
<1>11. FollowsOwnFile'
  <2>1. ASSUME capture'.phase = "active" PROVE FollowsOwnFile'
    <3>1. PICK c \in Ctx :
            /\ trace_context[c] = capture.context /\ trace_context[c] # 0
            /\ trace_pid[c] = capture.pid
            /\ buffer[c].live =>
                 buffer[c].traced /\ buffer[c].writer <= capture.pictures
      BY Zenon, <1>4, <1>2, <1>5, <2>1 DEF Begun, Appended, FollowsOwnFile
    <3>2. buffer'[c].writer \in {buffer[c].writer, next.pictures}
      BY ZenonT(60), <1>1, <1>6 DEF TypeOK
    <3>3. next.pictures \in Nat /\ capture.pictures <= next.pictures
      BY <1>2 DEF Begun, TypeOK, Capture
    <3>4. buffer'[c].live =>
            buffer'[c].traced /\ buffer'[c].writer <= capture'.pictures
      <4>1. buffer[c].writer \in Nat /\ capture.pictures \in Nat
        BY Zenon DEF TypeOK, Capture
      <4>2. capture'.pictures = next.pictures
        BY Zenon, <1>5 DEF Appended
      <4>. QED  BY <1>8, <3>1, <3>2, <3>3, <4>1, <4>2
    <3>. QED  BY SMTT(30), <1>4, <1>2, <1>5, <1>6, <3>1, <3>4 DEF Begun,
                 Appended, FollowsOwnFile
  <2>. QED  BY <2>1 DEF FollowsOwnFile
<1>12. CleanSoFar'
  <2>1. CASE atr_selected(capture, n)
    <3>1. ASSUME capture'.errors = {} PROVE CleanActive'
      <4>1. /\ capture.errors = {} /\ capture.pending = 0
            /\ capture.phase = "active" /\ n = capture.context
        BY Zenon, <1>2, <1>5, <2>1, <3>1 DEF Begun, Appended, atr_selected
      <4>2. CleanActive /\ capture.pictures \in Nat
        BY Zenon, <4>1 DEF CleanSoFar, TypeOK, Capture
      <4>. QED  BY SMTT(30), <1>1, <1>2, <1>5, <1>6, <2>1, <4>1, <4>2
             DEF Begun, Appended, CleanActive
    <3>. QED  BY <1>2, <1>5, <2>1, <3>1
           DEF Begun, Appended, CleanSoFar, atr_selected
  <2>2. CASE ~atr_selected(capture, n)
    BY ZenonT(60), <1>2, <1>4, <1>5, <1>6, <2>2 DEF Begun, Appended, CleanSoFar,
        CleanArmed, CleanActive, CleanComplete, atr_selected
  <2>. QED  BY <2>1, <2>2
<1>13. PinnedUnchanged'
  BY Zenon, <1>4, <1>2, <1>5, <1>6 DEF Begun, Appended, PinnedUnchanged, atr_selected
<1>. QED  BY <1>7, <1>9, <1>10, <1>11, <1>12, <1>13


(* Preserved by a detail record, which changes nothing but the records.    *)
LEMMA DetailKeeps ==
  ASSUME IInv, avd_trace_detail
  PROVE  IInv'
<1> DEFINE n == trace_context[running]
           r == [kind |-> "detail", picture |-> capture.pictures,
                 writer |-> buffer[running].writer,
                 completed |-> buffer[running].completed]
<1> USE RecorderAssumption
    DEF IInv, avd_trace_detail, captureVars, fileVars, jobVars, history, IsOpen
<1>1. /\ running \in Ctx /\ n \in Nat /\ capture \in Capture(Run, Pid)
      /\ atr_append(capture, n, r) /\ r \in Record
  BY Zenon DEF TypeOK, Record, Capture
<1>. HIDE DEF r
<1>2. Appended(capture, n)
  BY Zenon, <1>1, AppendEffect DEF TypeOK
<1>3. TypeOK'
  BY Zenon, <1>2 DEF TypeOK, Appended
<1>4. FilesAgree' /\ OwnBuffers' /\ FollowsOwnFile'
  BY ZenonT(60), <1>2 DEF Appended, FilesAgree, OpenFiles, OwnBuffers,
     FollowsOwnFile
<1>5. CleanSoFar'
  BY Zenon, <1>2 DEF Appended, CleanSoFar, CleanArmed, CleanActive, CleanComplete
<1>6. PinnedUnchanged'
  BY Zenon, <1>2 DEF PinnedUnchanged, atr_selected
<1>. QED  BY <1>3, <1>4, <1>5, <1>6

(* Preserved by the end of a job.                                          *)
LEMMA DoneKeeps ==
  ASSUME IInv, NEW ok \in BOOLEAN, NEW has_dst \in BOOLEAN,
         avd_trace_done(ok, has_dst)
  PROVE  IInv'
<1> DEFINE n == trace_context[running]
           flagged == IF atr_selected(capture, n) /\ ~has_dst
                      THEN Flag(capture, {"order"}) ELSE capture
           next == atr_done(flagged, n, ok)
           written == [buffer[running] EXCEPT !.completed = ok]
           r == [kind |-> "done", picture |-> capture.pictures,
                 writer |-> IF has_dst THEN written.writer ELSE 0,
                 completed |-> has_dst /\ ok]
<1> USE RecorderAssumption
    DEF IInv, captureVars, fileVars, jobVars, history, IsOpen
<1>1. running \in Ctx /\ n \in Nat /\ capture \in Capture(Run, Pid)
  BY Zenon DEF TypeOK, avd_trace_done
<1>2. /\ flagged \in Capture(Run, Pid)
      /\ flagged.pid = capture.pid /\ flagged.context = capture.context
      /\ flagged.phase = capture.phase /\ flagged.pictures = capture.pictures
      /\ flagged.completions = capture.completions
      /\ flagged.pending = capture.pending
      /\ flagged.errors = {} => capture.errors = {}
      /\ ~atr_selected(capture, n) => flagged = capture
  BY Zenon, <1>1 DEF Flag, Capture, Error
<1>3. atr_append(next, n, r) /\ r \in Record
  <2>1. buffer[running].writer \in Nat
    BY Zenon, <1>1 DEF TypeOK
  <2>2. r \in Record
    BY <1>1, <2>1 DEF TypeOK, Record, Capture
  <2>3. atr_append(next, n, r)
    BY Zenon DEF avd_trace_done
  <2>. QED  BY <2>2, <2>3
<1>4. /\ running' = NoCtx /\ hevc' = FALSE /\ started' = FALSE
      /\ ok => started \/ ~hevc
      /\ UNCHANGED <<fileVars, last_run, snapshot>>
      /\ buffer' = IF atr_selected(capture, n) /\ has_dst
                   THEN [buffer EXCEPT ![running] = written] ELSE buffer
      /\ IF Recording(capture)
         THEN /\ ended' = ended + 1
              /\ seen' = seen \cup {[context |-> n, hevc |-> hevc,
                                     started |-> started, ok |-> ok]}
         ELSE UNCHANGED history
  BY Zenon DEF avd_trace_done
<1>. HIDE DEF flagged, r
<1>5. Finished(flagged, n, ok, next)
  BY Zenon, <1>1, <1>2, DoneEffect
<1>6. atr_selected(flagged, n) = atr_selected(capture, n)
  BY Zenon, <1>2 DEF atr_selected
<1>. HIDE DEF next
<1>7. Appended(next, n)
  BY Zenon, <1>1, <1>3, <1>5, AppendEffect DEF TypeOK, Finished
<1>8. atr_selected(next, n) = atr_selected(capture, n)
  BY Zenon, <1>2, <1>5 DEF Finished, atr_selected
<1>9. /\ buffer' \in [Ctx -> [traced : BOOLEAN, writer : Nat,
                             completed : BOOLEAN, live : BOOLEAN]]
      /\ \A c \in Ctx : /\ buffer'[c].live = buffer[c].live
                        /\ buffer'[c].traced = buffer[c].traced
                        /\ buffer'[c].writer = buffer[c].writer
  <2>1. /\ written \in [traced : BOOLEAN, writer : Nat,
                         completed : BOOLEAN, live : BOOLEAN]
        /\ written.live = buffer[running].live
        /\ written.traced = buffer[running].traced
        /\ written.writer = buffer[running].writer
    BY ZenonT(60), <1>1 DEF TypeOK
  <2>. HIDE DEF written
  <2>2. buffer' = buffer \/ buffer' = [buffer EXCEPT ![running] = written]
    BY Zenon, <1>4
  <2>3. buffer \in [Ctx -> [traced : BOOLEAN, writer : Nat,
                            completed : BOOLEAN, live : BOOLEAN]]
    BY Zenon DEF TypeOK
  <2>4. buffer' \in [Ctx -> [traced : BOOLEAN, writer : Nat,
                             completed : BOOLEAN, live : BOOLEAN]]
    BY Zenon, <1>1, <2>1, <2>2, <2>3
  <2>. QED  BY <1>1, <2>1, <2>2, <2>3, <2>4
<1>. HIDE DEF written
<1>10. TypeOK'
  <2>1. ended' \in Nat /\ seen' \subseteq Job
    BY <1>1, <1>4 DEF TypeOK, Job
  <2>. QED  BY Zenon, <1>4, <1>7, <1>9, <2>1 DEF TypeOK, Appended
<1>11. FilesAgree' /\ OwnBuffers' /\ FollowsOwnFile'
  <2>1. /\ capture'.context = capture.context /\ capture'.pid = capture.pid
        /\ capture'.phase = capture.phase
        /\ capture'.pictures = capture.pictures
    BY Zenon, <1>2, <1>5, <1>7 DEF Finished, Appended
  <2>2. UNCHANGED fileVars /\ running' = NoCtx
    BY Zenon, <1>4
  <2>3. FilesAgree'
    BY Zenon, <1>9, <2>1, <2>2 DEF FilesAgree, OpenFiles
  <2>4. OwnBuffers'
    BY ZenonT(60), <1>9, <2>1, <2>2 DEF OwnBuffers
  <2>5. FollowsOwnFile'
    BY ZenonT(60), <1>9, <2>1, <2>2 DEF FollowsOwnFile
  <2>. QED  BY <2>3, <2>4, <2>5
<1>12. CleanSoFar'
  <2>1. CASE atr_selected(capture, n)
    <3>1. ASSUME capture'.errors = {} PROVE CleanActive'
      <4>1. /\ capture.errors = {} /\ capture.pending # 0 /\ ok
            /\ capture.phase = "active" /\ n = capture.context
        BY ZenonT(60), <1>2, <1>5, <1>6, <1>7, <2>1, <3>1
           DEF Finished, Appended, atr_selected
      <4>2. /\ CleanActive /\ hevc /\ started
            /\ capture.completions \in Nat /\ ended \in Nat
        BY Zenon, <1>1, <4>1 DEF CleanSoFar, CleanActive, TypeOK, Capture
      <4>3. /\ ended' = ended + 1
            /\ seen' = {Good(capture.context)}
        BY ZenonT(60), <1>4, <4>1, <4>2 DEF CleanActive, Recording, Good
      <4>. QED  BY ZenonT(60), <1>2, <1>4, <1>5, <1>6, <1>7, <2>1, <4>1, <4>2,
                   <4>3
             DEF Finished, Appended, CleanActive, Good
    <3>. QED  BY <1>2, <1>5, <1>7, <2>1, <3>1
           DEF Finished, Appended, CleanSoFar, atr_selected
  <2>2. CASE ~atr_selected(capture, n)
    <3>1. capture' = capture
      BY Zenon, <1>2, <1>5, <1>6, <1>7, <1>8, <2>2 DEF Finished, Appended
    <3>2. ASSUME capture.errors = {} PROVE ~Recording(capture)
      BY Zenon, <1>1, <2>2, <3>2 DEF CleanSoFar, CleanArmed, CleanActive, Recording,
          atr_selected
    <3>. QED  BY <1>4, <3>1, <3>2 DEF CleanSoFar, CleanComplete, Recording
  <2>. QED  BY <2>1, <2>2
<1>13. PinnedUnchanged'
  BY Zenon, <1>2, <1>4, <1>5, <1>6, <1>7, <1>8
     DEF Finished, Appended, PinnedUnchanged, atr_selected
<1>. QED  BY <1>10, <1>11, <1>12, <1>13

(* Preserved by a close: the close of the bound context drains.            *)
LEMMA CloseKeeps ==
  ASSUME Counting, IInv, NEW c \in Ctx, avd_trace_close(c)
  PROVE  IInv'
<1> USE RecorderAssumption
    DEF IInv, avd_trace_close, captureVars, fileVars, jobVars, history,
        IsOpen, NoBuffer
<1>1. /\ capture \in Capture(Run, Pid) /\ trace_context[c] \in Nat
      /\ capture' = atr_close(capture, trace_context[c])
  BY Zenon DEF TypeOK
<1>2. Closed(capture, trace_context[c], capture')
  BY Zenon, <1>1, CloseEffect
<1>3. open_contexts' = Cardinality(OpenFiles') /\ open_contexts' \in Nat
  <2>1. OpenFiles' = OpenFiles \ {c} /\ c \in OpenFiles
    BY Zenon DEF OpenFiles, TypeOK
  <2>2. OpenFiles \in SUBSET Ctx /\ OpenFiles \ {c} \in SUBSET Ctx
    BY Zenon DEF OpenFiles
  <2>3. /\ Cardinality(OpenFiles') = Cardinality(OpenFiles) - 1
        /\ Cardinality(OpenFiles') \in Nat
        /\ Cardinality(OpenFiles) # 0 /\ Cardinality(OpenFiles) \in Nat
    BY Zenon, <2>1, <2>2 DEF Counting
  <2>. QED  BY <2>3 DEF FilesAgree
<1>4. TypeOK'
  BY Zenon, <1>2, <1>3 DEF Closed, TypeOK
<1>5. FilesAgree'
  BY SMTT(30), <1>2, <1>3 DEF Closed, TypeOK, Capture, FilesAgree
<1>6. OwnBuffers'
  BY <1>2 DEF Closed, TypeOK, OwnBuffers, atr_selected
<1>7. FollowsOwnFile'
  BY ZenonT(60), <1>2 DEF Closed, TypeOK, FilesAgree, FollowsOwnFile,
      atr_selected
<1>8. CleanSoFar'
  <2>1. CASE atr_selected(capture, trace_context[c])
    <3>1. running = NoCtx \/ capture.errors # {}
      BY Zenon, <2>1 DEF TypeOK, FilesAgree, CleanSoFar, CleanActive,
         atr_selected
    <3>. QED  BY <1>2, <2>1, <3>1, ExtentAssumption DEF Closed, CleanSoFar,
           CleanActive, CleanComplete, atr_selected
  <2>2. CASE ~atr_selected(capture, trace_context[c])
    BY Zenon, <1>2, <2>2 DEF Closed, TypeOK, CleanSoFar, CleanArmed,
       CleanActive,
        CleanComplete
  <2>. QED  BY <2>1, <2>2
<1>9. PinnedUnchanged'
  BY Zenon, <1>2 DEF Closed, PinnedUnchanged, atr_selected
<1>. QED  BY <1>4, <1>5, <1>6, <1>7, <1>8, <1>9

(* Preserved by an arm: with no file open there is no work to be missed.   *)
LEMMA ArmKeeps ==
  ASSUME Counting, IInv, NEW run \in Run, NEW pid \in Pid, Arm(run, pid)
  PROVE  IInv'
<1> USE RecorderAssumption
    DEF IInv, Arm, captureVars, fileVars, jobVars, history, IsOpen, Busy
<1>1. /\ \A c \in Ctx : ~IsOpen(c) /\ ~buffer[c].live
      /\ running = NoCtx
  BY Zenon, NothingOpen DEF TypeOK, FilesAgree
<1>2. /\ capture' \in Capture(Run, Pid)
      /\ capture'.pid = pid /\ capture'.context = 0
      /\ capture'.phase = "armed" /\ capture'.pictures = 0
      /\ capture'.completions = 0 /\ capture'.pending = 0
  BY Zenon DEF Armed, Off, Capture, Phase
<1>3. TypeOK'
  BY <1>2 DEF TypeOK
<1>4. FilesAgree'
  BY <1>2 DEF TypeOK, FilesAgree, OpenFiles
<1>5. OwnBuffers' /\ FollowsOwnFile' /\ PinnedUnchanged'
  BY Zenon, <1>1, <1>2 DEF OwnBuffers, FollowsOwnFile, PinnedUnchanged
<1>6. CleanSoFar'
  BY Zenon, <1>1, <1>2 DEF CleanSoFar, CleanArmed
<1>. QED  BY <1>3, <1>4, <1>5, <1>6

(* Preserved by a seal: an armed capture that saw nothing is an error.     *)
LEMMA SealKeeps ==
  ASSUME IInv, NEW run \in Run, Seal(run)
  PROVE  IInv'
<1> USE RecorderAssumption
    DEF IInv, Seal, captureVars, fileVars, jobVars, history, IsOpen, Busy
<1>1. /\ capture' \in Capture(Run, Pid)
      /\ capture'.context = capture.context /\ capture'.phase = "sealed"
      /\ capture'.pictures = capture.pictures
      /\ capture'.completions = capture.completions
      /\ capture'.errors = {} => capture.errors = {} /\ capture.phase = "drained"
  BY Zenon DEF TypeOK, atr_seal, CanSeal, If, Capture, Phase, Error
<1>2. TypeOK'
  BY Zenon, <1>1 DEF TypeOK
<1>3. FilesAgree' /\ OwnBuffers' /\ FollowsOwnFile' /\ PinnedUnchanged'
  BY Zenon, <1>1 DEF FilesAgree, OpenFiles, OwnBuffers, FollowsOwnFile,
      PinnedUnchanged
<1>4. CleanSoFar'
  BY Zenon, <1>1 DEF CleanSoFar, CleanComplete
<1>. QED  BY <1>2, <1>3, <1>4

(* Preserved when the capture is thrown away.                              *)
LEMMA DiscardKeeps ==
  ASSUME IInv, Discard
  PROVE  IInv'
<1> USE RecorderAssumption
    DEF IInv, Discard, captureVars, fileVars, jobVars, history, IsOpen, Busy,
        Off
<1>1. TypeOK'
  BY SMTT(30) DEF TypeOK, Capture, Phase
<1>2. /\ FilesAgree' /\ OwnBuffers' /\ FollowsOwnFile' /\ PinnedUnchanged'
      /\ CleanSoFar'
  BY SMTT(30) DEF TypeOK, FilesAgree, OpenFiles, OwnBuffers, FollowsOwnFile,
      PinnedUnchanged, CleanSoFar
<1>. QED  BY SMTT(30), <1>1, <1>2

(* Preserved by the reader and by steps that change nothing here.          *)
LEMMA ReaderKeeps ==
  ASSUME IInv, snapshot_open \/ snapshot_release \/ UNCHANGED vars
  PROVE  IInv'
<1> USE RecorderAssumption
    DEF IInv, snapshot_open, snapshot_release, vars, captureVars, fileVars,
        jobVars, history, IsOpen
<1>1. TypeOK' /\ PinnedUnchanged'
  BY SMTT(30) DEF TypeOK, PinnedUnchanged
<1>2. FilesAgree' /\ OwnBuffers' /\ FollowsOwnFile' /\ CleanSoFar'
  BY SMTT(30) DEF FilesAgree, OpenFiles, OwnBuffers, FollowsOwnFile,
     CleanSoFar,
      CleanArmed, CleanActive, CleanComplete
<1>. QED  BY SMTT(30), <1>1, <1>2

-----------------------------------------------------------------------------

(* The invariant holds initially: there is no capture and no file.         *)
LEMMA InitIInv ==
  ASSUME Counting, Init
  PROVE  IInv
<1> USE RecorderAssumption DEF Init, Off, NoBuffer, IsOpen
<1>1. TypeOK
  <2>1. capture \in Capture(Run, Pid)
    BY Zenon DEF Capture, Phase
  <2>2. records \in Seq(Record) /\ Len(records) <= Capacity
    OBVIOUS
  <2>. QED  BY ZenonT(60), <2>1, <2>2 DEF TypeOK
<1>2. OpenFiles = {}
  BY Zenon DEF OpenFiles
<1>3. FilesAgree
  <2>1. Cardinality(OpenFiles) = 0
    BY Zenon, <1>2 DEF Counting
  <2>. QED  BY <1>2, <2>1 DEF FilesAgree
<1>4. OwnBuffers /\ FollowsOwnFile /\ PinnedUnchanged /\ CleanSoFar
  BY Zenon DEF OwnBuffers, FollowsOwnFile, PinnedUnchanged, CleanSoFar
<1>. QED  BY <1>1, <1>3, <1>4 DEF IInv

(* Every step of the recorder and of its callers preserves the invariant.  *)
LEMMA NextKeeps ==
  ASSUME Counting, IInv, [Next]_vars
  PROVE  IInv'
BY Zenon, OpenKeeps, BufInitKeeps, BufCleanupKeeps, JobKeeps, StartKeeps,
   DetailKeeps, DoneKeeps, CloseKeeps, ArmKeeps, SealKeeps, DiscardKeeps,
   ReaderKeeps DEF Next

(* No call of the driver touches a sealed capture or its records.          *)
LEMMA SealedStep ==
  ASSUME IInv, Next, capture.phase = "sealed"
  PROVE  capture' = Off \/ captureVars' = captureVars
<1> USE DEF captureVars, fileVars
<1>1. capture \in Capture(Run, Pid) /\ trace_context \in [Ctx -> Nat]
  BY Zenon DEF IInv, TypeOK
<1>2. ~Recording(capture) /\ \A n : ~atr_selected(capture, n)
  BY Zenon DEF Recording, atr_selected
<1>3. ASSUME NEW c \in Ctx, NEW pid \in Pid, avd_trace_open(c, pid)
      PROVE  captureVars' = captureVars
  BY Zenon, <1>1, <1>2, <1>3, OpenEffect DEF avd_trace_open, Opened
<1>4. ASSUME NEW c \in Ctx, NEW h \in BOOLEAN, avd_trace_job(c, h)
      PROVE  captureVars' = captureVars
  <2>1. Bound(capture, trace_pid[c], trace_context[c], h, capture')
    BY Zenon, <1>1, <1>4, BindEffect DEF avd_trace_job
  <2>. QED  BY Zenon, <1>2, <1>4, <2>1 DEF avd_trace_job, Bound
<1>5. ASSUME NEW g \in BOOLEAN, avd_trace_start(g)
      PROVE  captureVars' = captureVars
  BY Zenon, <1>2, <1>5 DEF avd_trace_start, atr_start, atr_append
<1>6. ASSUME NEW ok \in BOOLEAN, NEW d \in BOOLEAN, avd_trace_done(ok, d)
      PROVE  captureVars' = captureVars
  BY Zenon, <1>2, <1>6 DEF avd_trace_done, atr_done, atr_append
<1>7. ASSUME NEW c \in Ctx, avd_trace_close(c)
      PROVE  captureVars' = captureVars
  BY Zenon, <1>2, <1>7 DEF avd_trace_close, atr_close
<1>8. ASSUME NEW run \in Run, NEW pid \in Pid, Arm(run, pid)
      PROVE  FALSE
  BY Zenon, <1>8 DEF Arm, Off
<1>9. ASSUME NEW run \in Run, Seal(run)
      PROVE  FALSE
  BY Zenon, <1>9 DEF Seal, CanSeal
<1>10. ~avd_trace_detail
  BY Zenon, <1>2 DEF avd_trace_detail
<1>. QED  BY ZenonT(60), <1>3, <1>4, <1>5, <1>6, <1>7, <1>8, <1>9, <1>10
       DEF Next, avd_trace_buf_init, avd_trace_buf_cleanup, Discard,
           snapshot_open, snapshot_release

-----------------------------------------------------------------------------

(* The one record of a kind that a picture has.                            *)
Once(s, kind, p) ==
  \E i \in 1..Len(s) :
    \A j \in 1..Len(s) : s[j].picture = p /\ s[j].kind = kind <=> j = i

(* The records of a capture whose last picture has the number pictures and *)
(* whose last finished one the number completions.                         *)
Kept(pictures, completions) ==
  /\ RecordsPair
  /\ \A i \in 1..Len(records) :
       /\ records[i].picture <= pictures
       /\ records[i].kind = "done" => records[i].picture <= completions
  /\ \A p \in 1..pictures : Once(records, "start", p)
  /\ \A p \in 1..completions : Once(records, "done", p)

(* The picture in progress has the last record, which the next one joins,  *)
(* and its number is the writer of the buffer it is decoded into.          *)
InProgress ==
  /\ Len(records) > 0
  /\ records[Len(records)].kind # "done"
  /\ records[Len(records)].picture = capture.pictures
  /\ buffer[running].writer = capture.pictures

(* As long as there is no error nothing has been lost.                     *)
NothingLost ==
  capture.errors = {} =>
    /\ capture.phase = "armed" => records = <<>>
    /\ capture.phase \in {"active", "drained", "sealed"} =>
         Kept(capture.pictures, capture.completions)
    /\ capture.phase = "active" /\ capture.pending # 0 => InProgress

(* A sequence that grows by an element.                                    *)
LEMMA Grown ==
  ASSUME NEW s \in Seq(Record), NEW r \in Record
  PROVE  /\ Append(s, r) \in Seq(Record)
         /\ Len(s) \in Nat /\ Len(Append(s, r)) = Len(s) + 1
         /\ \A i \in 1..Len(s) : Append(s, r)[i] = s[i]
         /\ Append(s, r)[Len(s) + 1] = r
OBVIOUS

(* A record of another kind or picture leaves the one record alone, ...    *)
LEMMA OnceStays ==
  ASSUME NEW s \in Seq(Record), NEW r \in Record, NEW kind, NEW p,
         Once(s, kind, p), r.kind # kind \/ r.picture # p
  PROVE  Once(Append(s, r), kind, p)
<1> DEFINE t == Append(s, r)
<1>1. /\ Len(s) \in Nat /\ Len(t) = Len(s) + 1
      /\ \A i \in 1..Len(s) : t[i] = s[i]
      /\ t[Len(s) + 1] = r
  BY Zenon, Grown
<1> HIDE DEF t
<1>2. PICK i \in 1..Len(s) :
        \A j \in 1..Len(s) : s[j].picture = p /\ s[j].kind = kind <=> j = i
  BY Zenon DEF Once
<1>3. i \in 1..Len(t) /\ i # Len(s) + 1
  BY <1>1
<1>4. ASSUME NEW j \in 1..Len(t)
      PROVE  t[j].picture = p /\ t[j].kind = kind <=> j = i
  <2>1. j \in 1..Len(s) \/ j = Len(s) + 1
    BY <1>1
  <2>. QED  BY Zenon, <1>1, <1>2, <1>3, <2>1
<1>. QED  BY Zenon, <1>3, <1>4 DEF Once, t

(* ... and the first record of a kind and picture is the one.              *)
LEMMA OnceComes ==
  ASSUME NEW s \in Seq(Record), NEW r \in Record,
         \A i \in 1..Len(s) : s[i].kind = r.kind => s[i].picture # r.picture
  PROVE  Once(Append(s, r), r.kind, r.picture)
<1> DEFINE t == Append(s, r)
<1>1. /\ Len(s) \in Nat /\ Len(t) = Len(s) + 1
      /\ \A i \in 1..Len(s) : t[i] = s[i]
      /\ t[Len(s) + 1] = r
  BY Zenon, Grown
<1> HIDE DEF t
<1>2. Len(s) + 1 \in 1..Len(t) /\ Len(s) + 1 \notin 1..Len(s)
  BY <1>1
<1>3. ASSUME NEW j \in 1..Len(t)
      PROVE  t[j].picture = r.picture /\ t[j].kind = r.kind <=> j = Len(s) + 1
  <2>1. j \in 1..Len(s) \/ j = Len(s) + 1
    BY <1>1
  <2>. QED  BY Zenon, <1>1, <1>2, <2>1
<1>. QED  BY Zenon, <1>2, <1>3 DEF Once, t

(* One more record: a start, or a record of the picture in progress.       *)
LEMMA PairGrows ==
  ASSUME records \in Seq(Record), NEW r \in Record, RecordsPair,
         records' = Append(records, r),
         \/ r.kind = "start"
         \/ /\ r.writer = r.picture
            /\ Len(records) > 0
            /\ records[Len(records)].kind # "done"
            /\ records[Len(records)].picture = r.picture
  PROVE  RecordsPair'
<1>1. /\ Len(records) \in Nat /\ Len(records') = Len(records) + 1
      /\ \A i \in 1..Len(records) : records'[i] = records[i]
      /\ records'[Len(records) + 1] = r
  BY Zenon, Grown
<1> SUFFICES ASSUME NEW i \in 1..Len(records'), records'[i].kind # "start"
             PROVE  /\ records'[i].writer = records'[i].picture
                    /\ i > 1
                    /\ records'[i - 1].kind # "done"
                    /\ records'[i - 1].picture = records'[i].picture
  BY Zenon DEF RecordsPair
<1>2. CASE i \in 1..Len(records)
  <2>1. /\ records[i].writer = records[i].picture
        /\ i > 1
        /\ records[i - 1].kind # "done"
        /\ records[i - 1].picture = records[i].picture
    BY Zenon, <1>1, <1>2 DEF RecordsPair
  <2>2. i - 1 \in 1..Len(records)
    BY <1>1, <1>2, <2>1
  <2>. QED  BY Zenon, <1>1, <1>2, <2>1, <2>2
<1>3. CASE i = Len(records) + 1
  <2>1. Len(records) > 0 => /\ i > 1 /\ i - 1 = Len(records)
                            /\ Len(records) \in 1..Len(records)
    BY <1>1, <1>3
  <2>. QED  BY Zenon, <1>1, <1>3, <2>1
<1>. QED  BY <1>1, <1>2, <1>3

(* A step that adds no record keeps what is known of them.                 *)
LEMMA NothingLostStays ==
  ASSUME NothingLost, records' = records,
         capture'.errors = {} =>
           /\ capture.errors = {}
           /\ capture'.pictures = capture.pictures
           /\ capture'.completions = capture.completions
           /\ capture'.pending = capture.pending
           /\ \/ capture'.phase \in {capture.phase, "off"}
              \/ /\ capture.phase = "armed"
                 /\ capture.pictures = 0 /\ capture.completions = 0
                 /\ capture.pending = 0
              \/ capture.phase = "active" /\ capture'.phase = "drained"
              \/ capture.phase = "drained" /\ capture'.phase = "sealed"
           /\ capture.phase = "active" /\ capture.pending # 0 =>
                buffer'[running'].writer = buffer[running].writer
  PROVE  NothingLost'
<1> SUFFICES ASSUME capture'.errors = {} PROVE NothingLost'
  BY Zenon DEF NothingLost
<1>1. CASE capture'.phase \in {capture.phase, "off"}
  BY ZenonT(60), <1>1 DEF NothingLost, Kept, InProgress, RecordsPair
<1>2. CASE /\ capture.phase = "armed" /\ capture'.phase # "armed"
           /\ capture.pictures = 0 /\ capture.completions = 0
           /\ capture.pending = 0
  <2>1. records' = <<>>
    BY Zenon, <1>2 DEF NothingLost
  <2>2. Kept(0, 0)'
    BY <2>1 DEF Kept, RecordsPair
  <2>. QED  BY Zenon, <1>2, <2>2 DEF NothingLost, Kept
<1>3. CASE \/ capture.phase = "active" /\ capture'.phase = "drained"
           \/ capture.phase = "drained" /\ capture'.phase = "sealed"
  BY ZenonT(60), <1>3 DEF NothingLost, Kept, RecordsPair
<1>. QED  BY Zenon, <1>1, <1>2, <1>3

(* An append to a selected capture that ends without an error has stored   *)
(* the record.                                                             *)
LEMMA AppendStores ==
  ASSUME NEW c \in Capture(Run, Pid), NEW n \in Nat, NEW r \in Record,
         atr_append(c, n, r), atr_selected(c, n), capture'.errors = {}
  PROVE  capture' = c /\ records' = Append(records, r)
<1>1. Flag(c, {"overflow"}).errors # {}
  BY Zenon DEF Flag, Capture
<1>. QED  BY Zenon, <1>1 DEF atr_append

(* A capture that is not selected for the running job does not follow the  *)
(* picture in progress.                                                    *)
LEMMA InProgressSelected ==
  ASSUME IInv, capture.errors = {}, capture.phase = "active", capture.pending # 0
  PROVE  /\ running \in Ctx /\ running # NoCtx /\ started
         /\ atr_selected(capture, trace_context[running])
BY Zenon DEF IInv, TypeOK, CleanSoFar, CleanActive, atr_selected

(* Preserved by the start of a picture: its number is new.                 *)
LEMMA StartLosesNothing ==
  ASSUME IInv, NothingLost, NEW good_shape \in BOOLEAN,
         avd_trace_start(good_shape)
  PROVE  NothingLost'
<1> DEFINE n == trace_context[running]
           next == atr_start(capture, n, good_shape)
           r == [kind |-> "start", picture |-> next.pictures,
                 writer |-> buffer[running].writer, completed |-> FALSE]
<1>1. /\ running \in Ctx /\ n \in Nat /\ capture \in Capture(Run, Pid)
      /\ records \in Seq(Record)
      /\ buffer \in [Ctx -> [traced : BOOLEAN, writer : Nat,
                             completed : BOOLEAN, live : BOOLEAN]]
  BY Zenon DEF IInv, TypeOK, avd_trace_start
<1>2. Begun(capture, n, next)
  BY Zenon, <1>1, StartEffect
<1>3. atr_append(next, n, r) /\ r \in Record
  BY Zenon, <1>1, <1>2 DEF Begun, Record, Capture, avd_trace_start
<1>4. /\ running' = running
      /\ buffer' = IF atr_selected(capture, n)
                   THEN [buffer EXCEPT ![running].writer = next.pictures,
                                       ![running].completed = FALSE]
                   ELSE buffer
  BY Zenon DEF avd_trace_start
<1>5. r.kind = "start" /\ r.picture = next.pictures
  BY Zenon
<1>. HIDE DEF next, r
<1>6. CASE ~atr_selected(capture, n)
  <2>1. /\ capture' = capture /\ records' = records
        /\ buffer' = buffer /\ running' = running
    BY Zenon, <1>2, <1>3, <1>4, <1>6 DEF Begun, atr_append
  <2>. QED  BY Zenon, <2>1, NothingLostStays
<1>7. CASE atr_selected(capture, n)
  <2> SUFFICES ASSUME capture'.errors = {} PROVE NothingLost'
    BY Zenon DEF NothingLost
  <2>1. capture' = next /\ records' = Append(records, r)
    BY Zenon, <1>1, <1>2, <1>3, <1>7, AppendStores DEF Begun, atr_selected
  <2>2. /\ capture.errors = {} /\ capture.pending = 0
        /\ capture.phase = "active" /\ capture'.phase = "active"
        /\ capture'.pictures = capture.pictures + 1
        /\ capture'.completions = capture.completions
    BY Zenon, <1>2, <1>7, <2>1 DEF Begun, atr_selected
  <2>3. /\ capture.pictures \in Nat /\ capture.completions = capture.pictures
        /\ Kept(capture.pictures, capture.completions)
    BY Zenon, <1>1, <2>2 DEF IInv, CleanSoFar, CleanActive, NothingLost, Capture
  <2>4. /\ Len(records) \in Nat /\ Len(records') = Len(records) + 1
        /\ \A i \in 1..Len(records) : records'[i] = records[i]
        /\ records'[Len(records) + 1] = r
        /\ \A i \in 1..Len(records) : records[i].picture \in Nat
    <3>1. \A i \in 1..Len(records) : records[i] \in Record
      BY <1>1
    <3>2. \A i \in 1..Len(records) : records[i].picture \in Nat
      BY Zenon, <3>1 DEF Record
    <3>. QED  BY ZenonT(60), <1>1, <1>3, <2>1, <3>2, Grown
  <2>5. r.picture = capture.pictures + 1
    BY Zenon, <1>5, <2>1, <2>2
  <2>6. RecordsPair'
    BY Zenon, <1>1, <1>3, <1>5, <2>1, <2>3, PairGrows DEF Kept
  <2>7. ASSUME NEW i \in 1..Len(records')
        PROVE  /\ records'[i].picture <= capture'.pictures
               /\ records'[i].kind = "done" =>
                    records'[i].picture <= capture'.completions
    <3>1. CASE i \in 1..Len(records)
      <4>1. /\ records[i].picture <= capture.pictures
            /\ records[i].picture \in Nat
            /\ records[i].kind = "done" =>
                 records[i].picture <= capture.completions
        BY Zenon, <2>3, <2>4, <3>1 DEF Kept
      <4>2. records[i].picture <= capture.pictures + 1
        BY <2>3, <4>1
      <4>. QED  BY Zenon, <2>2, <2>4, <3>1, <4>1, <4>2
    <3>2. CASE i = Len(records) + 1
      <4>1. capture.pictures + 1 <= capture.pictures + 1
        BY <2>3
      <4>. QED  BY Zenon, <1>5, <2>2, <2>4, <2>5, <3>2, <4>1
    <3>. QED  BY <2>4, <3>1, <3>2
  <2>8. ASSUME NEW p \in 1..capture'.pictures
        PROVE  Once(records', "start", p)
    <3>1. CASE p \in 1..capture.pictures
      <4>1. p # r.picture
        BY <2>3, <2>5, <3>1
      <4>. QED  BY Zenon, <1>1, <1>3, <2>1, <2>3, <3>1, <4>1, OnceStays DEF Kept
    <3>2. CASE p = capture.pictures + 1
      <4>1. \A i \in 1..Len(records) : records[i].picture # r.picture
        BY <2>3, <2>4, <2>5 DEF Kept
      <4>. QED  BY Zenon, <1>1, <1>3, <1>5, <2>1, <2>5, <3>2, <4>1, OnceComes
    <3>. QED  BY <2>2, <2>3, <3>1, <3>2
  <2>9. ASSUME NEW p \in 1..capture'.completions
        PROVE  Once(records', "done", p)
    <3>1. Once(records, "done", p)
      BY Zenon, <2>2, <2>3 DEF Kept
    <3>. QED  BY Zenon, <1>1, <1>3, <1>5, <2>1, <3>1, OnceStays
  <2>10. InProgress'
    <3>1. buffer'[running].writer = next.pictures
      BY Zenon, <1>1, <1>4, <1>7
    <3>2. Len(records') > 0
      BY <2>4
    <3>. QED  BY Zenon, <1>4, <1>5, <2>1, <2>4, <3>1, <3>2 DEF InProgress
  <2>. QED  BY Zenon, <2>2, <2>6, <2>7, <2>8, <2>9, <2>10 DEF NothingLost, Kept
<1>. QED  BY Zenon, <1>6, <1>7

(* Preserved by a detail, which joins the picture in progress.             *)
LEMMA DetailLosesNothing ==
  ASSUME IInv, NothingLost, avd_trace_detail
  PROVE  NothingLost'
<1> DEFINE n == trace_context[running]
           r == [kind |-> "detail", picture |-> capture.pictures,
                 writer |-> buffer[running].writer,
                 completed |-> buffer[running].completed]
<1> SUFFICES ASSUME capture'.errors = {} PROVE NothingLost'
  BY Zenon DEF NothingLost
<1>1. /\ running \in Ctx /\ n \in Nat /\ capture \in Capture(Run, Pid)
      /\ records \in Seq(Record) /\ capture.pictures \in Nat
      /\ atr_append(capture, n, r) /\ r \in Record
      /\ atr_selected(capture, n) /\ started
      /\ running' = running /\ buffer' = buffer
  BY Zenon DEF IInv, TypeOK, avd_trace_detail, Record, Capture, jobVars
<1>2. /\ r.kind = "detail" /\ r.picture = capture.pictures
      /\ r.writer = buffer[running].writer
  BY Zenon
<1>. HIDE DEF r
<1>3. capture' = capture /\ records' = Append(records, r)
  BY Zenon, <1>1, AppendStores
<1>4. /\ capture.phase = "active" /\ capture.pending # 0 /\ InProgress
      /\ Kept(capture.pictures, capture.completions)
  BY Zenon, <1>1, <1>3, RecorderAssumption
     DEF IInv, CleanSoFar, CleanActive, NothingLost, atr_selected
<1>5. /\ Len(records) \in Nat /\ Len(records') = Len(records) + 1
      /\ \A i \in 1..Len(records) : records'[i] = records[i]
      /\ records'[Len(records) + 1] = r
  BY ZenonT(60), <1>1, <1>3, Grown
<1>6. RecordsPair'
  BY Zenon, <1>1, <1>2, <1>3, <1>4, PairGrows DEF Kept, InProgress
<1>7. ASSUME NEW i \in 1..Len(records')
      PROVE  /\ records'[i].picture <= capture.pictures
             /\ records'[i].kind = "done" =>
                  records'[i].picture <= capture.completions
  <2>1. capture.pictures <= capture.pictures
    BY <1>1
  <2>2. i \in 1..Len(records) \/ i = Len(records) + 1
    BY <1>5
  <2>. QED  BY Zenon, <1>2, <1>4, <1>5, <2>1, <2>2 DEF Kept
<1>8. /\ \A p \in 1..capture.pictures : Once(records', "start", p)
      /\ \A p \in 1..capture.completions : Once(records', "done", p)
  BY Zenon, <1>1, <1>2, <1>3, <1>4, OnceStays DEF Kept
<1>9. InProgress'
  <2>1. Len(records') > 0
    BY <1>5
  <2>. QED  BY Zenon, <1>1, <1>2, <1>3, <1>4, <1>5, <2>1 DEF InProgress
<1>. QED  BY Zenon, <1>3, <1>4, <1>6, <1>7, <1>8, <1>9 DEF NothingLost, Kept

(* Preserved by the end of a job: the picture in progress is the one that  *)
(* is done, for the first time.                                            *)
LEMMA DoneLosesNothing ==
  ASSUME IInv, NothingLost, NEW ok \in BOOLEAN, NEW has_dst \in BOOLEAN,
         avd_trace_done(ok, has_dst)
  PROVE  NothingLost'
<1> DEFINE n == trace_context[running]
           flagged == IF atr_selected(capture, n) /\ ~has_dst
                      THEN Flag(capture, {"order"}) ELSE capture
           next == atr_done(flagged, n, ok)
           written == [buffer[running] EXCEPT !.completed = ok]
           r == [kind |-> "done", picture |-> capture.pictures,
                 writer |-> IF has_dst THEN written.writer ELSE 0,
                 completed |-> has_dst /\ ok]
<1>1. /\ running \in Ctx /\ n \in Nat /\ capture \in Capture(Run, Pid)
      /\ records \in Seq(Record) /\ capture.pictures \in Nat
      /\ buffer \in [Ctx -> [traced : BOOLEAN, writer : Nat,
                             completed : BOOLEAN, live : BOOLEAN]]
  BY Zenon DEF IInv, TypeOK, avd_trace_done, Capture
<1>2. /\ flagged \in Capture(Run, Pid)
      /\ flagged.phase = capture.phase /\ flagged.context = capture.context
      /\ flagged.pictures = capture.pictures
      /\ flagged.completions = capture.completions
      /\ flagged.pending = capture.pending
      /\ flagged.errors = {} => /\ capture.errors = {}
                                /\ atr_selected(capture, n) => has_dst
  BY ZenonT(60), <1>1 DEF Flag, Capture, Error
<1>3. ~atr_selected(capture, n) => flagged = capture
  BY Zenon
<1> HIDE DEF flagged
<1>4. Finished(flagged, n, ok, next)
  BY Zenon, <1>1, <1>2, DoneEffect
<1>5. /\ r \in Record /\ r.kind = "done" /\ r.picture = capture.pictures
      /\ has_dst => r.writer = buffer[running].writer
  BY Zenon, <1>1 DEF Record
<1>6. /\ atr_append(next, n, r) /\ running' = NoCtx
      /\ ~atr_selected(capture, n) => buffer' = buffer
  BY Zenon DEF avd_trace_done, flagged
<1>. HIDE DEF next, r
<1>7. CASE ~atr_selected(capture, n)
  <2>1. capture' = capture /\ records' = records
    BY Zenon, <1>2, <1>3, <1>4, <1>6, <1>7 DEF Finished, atr_append, atr_selected
  <2>2. capture.errors = {} /\ capture.phase = "active" => capture.pending = 0
    BY Zenon, <1>7, InProgressSelected
  <2>. QED  BY Zenon, <2>1, <2>2, NothingLostStays
<1>8. CASE atr_selected(capture, n)
  <2> SUFFICES ASSUME capture'.errors = {} PROVE NothingLost'
    BY Zenon DEF NothingLost
  <2>1. capture' = next /\ records' = Append(records, r)
    BY Zenon, <1>1, <1>2, <1>4, <1>5, <1>6, <1>8, AppendStores
       DEF Finished, atr_selected
  <2>2. /\ capture.errors = {} /\ has_dst
        /\ capture.phase = "active" /\ capture'.phase = "active"
        /\ capture'.pictures = capture.pictures
        /\ capture'.completions = capture.completions + 1
        /\ capture.pending # 0 /\ capture'.pending = 0
    <3>1. atr_selected(flagged, n) /\ capture.phase = "active"
      BY Zenon, <1>2, <1>8 DEF atr_selected
    <3>2. /\ flagged.errors = {} /\ flagged.pending # 0
          /\ next.phase = flagged.phase /\ next.pictures = flagged.pictures
          /\ next.completions = flagged.completions + 1 /\ next.pending = 0
      BY Zenon, <1>4, <2>1, <3>1 DEF Finished
    <3>3. capture.errors = {} /\ has_dst
      BY Zenon, <1>2, <1>8, <3>2
    <3>4. /\ capture'.phase = capture.phase /\ capture'.pictures = capture.pictures
          /\ capture'.completions = capture.completions + 1
          /\ capture.pending # 0 /\ capture'.pending = 0
      BY <1>2, <2>1, <3>2
    <3>. QED  BY Zenon, <3>1, <3>3, <3>4
  <2>3. /\ capture.completions \in Nat
        /\ capture.pictures = capture.completions + 1
        /\ Kept(capture.pictures, capture.completions) /\ InProgress
    BY Zenon, <1>1, <2>2 DEF IInv, CleanSoFar, CleanActive, NothingLost, Capture
  <2>4. /\ Len(records) \in Nat /\ Len(records') = Len(records) + 1
        /\ \A i \in 1..Len(records) : records'[i] = records[i]
        /\ records'[Len(records) + 1] = r
    <3>1. records \in Seq(Record) /\ r \in Record
      BY Zenon, <1>1, <1>5
    <3>. QED  BY ZenonT(60), <2>1, <3>1, Grown
  <2>5. RecordsPair'
    BY Zenon, <1>1, <1>5, <2>1, <2>2, <2>3, PairGrows DEF Kept, InProgress
  <2>6. ASSUME NEW i \in 1..Len(records')
        PROVE  /\ records'[i].picture <= capture'.pictures
               /\ records'[i].kind = "done" =>
                    records'[i].picture <= capture'.completions
    <3>1. capture.pictures <= capture.pictures
      BY <1>1
    <3>2. i \in 1..Len(records) \/ i = Len(records) + 1
      BY <2>4
    <3>. QED  BY Zenon, <1>5, <2>2, <2>3, <2>4, <3>1, <3>2 DEF Kept
  <2>7. ASSUME NEW p \in 1..capture'.pictures
        PROVE  Once(records', "start", p)
    BY Zenon, <1>1, <1>5, <2>1, <2>2, <2>3, OnceStays DEF Kept
  <2>8. ASSUME NEW p \in 1..capture'.completions
        PROVE  Once(records', "done", p)
    <3>1. CASE p \in 1..capture.completions
      <4>1. p # r.picture
        BY <1>5, <2>3, <3>1
      <4>. QED  BY Zenon, <1>1, <1>5, <2>1, <2>3, <3>1, <4>1, OnceStays DEF Kept
    <3>2. CASE p = capture.completions + 1
      <4>1. ~(capture.completions + 1 <= capture.completions)
        BY <2>3
      <4>2. \A i \in 1..Len(records) :
              records[i].kind = r.kind => records[i].picture # r.picture
        BY Zenon, <1>5, <2>3, <4>1 DEF Kept
      <4>. QED  BY Zenon, <1>1, <1>5, <2>1, <2>3, <3>2, <4>2, OnceComes
    <3>. QED  BY <2>2, <2>3, <3>1, <3>2
  <2>. QED  BY Zenon, <2>2, <2>5, <2>6, <2>7, <2>8 DEF NothingLost, Kept
<1>. QED  BY Zenon, <1>7, <1>8

(* Preserved by the calls that append no record.                           *)
LEMMA QuietLosesNothing ==
  ASSUME IInv, NothingLost, NEW c \in Ctx,
         \/ \E pid \in Pid : avd_trace_open(c, pid)
         \/ avd_trace_buf_init(c)
         \/ avd_trace_buf_cleanup(c)
         \/ \E is_hevc \in BOOLEAN : avd_trace_job(c, is_hevc)
         \/ avd_trace_close(c)
  PROVE  NothingLost'
<1>1. /\ capture \in Capture(Run, Pid) /\ trace_context[c] \in Nat
      /\ buffer \in [Ctx -> [traced : BOOLEAN, writer : Nat,
                             completed : BOOLEAN, live : BOOLEAN]]
      /\ running # NoCtx => buffer[running].live
      /\ capture.errors = {} /\ capture.phase = "armed" =>
           /\ capture.pictures = 0 /\ capture.completions = 0
           /\ capture.pending = 0
  BY Zenon DEF IInv, TypeOK, FilesAgree, CleanSoFar, CleanArmed
<1>2. capture.errors = {} /\ capture.phase = "active" /\ capture.pending # 0 =>
        running \in Ctx /\ running # NoCtx
  BY Zenon, InProgressSelected
<1>3. ASSUME NEW pid \in Pid, avd_trace_open(c, pid) PROVE NothingLost'
  <2>1. Opened(capture, capture')
    BY Zenon, <1>1, <1>3, OpenEffect DEF avd_trace_open
  <2>2. records' = records /\ buffer' = buffer /\ running' = running
    BY Zenon, <1>3 DEF avd_trace_open, jobVars
  <2>. QED  BY Zenon, <2>1, <2>2, NothingLostStays DEF Opened
<1>4. ASSUME avd_trace_buf_init(c) \/ avd_trace_buf_cleanup(c) PROVE NothingLost'
  <2>1. /\ capture' = capture /\ records' = records /\ running' = running
        /\ running # NoCtx => running # c
    BY Zenon, <1>1, <1>4
       DEF avd_trace_buf_init, avd_trace_buf_cleanup, captureVars, jobVars
  <2>2. running \in Ctx /\ running # NoCtx => buffer'[running] = buffer[running]
    BY Zenon, <1>1, <1>4, <2>1 DEF avd_trace_buf_init, avd_trace_buf_cleanup
  <2>. QED  BY Zenon, <1>2, <2>1, <2>2, NothingLostStays
<1>5. ASSUME NEW is_hevc \in BOOLEAN, avd_trace_job(c, is_hevc) PROVE NothingLost'
  <2>1. Bound(capture, trace_pid[c], trace_context[c], is_hevc, capture')
    BY Zenon, <1>1, <1>5, BindEffect DEF avd_trace_job
  <2>2. records' = records /\ running = NoCtx
    BY Zenon, <1>5 DEF avd_trace_job
  <2>3. capture.errors = {} /\ capture.phase = "active" => capture.pending = 0
    BY Zenon, <1>2, <2>2
  <2>. QED  BY ZenonT(60), <1>1, <2>1, <2>2, <2>3, NothingLostStays DEF Bound
<1>6. ASSUME avd_trace_close(c) PROVE NothingLost'
  <2>1. Closed(capture, trace_context[c], capture')
    BY Zenon, <1>1, <1>6, CloseEffect DEF avd_trace_close
  <2>2. /\ records' = records /\ running' = running /\ running # c
        /\ running \in Ctx => buffer'[running] = buffer[running]
    BY Zenon, <1>1, <1>6 DEF avd_trace_close, jobVars
  <2>. QED  BY ZenonT(60), <1>2, <2>1, <2>2, NothingLostStays
         DEF Closed, atr_selected
<1>. QED  BY Zenon, <1>3, <1>4, <1>5, <1>6

(* Preserved by the control file and by readers.                           *)
LEMMA ControlLosesNothing ==
  ASSUME IInv, NothingLost,
         \/ \E run \in Run, pid \in Pid : Arm(run, pid)
         \/ \E run \in Run : Seal(run)
         \/ Discard \/ snapshot_open \/ snapshot_release \/ UNCHANGED vars
  PROVE  NothingLost'
<1>1. ASSUME NEW run \in Run, NEW pid \in Pid, Arm(run, pid) PROVE NothingLost'
  <2>1. records' = <<>> /\ capture'.phase = "armed"
    BY Zenon, <1>1 DEF Arm, Armed, Off
  <2>. QED  BY Zenon, <2>1 DEF NothingLost
<1>2. ASSUME NEW run \in Run, Seal(run) PROVE NothingLost'
  <2>1. /\ capture \in Capture(Run, Pid) /\ capture' = atr_seal(capture)
        /\ capture.phase \in {"drained", "armed"}
        /\ records' = records
    BY Zenon, <1>2 DEF IInv, TypeOK, Seal, CanSeal
  <2>2. /\ capture'.phase = "sealed" /\ capture'.pictures = capture.pictures
        /\ capture'.completions = capture.completions
        /\ capture'.pending = capture.pending
        /\ capture'.errors = {} => capture.errors = {} /\ capture.phase # "armed"
    BY Zenon, <2>1 DEF atr_seal, Capture, If
  <2>. QED  BY Zenon, <2>1, <2>2, NothingLostStays
<1>3. ASSUME Discard PROVE NothingLost'
  <2>1. capture'.phase = "off"
    BY Zenon, <1>3 DEF Discard, Off
  <2>. QED  BY Zenon, <2>1 DEF NothingLost
<1>4. ASSUME snapshot_open \/ snapshot_release \/ UNCHANGED vars
      PROVE  NothingLost'
  <2>1. /\ capture' = capture /\ records' = records
        /\ buffer' = buffer /\ running' = running
    BY Zenon, <1>4 DEF snapshot_open, snapshot_release, vars, captureVars, jobVars
  <2>. QED  BY Zenon, <2>1, NothingLostStays
<1>. QED  BY Zenon, <1>1, <1>2, <1>3, <1>4

-----------------------------------------------------------------------------
(***************************************************************************)
(* The command recorder: module CmdRecorder.                               *)
(*                                                                         *)
(* CleanWindowIsWhole speaks of a sealed capture; WindowSoFar says the     *)
(* same of the pictures begun so far, and that nothing was offered for the *)
(* slots of the later ones, which is what lets a slot be used without      *)
(* being cleared.                                                          *)
(***************************************************************************)
CONSTANTS Words, Site, MaxPushed, MaxPictures

VARIABLES hist, window, pushed

Cmd == INSTANCE CmdRecorder

Slots ==
  [picture : Nat, nwords : Nat, nbytes : {0, 1}, inactive : SUBSET Site,
   meta_seen : Nat]

(* Types, whatever the bounds.                                             *)
CmdTyped ==
  /\ Words \in Nat /\ First \in Nat /\ Last \in Nat /\ Pictures \in Nat
  /\ First \in 1..Last /\ Last <= Pictures /\ NoCtx \notin Ctx
  /\ capture \in Capture(Run, Pid)
  /\ window \in [First..Last -> Slots]
  /\ pushed \in [First..Last -> Nat]
  /\ trace_context \in [Ctx -> Nat] /\ next_context \in Nat
  /\ running \in Ctx \cup {NoCtx}

(* The slot of picture p, once it has begun.                               *)
WholeSlot(p) ==
  /\ window[p].picture = p
  /\ window[p].nbytes = 1
  /\ window[p].nwords = pushed[p]
  /\ window[p].meta_seen <= 1

(* A slot before its picture.                                              *)
FreshSlot(p) ==
  pushed[p] = 0 /\ window[p].meta_seen = 0

WindowSoFar ==
  capture.errors = {} =>
    /\ capture.pictures <= Pictures
    /\ hist = 1..capture.pictures
    /\ \A p \in First..Last : /\ p <= capture.pictures => WholeSlot(p)
                              /\ p > capture.pictures => FreshSlot(p)
    /\ capture.phase \in {"drained", "sealed"} => capture.pictures = Pictures

(* A reader has the sealed capture.                                        *)
CmdPinned ==
  snapshot # Cmd!NoReader =>
    capture.phase = "sealed" /\ Cmd!captureVars = snapshot

CmdInv ==
  CmdTyped /\ WindowSoFar /\ CmdPinned

(* cmd-core.h repeats the transitions of avd-trace-core.h.                 *)
LEMMA SameCore ==
  /\ \A c, pid : Cmd!cmd_open(c, pid) = atr_open(c, pid)
  /\ \A c, pid, n, h : Cmd!cmd_bind(c, pid, n, h) = atr_bind(c, pid, n, h)
  /\ \A c, n, ok : Cmd!cmd_done(c, n, ok) = atr_done(c, n, ok)
  /\ \A c, n : Cmd!cmd_close(c, n) = atr_close(c, n)
  /\ \A c : Cmd!cmd_seal(c) = atr_seal(c)
  /\ \A c, n, g : Cmd!cmd_start(c, n, g) = atr_start(c, n, g)
  /\ \A c, n : Cmd!cmd_selected(c, n) <=> atr_selected(c, n)
  /\ \A c : Cmd!cmd_detail(c) <=> c.pictures \in First..Last
  /\ \A c : Cmd!CanSeal(c) <=> CanSeal(c)
  /\ Cmd!Off = Off
  /\ \A run, pid : Cmd!Armed(run, pid) = Armed(run, pid)
  /\ Cmd!Run = Run
BY Zenon DEF Cmd!cmd_open, Cmd!cmd_bind, Cmd!cmd_done, Cmd!cmd_close,
   Cmd!cmd_seal, Cmd!cmd_start, Cmd!atr_start, Cmd!cmd_selected, Cmd!cmd_detail,
   Cmd!CanSeal, Cmd!Off, Cmd!Armed, Cmd!Run, Cmd!atr_open, Cmd!atr_bind,
   Cmd!atr_done, Cmd!atr_close, Cmd!atr_seal, Cmd!atr_selected, Cmd!detail,
   Cmd!Flag, Cmd!If, Cmd!Recording, atr_open, atr_bind, atr_done, atr_close,
   atr_seal, atr_start, atr_selected, CanSeal, Off, Armed, Run, Flag, If,
   Recording

(* A start that flags nothing stays within the extent.                     *)
LEMMA StartExtent ==
  ASSUME NEW c, NEW n, NEW g, atr_selected(c, n),
         atr_start(c, n, g).errors = {}, c \in Capture(Run, Pid)
  PROVE  ~(c.pictures + 1 > Pictures)
BY Zenon DEF atr_start, If, Capture

(* Steps that leave the lines of history and the slots alone.              *)
LEMMA WindowStays ==
  ASSUME CmdInv, UNCHANGED <<hist, window, pushed>>,
         capture'.pictures = capture.pictures,
         capture'.errors = {} => capture.errors = {},
         capture'.errors = {} /\ capture'.phase \in {"drained", "sealed"} =>
           \/ capture.phase \in {"drained", "sealed"}
           \/ capture.pictures = Pictures
  PROVE  WindowSoFar'
<1>1. hist' = hist /\ window' = window /\ pushed' = pushed
  BY Zenon
<1>. QED  BY Zenon, <1>1 DEF CmdInv, WindowSoFar, WholeSlot, FreshSlot

(* A sealed capture takes no notice of the driver.                         *)
LEMMA SealedIgnores ==
  ASSUME capture.phase = "sealed"
  PROVE  ~Recording(capture) /\ \A n : ~atr_selected(capture, n)
BY Zenon DEF Recording, atr_selected

(* Preserved by opens, jobs and closes,                                    *)
LEMMA CmdFilesKeep ==
  ASSUME CmdInv,
         \/ \E c \in Ctx, pid \in Pid : Cmd!avd_cmdtrace_open(c, pid)
         \/ \E c \in Ctx, h \in BOOLEAN : Cmd!avd_cmdtrace_job(c, h)
         \/ \E c \in Ctx : Cmd!avd_cmdtrace_close(c)
         \/ \E ok \in BOOLEAN : Cmd!avd_cmdtrace_done(ok)
  PROVE  CmdInv'
<1>1. /\ UNCHANGED <<hist, window, pushed>> /\ snapshot' = snapshot
      /\ capture \in Capture(Run, Pid) /\ trace_context \in [Ctx -> Nat]
      /\ next_context \in Nat
  BY Zenon DEF CmdInv, CmdTyped, Cmd!avd_cmdtrace_open, Cmd!avd_cmdtrace_job,
     Cmd!avd_cmdtrace_close, Cmd!avd_cmdtrace_done
<1> DEFINE Passes ==
      /\ capture' \in Capture(Run, Pid)
      /\ capture'.pictures = capture.pictures
      /\ capture'.errors = {} => capture.errors = {}
      /\ capture'.errors = {} /\ capture'.phase \in {"drained", "sealed"} =>
           \/ capture.phase \in {"drained", "sealed"}
           \/ capture.pictures = Pictures
      /\ capture.phase = "sealed" => capture' = capture
      /\ trace_context' \in [Ctx -> Nat] /\ next_context' \in Nat
      /\ running' \in Ctx \cup {NoCtx}
<1>2. ASSUME NEW c \in Ctx, NEW pid \in Pid, Cmd!avd_cmdtrace_open(c, pid)
      PROVE  Passes
  <2>1. Opened(capture, capture')
    BY Zenon, <1>1, <1>2, OpenEffect, SameCore DEF Cmd!avd_cmdtrace_open
  <2>2. /\ trace_context' = [trace_context EXCEPT ![c] = next_context + 1]
        /\ next_context' = next_context + 1 /\ running' = running
    BY Zenon, <1>2 DEF Cmd!avd_cmdtrace_open, Cmd!jobVars
  <2>3. next_context + 1 \in Nat
    BY <1>1
  <2>. QED  BY Zenon, <1>1, <2>1, <2>2, <2>3, SealedIgnores
            DEF Opened, CmdInv, CmdTyped
<1>3. ASSUME NEW c \in Ctx, NEW h \in BOOLEAN, Cmd!avd_cmdtrace_job(c, h)
      PROVE  Passes
  <2>0. trace_context[c] \in Nat
    BY Zenon, <1>1
  <2>1. Bound(capture, trace_pid[c], trace_context[c], h, capture')
    BY Zenon, <1>1, <1>3, <2>0, BindEffect, SameCore
       DEF Cmd!avd_cmdtrace_job
  <2>2. /\ trace_context' = trace_context /\ next_context' = next_context
        /\ running' = c
    BY Zenon, <1>3 DEF Cmd!avd_cmdtrace_job, Cmd!fileVars
  <2>3. "active" \notin {"drained", "sealed"}
    BY Zenon
  <2>. QED  BY Zenon, <1>1, <2>1, <2>2, <2>3, SealedIgnores DEF Bound
<1>4. ASSUME NEW c \in Ctx, Cmd!avd_cmdtrace_close(c)
      PROVE  Passes
  <2>0. trace_context[c] \in Nat /\ 0 \in Nat
    BY Zenon, <1>1
  <2>1. Closed(capture, trace_context[c], capture')
    BY Zenon, <1>1, <1>4, <2>0, CloseEffect, SameCore
       DEF Cmd!avd_cmdtrace_close
  <2>2. /\ trace_context' = [trace_context EXCEPT ![c] = 0]
        /\ next_context' = next_context /\ running' = running
    BY Zenon, <1>4 DEF Cmd!avd_cmdtrace_close, Cmd!jobVars
  <2>. QED  BY Zenon, <1>1, <2>0, <2>1, <2>2, SealedIgnores
            DEF Closed, CmdInv, CmdTyped
<1>5. ASSUME NEW ok \in BOOLEAN, Cmd!avd_cmdtrace_done(ok)
      PROVE  Passes
  <2>0. trace_context[running] \in Nat
    BY Zenon, <1>1, <1>5 DEF CmdInv, CmdTyped, Cmd!avd_cmdtrace_done
  <2>1. Finished(capture, trace_context[running], ok, capture')
    BY Zenon, <1>1, <1>5, <2>0, DoneEffect, SameCore
       DEF Cmd!avd_cmdtrace_done
  <2>2. /\ trace_context' = trace_context /\ next_context' = next_context
        /\ running' = NoCtx
    BY Zenon, <1>5 DEF Cmd!avd_cmdtrace_done, Cmd!fileVars
  <2>. QED  BY Zenon, <1>1, <2>1, <2>2, SealedIgnores DEF Finished
<1>6. Passes
  BY Zenon, <1>2, <1>3, <1>4, <1>5
<1>7. WindowSoFar'
  BY Zenon, <1>1, <1>6, WindowStays
<1>8. CmdPinned'
  BY Zenon, <1>1, <1>6 DEF CmdInv, CmdPinned, Cmd!captureVars
<1>. QED  BY Zenon, <1>1, <1>6, <1>7, <1>8 DEF CmdInv, CmdTyped

(* The slot of a picture that begins: cleared, and with its controls       *)
(* unless there is an error.                                               *)
SlotOpened(s, q, e, r) ==
  /\ r.slot \in Slots /\ r.slot.picture = q /\ r.slot.nwords = 0
  /\ r.slot.meta_seen = s.meta_seen /\ r.errors \in SUBSET Error
  /\ r.errors = {} => e = {} /\ r.slot.nbytes = 1

LEMMA ControlsEffect ==
  ASSUME NEW s \in Slots, NEW q \in Nat, NEW e \in SUBSET Error,
         NEW packed \in BOOLEAN
  PROVE  SlotOpened(s, q, e,
                Cmd!cmd_controls(Cmd!cmd_start_slot(s, q), e, packed))
<1> DEFINE r == Cmd!cmd_controls(Cmd!cmd_start_slot(s, q), e, packed)
           t == Cmd!cmd_start_slot(s, q)
           u == [t EXCEPT !.nbytes = 1]
<1>1. t = [s EXCEPT !.picture = q, !.nwords = 0, !.nbytes = 0, !.inactive = {}]
  BY Zenon DEF Cmd!cmd_start_slot
<1>2. {} \in SUBSET Site /\ 0 \in Nat /\ 0 \in {0, 1} /\ 1 \in {0, 1}
  BY Zenon
<1> HIDE DEF t
<1>3. /\ t \in Slots /\ t.picture = q /\ t.nwords = 0
      /\ t.meta_seen = s.meta_seen
  BY ZenonT(60), <1>1, <1>2 DEF Slots
<1>4. CASE packed
  <2>1. r.slot = u /\ r.errors = e
    BY Zenon, <1>4 DEF Cmd!cmd_controls, t
  <2>2. /\ u \in Slots /\ u.picture = t.picture /\ u.nwords = t.nwords
        /\ u.meta_seen = t.meta_seen /\ u.nbytes = 1
    BY Zenon, <1>2, <1>3 DEF Slots
  <2> HIDE DEF u, r
  <2>. QED  BY Zenon, <1>3, <2>1, <2>2 DEF SlotOpened, r
<1>5. CASE ~packed
  <2>1. r.slot = t /\ r.errors = e \cup {"overflow"}
    BY Zenon, <1>5 DEF Cmd!cmd_controls, t
  <2>2. r.errors \in SUBSET Error /\ r.errors # {}
    BY Zenon, <2>1 DEF Error
  <2> HIDE DEF r
  <2>. QED  BY Zenon, <1>3, <2>1, <2>2 DEF SlotOpened, r
<1>. QED  BY Zenon, <1>4, <1>5

(* by the start of a picture, whose slot nothing was offered for,          *)
LEMMA CmdStartKeeps ==
  ASSUME CmdInv, NEW g \in BOOLEAN, NEW packed \in BOOLEAN,
         Cmd!avd_cmdtrace_start(g, packed)
  PROVE  CmdInv'
<1> DEFINE n == trace_context[running]
           next == atr_start(capture, n, g)
           q == next.pictures
           r == Cmd!cmd_controls(Cmd!cmd_start_slot(window[q], q),
                                 next.errors, packed)
           taken == atr_selected(capture, n) /\ q \in First..Last
<1>1. /\ pushed' = pushed /\ snapshot' = snapshot /\ running' = running
      /\ trace_context' = trace_context /\ next_context' = next_context
      /\ running # NoCtx
      /\ hist' = IF atr_selected(capture, n) /\ q <= Pictures
                 THEN hist \cup {q} ELSE hist
      /\ taken => /\ capture' = [next EXCEPT !.errors = r.errors]
                  /\ window' = [window EXCEPT ![q] = r.slot]
      /\ ~taken => capture' = next /\ window' = window
  BY ZenonT(60), SameCore DEF Cmd!avd_cmdtrace_start, Cmd!fileVars
<1>2. /\ capture \in Capture(Run, Pid) /\ n \in Nat
      /\ window \in [First..Last -> Slots] /\ pushed \in [First..Last -> Nat]
  BY Zenon, <1>1 DEF CmdInv, CmdTyped
<1>3. Begun(capture, n, next)
  BY Zenon, <1>1, <1>2, StartEffect
<1>4. CASE ~atr_selected(capture, n)
  <2>1. capture' = capture /\ hist' = hist /\ window' = window
    BY Zenon, <1>1, <1>3, <1>4 DEF Begun
  <2>. QED  BY ZenonT(60), <1>1, <2>1 DEF CmdInv, CmdTyped, WindowSoFar,
            WholeSlot, FreshSlot, CmdPinned, Cmd!captureVars
<1>5. CASE atr_selected(capture, n)
  <2>1. /\ q = capture.pictures + 1 /\ capture.pictures \in Nat /\ q \in Nat
        /\ next.phase = "active" /\ capture.phase = "active"
        /\ next \in Capture(Run, Pid)
        /\ next.errors = {} => capture.errors = {}
    BY Zenon, <1>2, <1>3, <1>5 DEF Begun, atr_selected, Capture
  <2>2. next.errors = {} => ~(capture.pictures + 1 > Pictures)
    BY Zenon, <1>2, <1>5, StartExtent
  <2>3. taken => SlotOpened(window[q], q, next.errors, r)
    <3>1. taken => window[q] \in Slots
      BY Zenon, <1>2
    <3>2. next.errors \in SUBSET Error
      BY Zenon, <2>1 DEF Capture
    <3> HIDE DEF q, next
    <3>. QED  BY Zenon, <2>1, <3>1, <3>2, ControlsEffect
  <2> HIDE DEF next, r
  <2>4. /\ capture' \in Capture(Run, Pid) /\ capture'.pictures = q
        /\ capture'.phase = "active"
        /\ capture'.errors = {} => next.errors = {}
        /\ taken /\ capture'.errors = {} => r.errors = {}
    <3>1. CASE taken
      BY Zenon, <1>1, <2>1, <2>3, <3>1 DEF Capture, SlotOpened
    <3>2. CASE ~taken
      BY Zenon, <1>1, <2>1, <3>2
    <3>. QED  BY Zenon, <3>1, <3>2
  <2>5. \A p \in First..Last :
          /\ window'[p] \in Slots
          /\ p # q => window'[p] = window[p]
          /\ p = q => /\ window'[p].picture = q /\ window'[p].nwords = 0
                      /\ window'[p].meta_seen = window[p].meta_seen
                      /\ capture'.errors = {} => window'[p].nbytes = 1
    <3> SUFFICES ASSUME NEW p \in First..Last
                 PROVE  /\ window'[p] \in Slots
                        /\ p # q => window'[p] = window[p]
                        /\ p = q => /\ window'[p].picture = q
                                    /\ window'[p].nwords = 0
                                    /\ window'[p].meta_seen =
                                         window[p].meta_seen
                                    /\ capture'.errors = {} =>
                                         window'[p].nbytes = 1
      BY Zenon
    <3>1. CASE p # q
      BY Zenon, <1>1, <1>2, <3>1
    <3>2. CASE p = q
      <4>1. taken
        BY Zenon, <1>5, <3>2
      <4>2. window'[p] = r.slot
        BY Zenon, <1>1, <1>2, <3>2, <4>1
      <4>. QED  BY Zenon, <2>3, <2>4, <3>2, <4>1, <4>2 DEF SlotOpened
    <3>. QED  BY Zenon, <3>1, <3>2
  <2>6. CmdTyped'
    <3>1. window' \in [First..Last -> Slots]
      <4>1. /\ DOMAIN window' = First..Last
            /\ window' = [p \in DOMAIN window' |-> window'[p]]
        BY Zenon, <1>1, <1>2
      <4>. QED  BY Zenon, <2>5, <4>1
    <3>. QED  BY Zenon, <1>1, <2>4, <3>1 DEF CmdInv, CmdTyped
  <2>7. CmdPinned'
    BY Zenon, <1>1, <2>1 DEF CmdInv, CmdPinned
  <2>8. WindowSoFar'
    <3> SUFFICES ASSUME capture'.errors = {}
                 PROVE  /\ q <= Pictures
                        /\ hist' = 1..q
                        /\ \A p \in First..Last :
                             /\ p <= q => WholeSlot(p)'
                             /\ p > q => FreshSlot(p)'
      BY Zenon, <2>4 DEF WindowSoFar
    <3>1. /\ capture.errors = {} /\ ~(capture.pictures + 1 > Pictures)
          /\ hist = 1..capture.pictures /\ Pictures \in Nat
          /\ First \in Nat /\ Last \in Nat
          /\ \A p \in First..Last :
               /\ p <= capture.pictures => WholeSlot(p)
               /\ p > capture.pictures => FreshSlot(p)
      BY Zenon, <2>1, <2>2, <2>4 DEF CmdInv, CmdTyped, WindowSoFar
    <3>2. q <= Pictures /\ q \in Nat
      BY <2>1, <3>1
    <3>3. hist' = 1..q
      <4>1. hist' = hist \cup {q}
        BY Zenon, <1>1, <1>5, <3>2
      <4> HIDE DEF q
      <4>. QED  BY <2>1, <3>1, <4>1
    <3>4. ASSUME NEW p \in First..Last
          PROVE  /\ p <= q => WholeSlot(p)'
                 /\ p > q => FreshSlot(p)'
      <4>1. CASE p = q
        <5>1. FreshSlot(p) /\ ~(p > q)
          <6>1. p > capture.pictures /\ ~(p > q)
            BY <2>1, <3>1, <4>1
          <6>. QED  BY Zenon, <3>1, <6>1
        <5>2. 0 <= 1
          OBVIOUS
        <5>. QED  BY ZenonT(60), <1>1, <2>5, <4>1, <5>1, <5>2
                  DEF WholeSlot, FreshSlot
      <4>2. CASE p # q
        <5>1. /\ p <= q => p <= capture.pictures
              /\ p > q => p > capture.pictures
          <6> HIDE DEF q
          <6>. QED  BY <2>1, <3>1, <4>2
        <5>2. window'[p] = window[p] /\ pushed'[p] = pushed[p]
          BY Zenon, <1>1, <2>5, <4>2
        <5>3. /\ WholeSlot(p) => WholeSlot(p)'
              /\ FreshSlot(p) => FreshSlot(p)'
          BY ZenonT(60), <5>2 DEF WholeSlot, FreshSlot
        <5>. QED  BY Zenon, <3>1, <5>1, <5>3
      <4>. QED  BY Zenon, <4>1, <4>2
    <3>. QED  BY Zenon, <3>2, <3>3, <3>4
  <2>. QED  BY Zenon, <2>6, <2>7, <2>8 DEF CmdInv
<1>. QED  BY Zenon, <1>4, <1>5

(* What the three hooks do to the slot s of the current picture: without   *)
(* an error, every word offered is in it and it has one slice at most.     *)
Written(s, e, n, r) ==
  /\ r.slot \in Slots /\ r.errors \subseteq Error
  /\ r.slot.picture = s.picture /\ r.slot.nbytes = s.nbytes
  /\ r.errors = {} => /\ e = {}
                      /\ r.slot.nwords = s.nwords + n
                      /\ s.meta_seen <= 1 => r.slot.meta_seen <= 1

(* cmd_word, *)
LEMMA WordEffect ==
  ASSUME NEW s \in Slots, NEW e \in SUBSET Error, NEW n \in Nat, Words \in Nat,
         NEW valid \in BOOLEAN
  PROVE  /\ Written(s, e, n, Cmd!cmd_word(s, e, n, valid))
         /\ Cmd!cmd_word(s, e, n, valid).slot.meta_seen = s.meta_seen
<1> DEFINE r == Cmd!cmd_word(s, e, n, valid)
           w == IF s.nwords + n <= Words THEN s.nwords + n ELSE Words
<1>0. CASE ~valid
  <2>1. r.slot = s /\ r.errors = e \cup {"shape"}
    BY Zenon, <1>0 DEF Cmd!cmd_word
  <2>2. r.errors \subseteq Error /\ r.errors # {}
    BY Zenon, <2>1 DEF Error
  <2> HIDE DEF r
  <2>. QED  BY Zenon, <2>1, <2>2 DEF Written, r
<1> SUFFICES ASSUME valid
             PROVE  Written(s, e, n, r) /\ r.slot.meta_seen = s.meta_seen
  BY Zenon, <1>0
<1>1. /\ r.slot = [s EXCEPT !.nwords = w]
      /\ r.errors = e \cup IF s.nwords + n <= Words THEN {}
                           ELSE {"words_full", "overflow"}
  BY Zenon DEF Cmd!cmd_word, Cmd!Filled
<1>2. s.nwords \in Nat /\ s.meta_seen \in Nat
  BY Zenon DEF Slots
<1>3. w \in Nat /\ (s.nwords + n <= Words => w = s.nwords + n)
  BY <1>2
<1>4. r.errors \subseteq Error
  BY Zenon, <1>1 DEF Error
<1>5. r.errors = {} => e = {} /\ s.nwords + n <= Words
  BY Zenon, <1>1
<1> HIDE DEF r, w
<1>6. /\ r.slot \in Slots /\ r.slot.picture = s.picture
      /\ r.slot.nbytes = s.nbytes /\ r.slot.meta_seen = s.meta_seen
      /\ r.slot.nwords = w
  BY Zenon, <1>1, <1>3 DEF Slots
<1>. QED  BY Zenon, <1>3, <1>4, <1>5, <1>6 DEF Written, r

(* cmd_slice_meta, *)
LEMMA MetaEffect ==
  ASSUME NEW s \in Slots, NEW e \in SUBSET Error, NEW good \in BOOLEAN,
         Words \in Nat
  PROVE  Written(s, e, 4, Cmd!cmd_slice_meta(s, e, good))
<1> DEFINE r == Cmd!cmd_slice_meta(s, e, good)
           t == [s EXCEPT !.meta_seen = @ + 1]
<1>1. s.meta_seen \in Nat /\ s.meta_seen + 1 \in Nat
  <2>1. s.meta_seen \in Nat
    BY Zenon DEF Slots
  <2>. QED  BY <2>1
<1>2. /\ t \in Slots /\ t.picture = s.picture /\ t.nbytes = s.nbytes
      /\ t.nwords = s.nwords /\ t.meta_seen = s.meta_seen + 1
  BY Zenon, <1>1 DEF Slots
<1>3. CASE s.meta_seen # 0 \/ ~good
  <2>1. r.slot = t /\ r.errors = e \cup {"shape"}
    BY Zenon, <1>3 DEF Cmd!cmd_slice_meta
  <2>2. r.errors \subseteq Error /\ r.errors # {}
    BY Zenon, <2>1 DEF Error
  <2> HIDE DEF r, t
  <2>. QED  BY Zenon, <1>2, <2>1, <2>2 DEF Written, r
<1>4. CASE ~(s.meta_seen # 0 \/ ~good)
  <2>1. r = Cmd!cmd_word(t, e, 4, TRUE) /\ TRUE \in BOOLEAN
    BY Zenon, <1>4 DEF Cmd!cmd_slice_meta
  <2> HIDE DEF r, t
  <2>2. Written(t, e, 4, r) /\ r.slot.meta_seen = s.meta_seen + 1
    BY Zenon, <1>2, <2>1, WordEffect
  <2>3. r.slot.meta_seen <= 1
    BY <1>1, <1>4, <2>2
  <2>. QED  BY Zenon, <1>2, <2>2, <2>3 DEF Written, r
<1>. QED  BY Zenon, <1>3, <1>4

(* cmd_inactive. *)
LEMMA InactiveEffect ==
  ASSUME NEW s \in Slots, NEW e \in SUBSET Error, NEW site \in Site
  PROVE  Written(s, e, 0, Cmd!cmd_inactive(s, e, site))
<1> DEFINE r == Cmd!cmd_inactive(s, e, site)
<1>1. s.nwords = s.nwords + 0
  <2>1. s.nwords \in Nat
    BY Zenon DEF Slots
  <2>. QED  BY <2>1
<1>2. CASE site \in s.inactive
  <2>1. r.slot = s /\ r.errors = e \cup {"shape"}
    BY Zenon, <1>2 DEF Cmd!cmd_inactive
  <2>2. r.errors \subseteq Error /\ r.errors # {}
    BY Zenon, <2>1 DEF Error
  <2> HIDE DEF r
  <2>. QED  BY Zenon, <2>1, <2>2 DEF Written, r
<1>3. CASE site \notin s.inactive
  <2>1. r.slot = [s EXCEPT !.inactive = @ \cup {site}] /\ r.errors = e
    BY Zenon, <1>3 DEF Cmd!cmd_inactive
  <2>2. s.inactive \cup {site} \in SUBSET Site
    BY Zenon DEF Slots
  <2> HIDE DEF r
  <2>3. /\ r.slot \in Slots /\ r.slot.picture = s.picture
        /\ r.slot.nbytes = s.nbytes /\ r.slot.nwords = s.nwords
        /\ r.slot.meta_seen = s.meta_seen
    BY Zenon, <2>1, <2>2 DEF Slots
  <2>. QED  BY Zenon, <1>1, <2>1, <2>3 DEF Written, r
<1>. QED  BY Zenon, <1>2, <1>3

(* by what is written into the slot of the current picture,                *)
LEMMA SlotKeeps ==
  ASSUME CmdInv, NEW n \in Nat, NEW r, Cmd!InSlot(n, r),
         Written(window[capture.pictures], capture.errors, n, r)
  PROVE  CmdInv'
<1> DEFINE q == capture.pictures
<1>1. /\ hist' = hist /\ snapshot' = snapshot /\ running' = running
      /\ trace_context' = trace_context /\ next_context' = next_context
      /\ atr_selected(capture, trace_context[running]) /\ q \in First..Last
      /\ window' = [window EXCEPT ![q] = r.slot]
      /\ capture' = [capture EXCEPT !.errors = r.errors]
      /\ pushed' = [pushed EXCEPT ![q] = @ + n]
  BY Zenon, SameCore DEF Cmd!InSlot, Cmd!fileVars, Cmd!jobVars
<1>2. /\ capture \in Capture(Run, Pid) /\ window \in [First..Last -> Slots]
      /\ pushed \in [First..Last -> Nat]
      /\ First \in Nat /\ Last \in Nat
  BY Zenon DEF CmdInv, CmdTyped
<1>3. /\ capture' \in Capture(Run, Pid) /\ capture'.pictures = capture.pictures
      /\ capture'.phase = "active" /\ capture.phase = "active"
      /\ capture'.errors = r.errors
  BY Zenon, <1>1, <1>2 DEF Capture, Written, atr_selected
<1>4. pushed[q] + n \in Nat /\ q <= q /\ ~(q > q)
  <2>1. pushed[q] \in Nat
    BY Zenon, <1>1, <1>2
  <2> HIDE DEF q
  <2>. QED  BY <1>1, <1>2, <2>1
<1>5. /\ window' \in [First..Last -> Slots] /\ pushed' \in [First..Last -> Nat]
      /\ window'[q] = r.slot /\ pushed'[q] = pushed[q] + n
      /\ \A p \in First..Last : p # q => /\ window'[p] = window[p]
                                         /\ pushed'[p] = pushed[p]
  BY Zenon, <1>1, <1>2, <1>4 DEF Written
<1>6. CmdTyped'
  BY Zenon, <1>1, <1>3, <1>5 DEF CmdInv, CmdTyped
<1>7. CmdPinned'
  BY Zenon, <1>1, <1>3 DEF CmdInv, CmdPinned
<1>8. WindowSoFar'
  <2> SUFFICES ASSUME r.errors = {}
               PROVE  /\ capture.pictures <= Pictures
                      /\ hist = 1..capture.pictures
                      /\ \A p \in First..Last :
                           /\ p <= q => WholeSlot(p)'
                           /\ p > q => FreshSlot(p)'
    BY Zenon, <1>1, <1>3 DEF WindowSoFar
  <2>1. capture.errors = {}
    BY Zenon DEF Written
  <2>2. /\ capture.pictures <= Pictures /\ hist = 1..capture.pictures
        /\ \A p \in First..Last : /\ p <= q => WholeSlot(p)
                                  /\ p > q => FreshSlot(p)
    BY Zenon, <2>1 DEF CmdInv, WindowSoFar
  <2>3. WholeSlot(q)
    BY Zenon, <1>1, <1>4, <2>2
  <2>4. WholeSlot(q) => /\ window'[q].picture = q /\ window'[q].nbytes = 1
                        /\ window'[q].nwords = pushed'[q]
                        /\ window'[q].meta_seen <= 1
    BY Zenon, <1>5 DEF WholeSlot, Written
  <2>5. ASSUME NEW p \in First..Last
        PROVE  /\ p <= q => WholeSlot(p)'
               /\ p > q => FreshSlot(p)'
    <3>1. CASE p = q
      BY Zenon, <1>4, <2>3, <2>4, <3>1 DEF WholeSlot
    <3>2. CASE p # q
      <4>1. window'[p] = window[p] /\ pushed'[p] = pushed[p]
        BY Zenon, <1>5, <3>2
      <4>2. /\ WholeSlot(p) => WholeSlot(p)'
            /\ FreshSlot(p) => FreshSlot(p)'
        BY ZenonT(60), <4>1 DEF WholeSlot, FreshSlot
      <4>. QED  BY Zenon, <2>2, <4>2
    <3>. QED  BY Zenon, <3>1, <3>2
  <2>. QED  BY Zenon, <2>2, <2>5
<1>. QED  BY Zenon, <1>6, <1>7, <1>8 DEF CmdInv

LEMMA CmdHooksKeep ==
  ASSUME CmdInv,
         \/ \E valid \in BOOLEAN : Cmd!avd_cmdtrace_word(valid)
         \/ \E good \in BOOLEAN : Cmd!avd_cmdtrace_slice_meta(good)
         \/ \E site \in Site : Cmd!avd_cmdtrace_inactive(site)
  PROVE  CmdInv'
<1>1. /\ capture.pictures \in First..Last
      /\ capture \in Capture(Run, Pid) /\ Words \in Nat
      /\ window \in [First..Last -> Slots]
  BY Zenon, SameCore DEF CmdInv, CmdTyped, Cmd!avd_cmdtrace_word,
     Cmd!avd_cmdtrace_slice_meta, Cmd!avd_cmdtrace_inactive
<1>2. /\ window[capture.pictures] \in Slots /\ capture.errors \in SUBSET Error
      /\ Cmd!Slot = window[capture.pictures]
      /\ 0 \in Nat /\ 1 \in Nat /\ 4 \in Nat
  BY Zenon, <1>1 DEF Capture, Cmd!Slot
<1>3. ASSUME NEW valid \in BOOLEAN, Cmd!avd_cmdtrace_word(valid)
      PROVE  CmdInv'
  BY Zenon, <1>1, <1>2, <1>3, WordEffect, SlotKeeps DEF Cmd!avd_cmdtrace_word
<1>4. ASSUME NEW good \in BOOLEAN, Cmd!avd_cmdtrace_slice_meta(good)
      PROVE  CmdInv'
  BY Zenon, <1>1, <1>2, <1>4, MetaEffect, SlotKeeps
     DEF Cmd!avd_cmdtrace_slice_meta
<1>5. ASSUME NEW site \in Site, Cmd!avd_cmdtrace_inactive(site)
      PROVE  CmdInv'
  BY Zenon, <1>1, <1>2, <1>5, InactiveEffect, SlotKeeps
     DEF Cmd!avd_cmdtrace_inactive
<1>. QED  BY Zenon, <1>3, <1>4, <1>5

(* A fresh capture, or none: nothing is recorded or offered.               *)
LEMMA NothingRecorded ==
  ASSUME CmdTyped', capture'.pictures = 0,
         capture'.phase \in {"off", "armed"}, Cmd!Cleared,
         snapshot' = Cmd!NoReader
  PROVE  CmdInv'
<1>1. \A p \in First..Last : FreshSlot(p)' /\ ~(p <= 0)
  <2>1. First \in Nat /\ Last \in Nat /\ First \in 1..Last
    BY Zenon DEF CmdTyped
  <2>2. \A p \in First..Last : ~(p <= 0)
    BY <2>1
  <2>3. \A p \in First..Last : pushed'[p] = 0 /\ window'[p].meta_seen = 0
    BY Zenon DEF Cmd!Cleared, Cmd!Window, Cmd!EmptySlot
  <2>. QED  BY Zenon, <2>2, <2>3 DEF FreshSlot
<1>2. 0 <= Pictures /\ 1..0 = {}
  <2>1. Pictures \in Nat
    BY Zenon DEF CmdTyped
  <2>. QED  BY <2>1
<1>3. hist' = {} /\ capture'.phase \notin {"drained", "sealed"}
  BY Zenon DEF Cmd!Cleared
<1>4. WindowSoFar'
  BY Zenon, <1>1, <1>2, <1>3 DEF WindowSoFar
<1>5. CmdPinned'
  BY Zenon DEF CmdPinned
<1>. QED  BY Zenon, <1>4, <1>5 DEF CmdInv

(* Cleared slots are slots.                                                *)
LEMMA ClearedTyped ==
  ASSUME Cmd!Cleared
  PROVE  window' \in [First..Last -> Slots] /\ pushed' \in [First..Last -> Nat]
<1>1. Cmd!EmptySlot \in Slots /\ 0 \in Nat
  BY Zenon DEF Cmd!EmptySlot, Slots
<1>. QED  BY Zenon, <1>1 DEF Cmd!Cleared, Cmd!Window

(* and by the control file and the reader.                                 *)
LEMMA CmdControlKeeps ==
  ASSUME CmdInv,
         \/ \E run \in Cmd!Run, pid \in Pid : Cmd!Arm(run, pid)
         \/ \E run \in Cmd!Run : Cmd!Seal(run)
         \/ Cmd!Discard \/ Cmd!snapshot_open \/ Cmd!snapshot_release
         \/ UNCHANGED Cmd!vars
  PROVE  CmdInv'
<1>1. ASSUME NEW run \in Run, NEW pid \in Pid, Cmd!Arm(run, pid)
      PROVE  CmdInv'
  <2>1. /\ capture' = Armed(run, pid) /\ snapshot' = Cmd!NoReader /\ Cmd!Cleared
        /\ trace_context' = trace_context /\ next_context' = next_context
        /\ running' = running
    BY Zenon, <1>1, SameCore DEF Cmd!Arm, Cmd!Busy, Cmd!fileVars, Cmd!jobVars
  <2>2. /\ capture' \in Capture(Run, Pid) /\ capture'.pictures = 0
        /\ capture'.phase = "armed"
    BY Zenon, <2>1 DEF Armed, Off, Capture, Phase
  <2>3. CmdTyped'
    BY Zenon, <2>1, <2>2, ClearedTyped DEF CmdInv, CmdTyped
  <2>. QED  BY Zenon, <2>1, <2>2, <2>3, NothingRecorded
<1>2. ASSUME Cmd!Discard
      PROVE  CmdInv'
  <2>1. /\ capture' = Off /\ snapshot' = Cmd!NoReader /\ Cmd!Cleared
        /\ trace_context' = trace_context /\ next_context' = next_context
        /\ running' = running
    BY Zenon, <1>2, SameCore DEF Cmd!Discard, Cmd!Busy, Cmd!fileVars,
       Cmd!jobVars
  <2>2. /\ capture' \in Capture(Run, Pid) /\ capture'.pictures = 0
        /\ capture'.phase = "off"
    BY Zenon, <2>1 DEF Off, Capture, Phase
  <2>3. CmdTyped'
    BY Zenon, <2>1, <2>2, ClearedTyped DEF CmdInv, CmdTyped
  <2>. QED  BY Zenon, <2>1, <2>2, <2>3, NothingRecorded
<1>3. ASSUME NEW run \in Run, Cmd!Seal(run)
      PROVE  CmdInv'
  <2>1. /\ capture' = atr_seal(capture) /\ snapshot = Cmd!NoReader
        /\ snapshot' = snapshot /\ UNCHANGED <<hist, window, pushed>>
        /\ trace_context' = trace_context /\ next_context' = next_context
        /\ running' = running /\ capture.phase \in {"drained", "armed"}
        /\ capture \in Capture(Run, Pid)
    BY Zenon, <1>3, SameCore DEF Cmd!Seal, Cmd!Busy, Cmd!fileVars, Cmd!jobVars,
       CanSeal, CmdInv, CmdTyped
  <2>2. /\ capture' \in Capture(Run, Pid)
        /\ capture'.pictures = capture.pictures
        /\ capture'.errors = {} => capture.errors = {} /\ capture.phase # "armed"
    BY Zenon, <2>1 DEF atr_seal, Capture, If, Phase, Error
  <2>3. WindowSoFar'
    BY Zenon, <2>1, <2>2, WindowStays
  <2>. QED  BY Zenon, <2>1, <2>2, <2>3 DEF CmdInv, CmdTyped, CmdPinned
<1>4. CASE Cmd!snapshot_open \/ Cmd!snapshot_release \/ UNCHANGED Cmd!vars
  BY ZenonT(60), <1>4 DEF Cmd!snapshot_open, Cmd!snapshot_release, Cmd!vars,
     Cmd!captureVars, Cmd!fileVars, Cmd!jobVars, CmdInv, CmdTyped,
     WindowSoFar, WholeSlot, FreshSlot, CmdPinned
<1>. QED  BY Zenon, <1>1, <1>2, <1>3, <1>4, SameCore

(***************************************************************************)
(* For every extent, window and size of a slot, any files and processes:   *)
(* an error-free sealed capture of the command recorder holds the whole    *)
(* window, and a reader has that very capture.                             *)
(***************************************************************************)
THEOREM CleanWindowWhole ==
  ASSUME Cmd!CmdRecorderAssumption
  PROVE  Cmd!Spec => []Cmd!CleanWindowIsWhole
<1>1. ASSUME Cmd!Init PROVE CmdInv
  <2>1. /\ capture = Off /\ hist = {} /\ snapshot = Cmd!NoReader
        /\ window = [p \in First..Last |-> Cmd!EmptySlot]
        /\ pushed = [p \in First..Last |-> 0]
        /\ trace_context = [c \in Ctx |-> 0] /\ next_context = 0
        /\ running = NoCtx
    BY Zenon, <1>1, SameCore DEF Cmd!Init, Cmd!Window
  <2>2. /\ capture \in Capture(Run, Pid) /\ capture.pictures = 0
        /\ capture.phase = "off"
    BY Zenon, <2>1 DEF Off, Capture, Phase
  <2>3. Cmd!EmptySlot \in Slots /\ Cmd!EmptySlot.meta_seen = 0 /\ 0 \in Nat
    BY Zenon DEF Cmd!EmptySlot, Slots
  <2>4. /\ Words \in Nat /\ First \in 1..Last /\ Last <= Pictures
        /\ NoCtx \notin Ctx /\ Pictures \in Nat /\ First \in Nat /\ Last \in Nat
    BY Zenon, ExtentAssumption DEF Cmd!CmdRecorderAssumption
  <2>5. CmdTyped
    BY Zenon, <2>1, <2>2, <2>3, <2>4 DEF CmdTyped
  <2>6. WindowSoFar
    <3>1. \A p \in First..Last : FreshSlot(p)
      BY Zenon, <2>1, <2>3 DEF FreshSlot
    <3>2. /\ 0 <= Pictures /\ 1..0 = {}
          /\ \A p \in First..Last : ~(p <= 0)
      BY <2>4
    <3>3. capture.phase \notin {"drained", "sealed"}
      BY Zenon, <2>2
    <3>. QED  BY Zenon, <2>1, <2>2, <3>1, <3>2, <3>3 DEF WindowSoFar
  <2>. QED  BY Zenon, <2>1, <2>5, <2>6 DEF CmdInv, CmdPinned
<1>2. CmdInv /\ [Cmd!Next]_(Cmd!vars) => CmdInv'
  BY Zenon, CmdFilesKeep, CmdStartKeeps, CmdHooksKeep, CmdControlKeeps
     DEF Cmd!Next
<1>3. CmdInv => Cmd!CleanWindowIsWhole
  <2> SUFFICES ASSUME CmdInv, capture.phase = "sealed", capture.errors = {}
               PROVE  Cmd!CleanWindowIsWhole
    BY Zenon DEF Cmd!CleanWindowIsWhole
  <2>1. /\ capture.pictures = Pictures /\ hist = 1..Pictures
        /\ \A p \in First..Last : p <= Pictures => WholeSlot(p)
    BY Zenon DEF CmdInv, WindowSoFar
  <2>2. \A p \in First..Last : p <= Pictures
    <3>1. First \in Nat /\ Last \in Nat /\ Last <= Pictures /\ Pictures \in Nat
      BY Zenon DEF CmdInv, CmdTyped
    <3>. QED  BY <3>1
  <2>. QED  BY Zenon, <2>1, <2>2 DEF Cmd!CleanWindowIsWhole, Cmd!Window,
            WholeSlot, CmdInv, CmdPinned
<1>. QED  BY <1>1, <1>2, <1>3, PTL DEF Cmd!Spec

-----------------------------------------------------------------------------

INSTANCE FiniteSetTheorems

LEMMA FilesAreCounted ==
  Counting
<1> SUFFICES ASSUME NEW S \in SUBSET Ctx
             PROVE  /\ Cardinality(S) \in Nat
                    /\ Cardinality(S) = 0 <=> S = {}
                    /\ \A c \in Ctx \ S :
                         Cardinality(S \cup {c}) = Cardinality(S) + 1
                    /\ \A c \in S : Cardinality(S \ {c}) = Cardinality(S) - 1
  BY Zenon DEF Counting
<1>1. IsFiniteSet(S)
  BY Zenon, RecorderAssumption, FS_Subset
<1>. QED  BY ZenonT(60), <1>1, FS_CardinalityType, FS_EmptySet, FS_AddElement,
          FS_RemoveElement

LEMMA Invariance ==
  Spec => []IInv
BY FilesAreCounted, InitIInv, NextKeeps, PTL DEF Spec

(* Type correctness of the recorder; the record array is never exceeded.   *)
THEOREM TypeCorrect ==
  Spec => []TypeOK
BY Invariance, PTL DEF IInv

(* An error-free sealed capture is a complete record of one context's      *)
(* pictures, and the device did nothing else between arm and seal.         *)
THEOREM CleanSealComplete ==
  Spec => []CleanSealIsComplete
<1>1. IInv => CleanSealIsComplete
  BY Zenon DEF IInv, CleanSoFar, CleanComplete, CleanSealIsComplete, Good
<1>. QED  BY <1>1, Invariance, PTL

(* A pinned capture is neither freed nor changed under its reader.         *)
THEOREM ReaderSeesOneCapture ==
  Spec => []PinnedUnchanged
BY Invariance, PTL DEF IInv

(* A capture follows an open file of the traced process, whose buffers     *)
(* were all created under it.                                              *)
THEOREM FollowsOwn ==
  Spec => []FollowsOwnFile
BY Invariance, PTL DEF IInv

(* A sealed capture never changes until it is discarded as a whole.        *)
THEOREM SealedImmutable ==
  Spec => SealedStays
<1>1. ASSUME IInv, [Next]_vars
      PROVE  [capture.phase = "sealed" =>
                capture' = Off \/ captureVars' = captureVars]_vars
  BY Zenon, <1>1, SealedStep
<1>. QED  BY <1>1, Invariance, PTL DEF Spec, SealedStays

(* An error-free sealed capture has lost no record: each picture has one   *)
(* start and one done record, and its records lie between them.            *)
THEOREM CleanSealWhole ==
  Spec => []CleanSealIsWhole
<1>1. Init => NothingLost
  <2>1. Off.phase = "off"
    BY Zenon DEF Off
  <2>. QED  BY Zenon, <2>1 DEF Init, NothingLost
<1>2. IInv /\ NothingLost /\ [Next]_vars => NothingLost'
  BY ZenonT(60), StartLosesNothing, DetailLosesNothing, DoneLosesNothing,
     QuietLosesNothing, ControlLosesNothing DEF Next
<1>3. IInv /\ NothingLost => CleanSealIsWhole
  <2> SUFFICES ASSUME IInv, NothingLost,
                      capture.phase = "sealed", capture.errors = {}
               PROVE  CleanSealIsWhole
    BY Zenon DEF CleanSealIsWhole
  <2>1. capture.pictures = Pictures /\ capture.completions = Pictures
    BY Zenon DEF IInv, CleanSoFar, CleanComplete
  <2>2. Kept(Pictures, Pictures)
    BY Zenon, <2>1 DEF NothingLost
  <2>3. \A p \in 1..Pictures, kind \in {"start", "done"} : Once(records, kind, p)
    BY Zenon, <2>2 DEF Kept
  <2>. QED  BY Zenon, <2>2, <2>3 DEF CleanSealIsWhole, Kept, Once
<1>. QED  BY <1>1, <1>2, <1>3, Invariance, PTL DEF Spec

=============================================================================
