----------------------------- MODULE Vp9Session -----------------------------
(***************************************************************************)
(* One decoder session of experiments/vp9-state/model.py: the queue and    *)
(* reference state of a VP9 stream that changes its size, on the stock     *)
(* path and on the proposed one.  Every operation is an action; the events *)
(* of a fixture arrive in any order.  run_events() stops at the first      *)
(* event that is refused, and so does this module.                         *)
(*                                                                         *)
(* A session has one bit depth, and an event of another is refused.  An    *)
(* era is named by its aligned size, on which its sizeimage depends.  The  *)
(* index of timestamps is kept for the current generation, the only one    *)
(* that is looked up.  Left out: the width and height of a buffer and the  *)
(* name of the session, which nothing reads back, and seg_present, which   *)
(* nothing reads.                                                          *)
(***************************************************************************)
EXTENDS Integers, FiniteSets, FiniteSetsExt

CONSTANTS
    Buf,            \* names of buffers
    NoBuf,
    Size,           \* <<width, height>> of CAPTURE formats and frames
    OutputSize,     \* <<width, height>> of OUTPUT formats
    Backing,        \* backing_bytes in events
    BitDepth,       \* 8 or 10
    TS_SCALE,
    MaxSlots,       \* bound: buffers requested
    MaxGeneration,  \* bound: queues replaced
    MaxTs           \* bound: timestamps of registrations

ASSUME Vp9Assumption ==
    /\ NoBuf \notin Buf
    /\ Size \cup OutputSize \subseteq (Nat \ {0}) \X (Nat \ {0})
    /\ Backing \subseteq Nat
    /\ BitDepth \in {8, 10}
    /\ TS_SCALE \in Nat \ {0}
    /\ {MaxSlots, MaxGeneration, MaxTs} \subseteq Nat

VARIABLES
    path,                \* "stock" or "proposed"
    verdict,             \* "running", or "refused" by the first bad event
    failed,
    destructive_done,
    output_streaming,
    capture_streaming,
    capture_slots,
    capture_generation,
    current_era,
    coded,               \* <<coded_w, coded_h>>
    scratch,             \* <<scratch_w, scratch_h>> while it is present
    probabilities,
    last_present,
    seg_policy,
    buffer,              \* buffers
    slot,                \* index -> name in the current generation
    ts_index,            \* timestamp -> name in the current generation
    registrations        \* name -> generation

capture == <<capture_streaming, capture_slots, capture_generation, slot>>
output == <<output_streaming, coded, scratch, probabilities, last_present,
            seg_policy>>
refs == <<buffer, ts_index, registrations>>
vars == <<path, verdict, failed, destructive_done, capture, current_era,
          output, refs>>

None == -1
NoSize == <<0, 0>>
Index == 0..(MaxSlots - 1)
Ts == 1..Max({MaxTs, MaxSlots * TS_SCALE})

-----------------------------------------------------------------------------
(***************************************************************************)
(* Sizes.                                                                  *)
(***************************************************************************)
div_round_up(n, d) == (n + d - 1) \div d
round_up(n, a) == div_round_up(n, a) * a
roundup_pow_of_two(n) == CHOOSE p \in {2^k : k \in 0..16} :
                             p >= n /\ p < 2 * n

calc_tile_meta(w, h, bpb, dim, header) ==
    LET tw == div_round_up(w, dim)
        th == div_round_up(h, dim)
    IN  round_up(tw * th * dim * dim * div_round_up(bpb, 8), 16)
        + round_up(roundup_pow_of_two(tw) * roundup_pow_of_two(th) * header, 16)

fill_comp(w, h) ==
    calc_tile_meta(w, h, BitDepth, 32, 32)
    + calc_tile_meta(w \div 2, h \div 2, BitDepth * 2, 16, 8)

pixel_plane(w, h) ==
    LET luma == w * h * (IF BitDepth = 10 THEN 2 ELSE 1)
    IN  luma + luma \div 2

Aligned(s) == <<round_up(s[1], 64), round_up(s[2], 16)>>
AtLeast64(s) == s[1] >= 64 /\ s[2] >= 64
sizeimage(era) == pixel_plane(era[1], era[2]) + fill_comp(era[1], era[2])

(* The frame fits the geometry the scratch was allocated for. *)
FitsScratch(s) ==
    \A a \in {8, 16, 64}, d \in {1, 2} :
        div_round_up(s[d], a) <= div_round_up(scratch[d], a)

-----------------------------------------------------------------------------
NoBuffer ==
    [known |-> FALSE, era |-> NoSize, backing |-> 0, index |-> None,
     generation |-> None, timestamp |-> None, decoded_ok |-> FALSE,
     exported |-> FALSE, queued_as_dst |-> FALSE, wrapper_alive |-> FALSE]

Init ==
    /\ path \in {"stock", "proposed"}
    /\ verdict = "running"
    /\ failed = FALSE
    /\ destructive_done = FALSE
    /\ output_streaming = FALSE
    /\ capture_streaming = FALSE
    /\ capture_slots = 0
    /\ capture_generation = 0
    /\ current_era = NoSize
    /\ coded = NoSize
    /\ scratch = NoSize
    /\ probabilities = FALSE
    /\ last_present = FALSE
    /\ seg_policy = "absent"
    /\ buffer = [b \in Buf |-> NoBuffer]
    /\ slot = [i \in Index |-> NoBuf]
    /\ ts_index = [t \in Ts |-> NoBuf]
    /\ registrations = [b \in Buf |-> None]

Running == verdict = "running"

-----------------------------------------------------------------------------
(***************************************************************************)
(* Formats and streaming.                                                  *)
(***************************************************************************)
OutputSFmt(s) ==
    /\ Running
    /\ ~output_streaming
    /\ capture_slots = 0
    /\ coded' = s
    /\ UNCHANGED <<path, verdict, failed, destructive_done, capture,
                   current_era, output_streaming, scratch, probabilities,
                   last_present, seg_policy, refs>>

CaptureSFmt(s) ==
    /\ Running
    /\ capture_slots = 0
    /\ AtLeast64(s)
    /\ current_era' = Aligned(s)
    /\ UNCHANGED <<path, verdict, failed, destructive_done, capture, output,
                   refs>>

(* A repeated STREAMON changes nothing. *)
OutputStreamon ==
    /\ Running
    /\ ~output_streaming
    /\ coded # NoSize
    /\ output_streaming' = TRUE
    /\ probabilities' = TRUE
    /\ last_present' = TRUE
    /\ scratch' = coded
    /\ seg_policy' = "present"
    /\ UNCHANGED <<path, verdict, failed, destructive_done, capture,
                   current_era, coded, refs>>

OutputStreamoff ==
    /\ Running
    /\ output_streaming' = FALSE
    /\ probabilities' = FALSE
    /\ last_present' = FALSE
    /\ scratch' = NoSize
    /\ seg_policy' = "lost"
    /\ UNCHANGED <<path, verdict, failed, destructive_done, capture,
                   current_era, coded, refs>>

CaptureStreamon ==
    /\ Running
    /\ ~failed
    /\ capture_slots > 0
    /\ capture_streaming' = TRUE
    /\ UNCHANGED <<path, verdict, failed, destructive_done, capture_slots,
                   capture_generation, slot, current_era, output, refs>>

CaptureStreamoff ==
    /\ Running
    /\ capture_streaming' = FALSE
    /\ UNCHANGED <<path, verdict, failed, destructive_done, capture_slots,
                   capture_generation, slot, current_era, output, refs>>

(* Mutant: the buffers of the old queue stay queued. *)
ReplaceQueueKeepsQueued ==
    /\ capture_generation < MaxGeneration
    /\ capture_generation' = capture_generation + 1
    /\ destructive_done' = TRUE
    /\ buffer' = [b \in Buf |-> [buffer[b] EXCEPT
                      !.wrapper_alive = FALSE,
                      !.index = None, !.generation = None]]
    /\ ts_index' = [t \in Ts |-> NoBuf]
    /\ registrations' = [b \in Buf |-> None]

(* Replacing or freeing the queue opens a generation: the slots, the       *)
(* registrations and the generation's timestamps are gone, while a buffer  *)
(* keeps its content and its last timestamp.                               *)
ReplaceQueue ==
    /\ capture_generation < MaxGeneration
    /\ capture_generation' = capture_generation + 1
    /\ destructive_done' = TRUE
    /\ buffer' = [b \in Buf |-> [buffer[b] EXCEPT
                      !.wrapper_alive = FALSE, !.queued_as_dst = FALSE,
                      !.index = None, !.generation = None]]
    /\ ts_index' = [t \in Ts |-> NoBuf]
    /\ registrations' = [b \in Buf |-> None]

CaptureReqbufs(count) ==
    /\ Running
    /\ ~capture_streaming
    /\ count > 0 => current_era # NoSize
    /\ slot' = [i \in Index |-> NoBuf]
    /\ capture_slots' = count
    /\ \/ (count = 0 \/ capture_slots > 0) /\ ReplaceQueue
       \/ /\ count > 0 /\ capture_slots = 0
          /\ UNCHANGED <<capture_generation, destructive_done, refs>>
    /\ UNCHANGED <<path, verdict, failed, capture_streaming, current_era,
                   output>>

-----------------------------------------------------------------------------
(***************************************************************************)
(* Destinations.                                                           *)
(***************************************************************************)
BackingChoice ==
    IF current_era = NoSize THEN {} ELSE Backing \cup {sizeimage(current_era)}

(* The buffer of this name, created by its first use as a destination. *)
Made(b, backing) ==
    IF buffer[b].known THEN buffer[b]
    ELSE [NoBuffer EXCEPT !.known = TRUE, !.era = current_era,
                          !.backing = backing]

FreeIndex == {i \in 0..(capture_slots - 1) : slot[i] = NoBuf}
IndexTs(i) == (i + 1) * TS_SCALE

CanQueue(b, backing) ==
    /\ current_era # NoSize
    /\ registrations[b] = None
    /\ ~buffer[b].queued_as_dst
    /\ Made(b, backing).backing >= sizeimage(current_era)
    /\ FreeIndex # {}

Queued(b, backing, i) ==
    [Made(b, backing) EXCEPT
        !.index = i, !.generation = capture_generation,
        !.timestamp = IndexTs(i), !.wrapper_alive = TRUE,
        !.queued_as_dst = TRUE]

(* Mutant: the timestamp is taken over. *)
NeverAliased(b, i) ==
    FALSE

(* The timestamp of the index names other content in this generation. *)
Aliased(b, i) ==
    ts_index[IndexTs(i)] \notin {NoBuf, b}

QueueDst(b, backing) ==
    /\ Running
    /\ ~failed
    /\ CanQueue(b, backing)
    /\ LET i == Min(FreeIndex)
       IN  /\ ~Aliased(b, i)
           /\ slot' = [slot EXCEPT ![i] = b]
           /\ buffer' = [buffer EXCEPT ![b] = Queued(b, backing, i)]
           /\ ts_index' = [ts_index EXCEPT ![IndexTs(i)] = b]
    /\ UNCHANGED <<path, verdict, failed, destructive_done,
                   capture_streaming, capture_slots, capture_generation,
                   current_era, output, registrations>>

-----------------------------------------------------------------------------
(***************************************************************************)
(* References.                                                             *)
(***************************************************************************)
InGeneration(r) ==
    /\ buffer[r].wrapper_alive
    /\ buffer[r].decoded_ok
    /\ buffer[r].generation = capture_generation

ResolveStockUserspace(r) == InGeneration(r)

ResolveStockKernel(r) ==
    buffer[r].timestamp # None /\ ts_index[buffer[r].timestamp] = r

ResolveProposed(r) ==
    /\ buffer[r].known
    /\ buffer[r].backing >= sizeimage(buffer[r].era)
    /\ \/ /\ registrations[r] # None
          /\ ~buffer[r].queued_as_dst
          /\ registrations[r] = capture_generation
       \/ registrations[r] = None /\ InGeneration(r)

Resolve(r, force_kernel) ==
    CASE path = "proposed" -> ResolveProposed(r)
      [] path = "stock" /\ force_kernel -> ResolveStockKernel(r)
      [] OTHER -> ResolveStockUserspace(r)

(* refs is empty on a key frame. *)
CanDecode(dst, s, ref_names, force_kernel) ==
    /\ ~failed
    /\ output_streaming /\ probabilities
    /\ capture_streaming /\ capture_slots > 0
    /\ AtLeast64(s)
    /\ current_era = Aligned(s)
    /\ \A r \in ref_names : r # dst /\ Resolve(r, force_kernel)
    /\ scratch # NoSize /\ FitsScratch(s)

(* A destination that is not queued yet is queued first. *)
Decode(dst, s, ref_names, force_kernel, backing) ==
    /\ Running
    /\ CanDecode(dst, s, ref_names, force_kernel)
    /\ \/ /\ buffer[dst].queued_as_dst
          /\ buffer' = [buffer EXCEPT ![dst].decoded_ok = TRUE,
                                      ![dst].era = current_era]
          /\ UNCHANGED <<slot, ts_index>>
       \/ /\ CanQueue(dst, backing)
          /\ LET i == Min(FreeIndex)
             IN  /\ ~Aliased(dst, i)
                 /\ slot' = [slot EXCEPT ![i] = dst]
                 /\ buffer' = [buffer EXCEPT ![dst] =
                                  [Queued(dst, backing, i) EXCEPT
                                      !.decoded_ok = TRUE,
                                      !.era = current_era]]
                 /\ ts_index' = [ts_index EXCEPT ![IndexTs(i)] = dst]
    /\ last_present' = TRUE
    /\ UNCHANGED <<path, verdict, failed, destructive_done,
                   capture_streaming, capture_slots, capture_generation,
                   current_era, output_streaming, coded, scratch,
                   probabilities, seg_policy, registrations>>

Export(b, backing) ==
    /\ Running
    /\ buffer[b].decoded_ok
    /\ buffer' = [buffer EXCEPT ![b].exported = TRUE, ![b].backing = backing]
    /\ UNCHANGED <<path, verdict, failed, destructive_done, capture,
                   current_era, output, ts_index, registrations>>

CanRegister(b) ==
    /\ ~failed
    /\ path = "proposed"
    /\ buffer[b].exported
    /\ buffer[b].decoded_ok
    /\ ~buffer[b].queued_as_dst
    /\ buffer[b].backing >= sizeimage(buffer[b].era)

(* Mutant: the timestamp is not entered in the index. *)
RegisterUnindexed(b, ts, index) ==
    /\ Running
    /\ CanRegister(b)
    /\ ts_index[ts] = NoBuf
    /\ index # None => slot[index] = NoBuf
    /\ buffer' = [buffer EXCEPT ![b].timestamp = ts,
                                ![b].queued_as_dst = FALSE]
    /\ registrations' = [registrations EXCEPT ![b] = capture_generation]
    /\ UNCHANGED <<path, verdict, failed, destructive_done, capture,
                   current_era, output, ts_index>>

(* index is None when the event has none.  The default timestamp, one more *)
(* than any used by a registration, is a timestamp like any other: events  *)
(* may name every one, those of the slots and REG_TS_BASE included.        *)
Register(b, ts, index) ==
    /\ Running
    /\ CanRegister(b)
    /\ ts_index[ts] = NoBuf
    /\ index # None => slot[index] = NoBuf
    /\ ts_index' = [ts_index EXCEPT ![ts] = b]
    /\ buffer' = [buffer EXCEPT ![b].timestamp = ts,
                                ![b].queued_as_dst = FALSE]
    /\ registrations' = [registrations EXCEPT ![b] = capture_generation]
    /\ UNCHANGED <<path, verdict, failed, destructive_done, capture,
                   current_era, output>>

-----------------------------------------------------------------------------
(***************************************************************************)
(* Reconfiguration, failure and refusal.                                   *)
(***************************************************************************)
CanReconfigure ==
    /\ ~failed
    /\ path = "proposed"
    /\ output_streaming
    /\ ~capture_streaming /\ capture_slots = 0

ProposedReconfigure(s) ==
    /\ Running
    /\ CanReconfigure
    /\ AtLeast64(s)
    /\ coded' = s
    /\ current_era' = Aligned(s)
    /\ scratch' = s
    /\ probabilities' = TRUE
    /\ last_present' = TRUE
    /\ seg_policy' = "unknown"
    /\ UNCHANGED <<path, verdict, failed, destructive_done, capture,
                   output_streaming, refs>>

(* A failure of the preflight changes nothing. *)
InjectFailure ==
    /\ Running
    /\ destructive_done
    /\ failed' = TRUE
    /\ UNCHANGED <<path, verdict, destructive_done, capture, current_era,
                   output, refs>>

(* The first refused event ends the run.  A question to the firmware is    *)
(* always refused, so this step needs no guard; it stands for every        *)
(* refusal that changes nothing.                                           *)
Refuse ==
    /\ Running
    /\ verdict' = "refused"
    /\ UNCHANGED <<path, failed, destructive_done, capture, current_era,
                   output, refs>>

(* A refused destination, of a queue or of a decode, leaves the buffer     *)
(* made for it, and its slot when the timestamp is what was refused.       *)
QueueRefused(b, backing) ==
    /\ Running
    /\ ~failed
    /\ verdict' = "refused"
    /\ \/ /\ ~CanQueue(b, backing)
          /\ buffer' = [buffer EXCEPT ![b] = Made(b, backing)]
          /\ UNCHANGED slot
       \/ /\ CanQueue(b, backing)
          /\ LET i == Min(FreeIndex)
             IN  /\ Aliased(b, i)
                 /\ slot' = [slot EXCEPT ![i] = b]
                 /\ buffer' = [buffer EXCEPT ![b] = Queued(b, backing, i)]
    /\ UNCHANGED <<path, failed, destructive_done, capture_streaming,
                   capture_slots, capture_generation, current_era, output,
                   ts_index, registrations>>

(* A reconfiguration refused for its size has already set the coded size. *)
ReconfigureRefused(s) ==
    /\ Running
    /\ CanReconfigure
    /\ ~AtLeast64(s)
    /\ verdict' = "refused"
    /\ coded' = s
    /\ UNCHANGED <<path, failed, destructive_done, capture, current_era,
                   output_streaming, scratch, probabilities, last_present,
                   seg_policy, refs>>

Next ==
    \/ \E s \in OutputSize : OutputSFmt(s)
    \/ \E s \in Size :
          \/ CaptureSFmt(s)
          \/ ProposedReconfigure(s)
          \/ ReconfigureRefused(s)
    \/ OutputStreamon
    \/ OutputStreamoff
    \/ CaptureStreamon
    \/ CaptureStreamoff
    \/ \E count \in 0..MaxSlots : CaptureReqbufs(count)
    \/ \E b \in Buf, backing \in BackingChoice :
          QueueDst(b, backing) \/ QueueRefused(b, backing)
    \/ \E dst \in Buf, s \in Size, ref_names \in SUBSET Buf,
          force_kernel \in BOOLEAN, backing \in BackingChoice :
          Decode(dst, s, ref_names, force_kernel, backing)
    \/ \E b \in Buf : \E backing \in Backing \cup {buffer[b].backing} :
          Export(b, backing)
    \/ \E b \in Buf, ts \in 1..MaxTs, index \in Index \cup {None} :
          Register(b, ts, index)
    \/ InjectFailure
    \/ Refuse

Spec == Init /\ [][Next]_vars

-----------------------------------------------------------------------------
(* snapshot(): what the session says it has lost. *)
lost ==
    LET Gone(name, gone) == IF gone THEN {name} ELSE {}
    IN  Gone("wrapper_metadata", /\ \E b \in Buf : buffer[b].known
                                 /\ ~\E b \in Buf : buffer[b].wrapper_alive)
        \cup Gone("frame_context", ~probabilities)
        \cup Gone("last_frame_info", ~last_present)
        \cup Gone("scratch", scratch = NoSize)
        \cup Gone("seg_map", seg_policy \in {"lost", "absent"})
        \cup Gone("seg_map_policy_unknown", seg_policy = "unknown")

-----------------------------------------------------------------------------
(***************************************************************************)
(* Properties.                                                             *)
(***************************************************************************)
(* The variables of Session.__init__() keep their types. *)
TypeOK ==
    /\ path \in {"stock", "proposed"}
    /\ verdict \in {"running", "refused"}
    /\ {failed, destructive_done, output_streaming, capture_streaming,
        probabilities, last_present} \subseteq BOOLEAN
    /\ capture_slots \in 0..MaxSlots
    /\ capture_generation \in 0..MaxGeneration
    /\ current_era \in {Aligned(s) : s \in Size} \cup {NoSize}
    /\ {coded, scratch} \subseteq Size \cup OutputSize \cup {NoSize}
    /\ seg_policy \in {"absent", "present", "lost", "unknown"}
    /\ \A b \in Buf :
          /\ buffer[b].index \in Index \cup {None}
          /\ buffer[b].timestamp \in Ts \cup {None}
          /\ buffer[b].backing \in Nat
    /\ slot \in [Index -> Buf \cup {NoBuf}]
    /\ ts_index \in [Ts -> Buf \cup {NoBuf}]
    /\ registrations \in [Buf -> 0..MaxGeneration \cup {None}]

(* _alloc_index(), op_register() and op_capture_reqbufs() keep slots and   *)
(* buffers in step: a buffer is queued exactly when the slot of its index  *)
(* holds it, no slot beyond the requested ones is used, and a registered   *)
(* reference is never queued as a destination.  A registration is of the   *)
(* current generation, so the stale_registration refusal of                *)
(* _resolve_proposed() is never needed.                                    *)
SlotsAgree ==
    /\ \A i \in Index, b \in Buf :
          slot[i] = b <=> buffer[b].queued_as_dst /\ buffer[b].index = i
    /\ \A i \in Index : slot[i] # NoBuf => i < capture_slots
    /\ \A b \in Buf : buffer[b].queued_as_dst =>
          /\ buffer[b].generation = capture_generation
          /\ registrations[b] = None
    /\ \A b \in Buf : registrations[b] \in {None, capture_generation}

(* A reference that _resolve_stock_userspace() or _resolve_proposed()      *)
(* accepts is the buffer the kernel's lookup of its timestamp finds: the   *)
(* lookup neither misses, which would read the destination, nor hits other *)
(* content of the same timestamp.                                          *)
LookupHits ==
    Running => \A r \in Buf : Resolve(r, FALSE) => ResolveStockKernel(r)

(* Within a generation a timestamp that names a buffer goes on naming it,  *)
(* whatever is queued, registered or decoded: op_queue_dst() and           *)
(* op_register() never take a used one over.                               *)
TimestampStable ==
    [][\A t \in Ts :
          ts_index[t] # NoBuf /\ capture_generation' = capture_generation
          => ts_index'[t] = ts_index[t]]_vars

(* The snapshot tells the truth about what op_output_streamoff(),          *)
(* op_capture_reqbufs() and op_proposed_reconfigure() take: the whole      *)
(* codec context is lost exactly while OUTPUT does not stream, the scratch *)
(* of one that is not lost has the coded size, and without CAPTURE slots   *)
(* no buffer has kept its wrapper.                                         *)
ContextWhole ==
    LET context == {"frame_context", "last_frame_info", "scratch", "seg_map"}
    IN  /\ context \cap lost = IF output_streaming THEN {} ELSE context
        /\ Running /\ "scratch" \notin lost => scratch = coded
        /\ capture_slots = 0 /\ (\E b \in Buf : buffer[b].known)
              => "wrapper_metadata" \in lost

=============================================================================
