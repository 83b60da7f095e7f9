--------------------------- MODULE Vp9SessionProofs ---------------------------
(***************************************************************************)
(* For every set of buffers, every size and every bound: the four          *)
(* properties of Vp9Session hold of every sequence of events.              *)
(*                                                                         *)
(* The invariant has three parts.  Typed gives the buffers and the tables  *)
(* their types.  Context relates what the OUTPUT queue owns.  Queues       *)
(* relates slots, buffers, timestamps and registrations; Indexed, its      *)
(* part about timestamps, holds while no event has been refused.           *)
(***************************************************************************)
EXTENDS Vp9Session, WellFoundedInduction, TLAPS

Eras == {Aligned(s) : s \in Size} \cup {NoSize}
Backings == Backing \cup {sizeimage(e) : e \in Eras} \cup {0}

Buffer ==
    [known : BOOLEAN, era : Eras, backing : Backings, index : Index \cup {None},
     generation : 0..MaxGeneration \cup {None}, timestamp : Ts \cup {None},
     decoded_ok : BOOLEAN, exported : BOOLEAN, queued_as_dst : BOOLEAN,
     wrapper_alive : BOOLEAN]

Typed ==
    /\ path \in {"stock", "proposed"}
    /\ verdict \in {"running", "refused"}
    /\ capture_slots \in 0..MaxSlots
    /\ capture_generation \in 0..MaxGeneration
    /\ current_era \in Eras
    /\ buffer \in [Buf -> Buffer]
    /\ slot \in [Index -> Buf \cup {NoBuf}]
    /\ ts_index \in [Ts -> Buf \cup {NoBuf}]
    /\ registrations \in [Buf -> 0..MaxGeneration \cup {None}]

(* What OUTPUT streaming allocates is there exactly while it streams. *)
Context ==
    /\ output_streaming \in BOOLEAN
    /\ probabilities = output_streaming
    /\ last_present = output_streaming
    /\ output_streaming <=> scratch # NoSize
    /\ output_streaming <=> seg_policy \notin {"lost", "absent"}
    /\ Running /\ output_streaming => scratch = coded

(* A buffer that may be found as a reference is the one its timestamp is   *)
(* the index of.                                                           *)
Indexed ==
    \A b \in Buf :
        \/ buffer[b].wrapper_alive /\ buffer[b].generation = capture_generation
        \/ registrations[b] # None
        => buffer[b].timestamp # None /\ ts_index[buffer[b].timestamp] = b

Queues ==
    /\ SlotsAgree
    /\ Running => Indexed
    /\ capture_slots = 0 => \A b \in Buf : ~buffer[b].wrapper_alive
    /\ \A b \in Buf : buffer[b].queued_as_dst => buffer[b].known

Inv ==
    Typed /\ Context /\ Queues

-----------------------------------------------------------------------------
(* A set of naturals that has an element has a least one. *)
LEMMA MinOfNat ==
    ASSUME NEW S \in SUBSET Nat, S # {}
    PROVE  Min(S) \in S
<1>1. IsWellFoundedOn(OpToRel(<, Nat), Nat)
  BY ZenonT(60), NatLessThanWellFounded
<1>2. \A x, y \in Nat : y < x => <<y, x>> \in OpToRel(<, Nat)
  BY DEF OpToRel
<1>3. PICK x \in S : \A y \in S : ~(<<y, x>> \in OpToRel(<, Nat))
  BY <1>1, WFMin, Zenon
<1>4. \A y \in S : ~(y < x)
  BY <1>2, <1>3, Zenon
<1>5. \A y \in S : x <= y
  BY <1>4
<1> QED  BY ZenonT(60), <1>5 DEF Min

(* The slot that is taken is one of the requested and free, and its        *)
(* timestamp is in the index's range.                                      *)
LEMMA FreeSlot ==
    ASSUME Typed, FreeIndex # {}
    PROVE  /\ Min(FreeIndex) \in Index
           /\ Min(FreeIndex) < capture_slots
           /\ slot[Min(FreeIndex)] = NoBuf
           /\ IndexTs(Min(FreeIndex)) \in Ts
           /\ capture_slots > 0
<1> DEFINE i == Min(FreeIndex)
<1>1. FreeIndex \in SUBSET Nat
  BY Vp9Assumption DEF FreeIndex, Typed
<1>2. i \in FreeIndex
  BY <1>1, MinOfNat
<1> HIDE DEF i
<1>3. i \in 0..(capture_slots - 1) /\ slot[i] = NoBuf
  BY <1>2 DEF FreeIndex
<1>4. MaxSlots \in Nat /\ MaxTs \in Nat /\ TS_SCALE \in Nat /\ TS_SCALE > 0
  BY Vp9Assumption
<1>5. i \in Nat /\ i + 1 <= MaxSlots /\ i < capture_slots /\ capture_slots > 0
  BY <1>3, <1>4 DEF Typed
<1>6. i \in Index
  BY <1>4, <1>5 DEF Index
<1>7. IndexTs(i) \in Ts
  <2> DEFINE m == MaxSlots * TS_SCALE
             M == Max({MaxTs, m})
  <2>1. m \in Nat
    BY <1>4
  <2>2. (i + 1) * TS_SCALE \in Nat /\ (i + 1) * TS_SCALE >= 1 /\ (i + 1) * TS_SCALE <= m
    BY <1>4, <1>5
  <2> HIDE DEF m
  <2>3. M \in Nat /\ M >= m
    <3>1. \E x \in {MaxTs, m} : \A y \in {MaxTs, m} : x >= y
      BY <1>4, <2>1
    <3> QED  BY <1>4, <2>1, <3>1 DEF Max
  <2> HIDE DEF M
  <2>4. (i + 1) * TS_SCALE \in 1..M
    BY <2>1, <2>2, <2>3
  <2> QED  BY <2>4 DEF IndexTs, Ts, M, m
<1> QED  BY <1>3, <1>5, <1>6, <1>7 DEF i

LEMMA NoBufferTyped ==
    /\ NoBuffer \in Buffer
    /\ \A g \in 0..MaxGeneration : g # None
BY Vp9Assumption DEF NoBuffer, Buffer, Eras, Backings, None

LEMMA MadeTyped ==
    ASSUME Typed, NEW b \in Buf, NEW backing \in BackingChoice
    PROVE  /\ Made(b, backing) \in Buffer
           /\ Made(b, backing).known
           /\ Made(b, backing) # buffer[b] =>
                  /\ ~buffer[b].known
                  /\ Made(b, backing).wrapper_alive = FALSE
                  /\ Made(b, backing).queued_as_dst = FALSE
                  /\ Made(b, backing).generation = None
<1>1. buffer[b] \in Buffer
  BY DEF Typed
<1>2. current_era \in Eras /\ backing \in Backings
  BY DEF Typed, BackingChoice, Backings
<1>3. [NoBuffer EXCEPT !.known = TRUE, !.era = current_era, !.backing = backing] \in Buffer
  BY ZenonT(60), <1>2, NoBufferTyped DEF Buffer
<1> QED  BY <1>1, <1>2, <1>3 DEF Made, NoBuffer

-----------------------------------------------------------------------------
LEMMA InvInit ==
    Init => Inv
<1> SUFFICES ASSUME Init PROVE Inv
  OBVIOUS
<1>1. Typed
  BY Vp9Assumption, NoBufferTyped DEF Init, Typed, Eras
<1>2. Context
  BY ZenonT(60) DEF Init, Context, NoSize
<1>3. \A b \in Buf : buffer[b] = NoBuffer
  BY DEF Init
<1>4. SlotsAgree
  BY <1>3, Vp9Assumption DEF Init, SlotsAgree, NoBuffer
<1>5. Indexed
  BY <1>3 DEF Init, Indexed, NoBuffer
<1> QED  BY <1>1, <1>2, <1>3, <1>4, <1>5 DEF Inv, Queues, NoBuffer

(* Nothing about the CAPTURE queue changes. *)
LEMMA QueuesStill ==
    ASSUME Queues, Running' => Running,
           UNCHANGED <<capture_slots, capture_generation, slot, refs>>
    PROVE  Queues'
BY DEF Queues, SlotsAgree, Indexed, refs

(* Nothing about the OUTPUT queue changes. *)
LEMMA ContextStill ==
    ASSUME Context, Running' => Running, UNCHANGED output
    PROVE  Context'
BY DEF Context, output

(***************************************************************************)
(* A destination takes the slot that _alloc_index() finds.  Unless it is   *)
(* refused for its timestamp, the timestamp goes to it.                    *)
(***************************************************************************)
LEMMA Enqueue ==
    ASSUME Typed, Queues, NEW b \in Buf, NEW rec \in Buffer,
           FreeIndex # {}, registrations[b] = None, ~buffer[b].queued_as_dst,
           LET i == Min(FreeIndex)
           IN  /\ rec.index = i /\ rec.timestamp = IndexTs(i)
               /\ rec.generation = capture_generation
               /\ rec.wrapper_alive /\ rec.queued_as_dst /\ rec.known
               /\ slot' = [slot EXCEPT ![i] = b]
               /\ buffer' = [buffer EXCEPT ![b] = rec]
               /\ \/ ~Running' /\ ts_index' = ts_index
                  \/ /\ Running /\ ~Aliased(b, i)
                     /\ ts_index' = [ts_index EXCEPT ![IndexTs(i)] = b],
           UNCHANGED <<capture_slots, capture_generation, registrations>>
    PROVE  /\ Queues'
           /\ buffer' \in [Buf -> Buffer]
           /\ slot' \in [Index -> Buf \cup {NoBuf}]
           /\ ts_index' \in [Ts -> Buf \cup {NoBuf}]
<1> DEFINE i == Min(FreeIndex)
<1>1. /\ i \in Index /\ i < capture_slots /\ slot[i] = NoBuf
      /\ IndexTs(i) \in Ts /\ capture_slots > 0
  BY FreeSlot
<1>2. /\ rec.index = i /\ rec.timestamp = IndexTs(i)
      /\ rec.generation = capture_generation
      /\ rec.wrapper_alive /\ rec.queued_as_dst /\ rec.known
      /\ slot' = [slot EXCEPT ![i] = b]
      /\ buffer' = [buffer EXCEPT ![b] = rec]
      /\ \/ ~Running' /\ ts_index' = ts_index
         \/ /\ Running /\ ~Aliased(b, i)
            /\ ts_index' = [ts_index EXCEPT ![IndexTs(i)] = b]
  OBVIOUS
<1> HIDE DEF i
<1>3. /\ slot'[i] = b /\ \A j \in Index \ {i} : slot'[j] = slot[j]
      /\ buffer'[b] = rec /\ \A c \in Buf \ {b} : buffer'[c] = buffer[c]
  BY <1>1, <1>2 DEF Typed
<1>4. SlotsAgree'
  <2>1. ASSUME NEW j \in Index, NEW c \in Buf
        PROVE  slot'[j] = c <=> buffer'[c].queued_as_dst /\ buffer'[c].index = j
    <3>1. b # NoBuf /\ c # NoBuf
      BY Vp9Assumption
    <3>2. slot[j] = c <=> buffer[c].queued_as_dst /\ buffer[c].index = j
      BY DEF Queues, SlotsAgree
    <3> QED  BY <1>1, <1>2, <1>3, <3>1, <3>2 DEF Queues, SlotsAgree
  <2>2. \A j \in Index : slot'[j] # NoBuf => j < capture_slots'
    BY <1>1, <1>3 DEF Queues, SlotsAgree
  <2>3. \A c \in Buf : buffer'[c].queued_as_dst =>
            buffer'[c].generation = capture_generation' /\ registrations'[c] = None
    BY <1>2, <1>3 DEF Queues, SlotsAgree
  <2>4. \A c \in Buf : registrations'[c] \in {None, capture_generation'}
    BY DEF Queues, SlotsAgree
  <2> QED  BY <2>1, <2>2, <2>3, <2>4 DEF SlotsAgree
<1>5. Running' => Indexed'
  <2> SUFFICES ASSUME Running', NEW c \in Buf,
                      \/ buffer'[c].wrapper_alive /\ buffer'[c].generation = capture_generation'
                      \/ registrations'[c] # None
               PROVE  buffer'[c].timestamp # None /\ ts_index'[buffer'[c].timestamp] = c
    BY DEF Indexed
  <2>1. /\ Running /\ ~Aliased(b, i)
        /\ ts_index' = [ts_index EXCEPT ![IndexTs(i)] = b]
    BY <1>2
  <2>2. CASE c = b
    BY <1>1, <1>2, <1>3, <2>1, <2>2 DEF Typed, Ts, None
  <2>3. CASE c # b
    <3>1. buffer[c].timestamp # None /\ ts_index[buffer[c].timestamp] = c
      BY <1>3, <2>1, <2>3 DEF Queues, Indexed
    <3>2. buffer[c].timestamp # IndexTs(i)
      BY <2>1, <2>3, <3>1, Vp9Assumption DEF Aliased
    <3>3. buffer[c].timestamp \in Ts
      BY <3>1 DEF Typed, Buffer
    <3> QED  BY <1>3, <2>1, <2>3, <3>1, <3>2, <3>3 DEF Typed
  <2> QED  BY <2>2, <2>3
<1>6. Queues'
  BY <1>1, <1>2, <1>3, <1>4, <1>5 DEF Queues
<1>7. buffer' \in [Buf -> Buffer]
  BY <1>2 DEF Typed
<1>8. slot' \in [Index -> Buf \cup {NoBuf}]
  <2>1. slot \in [Index -> Buf \cup {NoBuf}] /\ b \in Buf \cup {NoBuf}
    BY DEF Typed
  <2> QED  BY <1>2, <2>1, Zenon
<1>9. ts_index' \in [Ts -> Buf \cup {NoBuf}]
  BY <1>2 DEF Typed
<1> QED  BY <1>6, <1>7, <1>8, <1>9

-----------------------------------------------------------------------------
(* The actions that leave the CAPTURE queue alone. *)
LEMMA InvOutputs ==
    ASSUME Inv,
           \/ \E s \in OutputSize : OutputSFmt(s)
           \/ \E s \in Size : \/ CaptureSFmt(s)
                              \/ ProposedReconfigure(s)
                              \/ ReconfigureRefused(s)
           \/ OutputStreamon
           \/ OutputStreamoff
           \/ CaptureStreamon
           \/ CaptureStreamoff
           \/ InjectFailure
           \/ Refuse
    PROVE  Inv'
<1>1. /\ Running' => Running
      /\ UNCHANGED <<capture_slots, capture_generation, slot, refs>>
      /\ path' = path /\ verdict' \in {"running", "refused"}
      /\ current_era' \in Eras
  BY DEF Inv, Typed, Running, OutputSFmt, CaptureSFmt, ProposedReconfigure,
         ReconfigureRefused, OutputStreamon, OutputStreamoff, CaptureStreamon,
         CaptureStreamoff, InjectFailure, Refuse, capture, Eras
<1>2. Queues'
  BY <1>1, QueuesStill DEF Inv
<1>3. Typed'
  BY <1>1 DEF Inv, Typed, refs
<1>4. Context'
  <2>0. \A s \in Size \cup OutputSize : s # NoSize
    BY Vp9Assumption DEF NoSize
  <2>1. ASSUME NEW s \in OutputSize, OutputSFmt(s) PROVE Context'
    BY <2>1 DEF Inv, Context, OutputSFmt
  <2>2. ASSUME NEW s \in Size, CaptureSFmt(s) PROVE Context'
    BY <1>1, <2>2, ContextStill DEF Inv, CaptureSFmt
  <2>3. ASSUME NEW s \in Size, ProposedReconfigure(s) PROVE Context'
    BY <2>0, <2>3 DEF Inv, Context, ProposedReconfigure, CanReconfigure
  <2>4. ASSUME NEW s \in Size, ReconfigureRefused(s) PROVE Context'
    BY <2>4 DEF Inv, Context, ReconfigureRefused, Running
  <2>5. CASE OutputStreamon
    BY <2>5 DEF Inv, Context, OutputStreamon
  <2>6. CASE OutputStreamoff
    BY ZenonT(60), <2>6 DEF Inv, Context, OutputStreamoff
  <2>7. CASE CaptureStreamon \/ CaptureStreamoff \/ InjectFailure \/ Refuse
    BY <1>1, <2>7, ContextStill
       DEF Inv, CaptureStreamon, CaptureStreamoff, InjectFailure, Refuse
  <2> QED  BY <2>1, <2>2, <2>3, <2>4, <2>5, <2>6, <2>7
<1> QED  BY <1>2, <1>3, <1>4 DEF Inv

LEMMA InvReqbufs ==
    ASSUME Inv, NEW count \in 0..MaxSlots, CaptureReqbufs(count)
    PROVE  Inv'
<1>1. Context'
  BY ContextStill DEF Inv, CaptureReqbufs, Running
<1>2. \A i \in Index : slot'[i] = NoBuf
  BY DEF CaptureReqbufs
<1>3. CASE ReplaceQueue
  <2> DEFINE Old(b) == [buffer[b] EXCEPT
                           !.wrapper_alive = FALSE, !.queued_as_dst = FALSE,
                           !.index = None, !.generation = None]
  <2>1. /\ buffer' = [b \in Buf |-> Old(b)]
        /\ ts_index' = [t \in Ts |-> NoBuf]
        /\ registrations' = [b \in Buf |-> None]
    BY ZenonT(60), <1>3 DEF ReplaceQueue
  <2>6. capture_generation' \in 0..MaxGeneration
    <3>1. /\ capture_generation < MaxGeneration
          /\ capture_generation' = capture_generation + 1
      BY ZenonT(60), <1>3 DEF ReplaceQueue
    <3>2. capture_generation \in 0..MaxGeneration /\ MaxGeneration \in Nat
      BY Vp9Assumption DEF Inv, Typed
    <3> QED  BY SMTT(60), <3>1, <3>2
  <2>2. \A b \in Buf : /\ Old(b) \in Buffer
                       /\ Old(b).wrapper_alive = FALSE
                       /\ Old(b).queued_as_dst = FALSE
    <3> SUFFICES ASSUME NEW b \in Buf
                 PROVE  /\ Old(b) \in Buffer
                        /\ Old(b).wrapper_alive = FALSE
                        /\ Old(b).queued_as_dst = FALSE
      BY ZenonT(60)
    <3>1. buffer[b] \in Buffer
      BY DEF Inv, Typed
    <3> QED  BY ZenonT(60), <3>1 DEF Buffer
  <2> HIDE DEF Old
  <2>3. \A b \in Buf : /\ buffer'[b].wrapper_alive = FALSE
                       /\ buffer'[b].queued_as_dst = FALSE
                       /\ registrations'[b] = None
    BY <2>1, <2>2
  <2>4. Typed'
    BY <2>1, <2>2, <2>6 DEF Inv, Typed, CaptureReqbufs
  <2>5. Queues'
    BY <1>2, <2>3, Vp9Assumption DEF Queues, SlotsAgree, Indexed
  <2> QED  BY <1>1, <2>4, <2>5 DEF Inv
<1>4. CASE /\ count > 0 /\ capture_slots = 0
           /\ UNCHANGED <<capture_generation, destructive_done, refs>>
  <2>1. Typed'
    BY <1>4 DEF Inv, Typed, CaptureReqbufs, refs
  <2>2. \A i \in Index : slot[i] = NoBuf
    BY <1>4 DEF Inv, Queues, SlotsAgree, Typed, Index
  <2>3. capture_slots' # 0
    BY <1>4 DEF CaptureReqbufs
  <2>4. Queues'
    BY <1>2, <1>4, <2>2, <2>3
       DEF Inv, Queues, SlotsAgree, Indexed, CaptureReqbufs, refs, Running
  <2> QED  BY <1>1, <2>1, <2>4 DEF Inv
<1> QED  BY <1>3, <1>4 DEF CaptureReqbufs

(* What a queued destination is made of. *)
LEMMA QueuedTyped ==
    ASSUME Typed, NEW b \in Buf, NEW backing \in BackingChoice, FreeIndex # {}
    PROVE  LET i == Min(FreeIndex)
               q == Queued(b, backing, i)
           IN  /\ q \in Buffer
               /\ q.index = i /\ q.timestamp = IndexTs(i)
               /\ q.generation = capture_generation
               /\ q.wrapper_alive /\ q.queued_as_dst /\ q.known
<1> DEFINE i == Min(FreeIndex)
<1>1. i \in Index /\ IndexTs(i) \in Ts
  BY FreeSlot
<1> HIDE DEF i
<1>2. Made(b, backing) \in Buffer /\ Made(b, backing).known
  BY ZenonT(60), MadeTyped
<1>3. capture_generation \in 0..MaxGeneration
  BY DEF Typed
<1>4. /\ Queued(b, backing, i) \in Buffer
      /\ Queued(b, backing, i).index = i
      /\ Queued(b, backing, i).timestamp = IndexTs(i)
      /\ Queued(b, backing, i).generation = capture_generation
      /\ Queued(b, backing, i).wrapper_alive
      /\ Queued(b, backing, i).queued_as_dst
      /\ Queued(b, backing, i).known
  BY ZenonT(60), <1>1, <1>2, <1>3 DEF Queued, Buffer
<1> QED  BY <1>4 DEF i

LEMMA InvQueueDst ==
    ASSUME Inv, NEW b \in Buf, NEW backing \in BackingChoice, QueueDst(b, backing)
    PROVE  Inv'
<1>1. Context'
  BY ContextStill DEF Inv, QueueDst, Running
<1> DEFINE i == Min(FreeIndex)
           q == Queued(b, backing, i)
<1>2. /\ FreeIndex # {} /\ registrations[b] = None /\ ~buffer[b].queued_as_dst
      /\ Running /\ ~Aliased(b, i)
      /\ slot' = [slot EXCEPT ![i] = b]
      /\ buffer' = [buffer EXCEPT ![b] = q]
      /\ ts_index' = [ts_index EXCEPT ![IndexTs(i)] = b]
      /\ UNCHANGED <<capture_slots, capture_generation, registrations>>
  BY DEF QueueDst, CanQueue
<1>3. /\ q \in Buffer /\ q.index = i /\ q.timestamp = IndexTs(i)
      /\ q.generation = capture_generation
      /\ q.wrapper_alive /\ q.queued_as_dst /\ q.known
  BY <1>2, QueuedTyped DEF Inv
<1> HIDE DEF q
<1>4. /\ Queues'
      /\ buffer' \in [Buf -> Buffer]
      /\ slot' \in [Index -> Buf \cup {NoBuf}]
      /\ ts_index' \in [Ts -> Buf \cup {NoBuf}]
  BY ZenonT(60), <1>2, <1>3, Enqueue DEF Inv
<1>5. Typed'
  BY <1>4 DEF Inv, Typed, QueueDst
<1> QED  BY <1>1, <1>4, <1>5 DEF Inv

(* A buffer changes in nothing the queues are about. *)
LEMMA BufferStill ==
    ASSUME Typed, Queues, NEW b \in Buf, NEW rec \in Buffer,
           Running' => Running,
           buffer' = [buffer EXCEPT ![b] = rec],
           \/ /\ rec.index = buffer[b].index
              /\ rec.generation = buffer[b].generation
              /\ rec.timestamp = buffer[b].timestamp
              /\ rec.wrapper_alive = buffer[b].wrapper_alive
              /\ rec.queued_as_dst = buffer[b].queued_as_dst
              /\ rec.known = buffer[b].known
           \/ /\ ~rec.wrapper_alive /\ ~rec.queued_as_dst /\ ~Running'
              /\ ~buffer[b].queued_as_dst,
           UNCHANGED <<capture_slots, capture_generation, slot, ts_index, registrations>>
    PROVE  Queues' /\ buffer' \in [Buf -> Buffer]
<1>1. buffer'[b] = rec /\ \A c \in Buf \ {b} : buffer'[c] = buffer[c]
  BY DEF Typed
<1>2. SlotsAgree'
  BY <1>1 DEF Queues, SlotsAgree
<1>3. Running' => Indexed'
  BY <1>1 DEF Queues, Indexed
<1>4. capture_slots' = 0 => \A c \in Buf : ~buffer'[c].wrapper_alive
  BY <1>1 DEF Queues
<1>5. buffer' \in [Buf -> Buffer]
  BY DEF Typed
<1>6. \A c \in Buf : buffer'[c].queued_as_dst => buffer'[c].known
  BY <1>1 DEF Queues
<1> QED  BY <1>2, <1>3, <1>4, <1>5, <1>6 DEF Queues

LEMMA InvQueueRefused ==
    ASSUME Inv, NEW b \in Buf, NEW backing \in BackingChoice,
           QueueRefused(b, backing)
    PROVE  Inv'
<1>1. ~Running' /\ verdict' = "refused"
  BY DEF QueueRefused, Running
<1>2. Context'
  BY <1>1, ContextStill DEF Inv, QueueRefused
<1>3. UNCHANGED <<capture_slots, capture_generation, ts_index, registrations,
                  current_era, path>>
  BY DEF QueueRefused
<1>4. CASE ~CanQueue(b, backing)
  <2> DEFINE m == Made(b, backing)
  <2>1. buffer' = [buffer EXCEPT ![b] = m] /\ slot' = slot
    BY <1>4 DEF QueueRefused
  <2>2. /\ m \in Buffer
        /\ m # buffer[b] => ~buffer[b].known /\ m.wrapper_alive = FALSE /\ m.queued_as_dst = FALSE
    BY ZenonT(60), MadeTyped DEF Inv
  <2> HIDE DEF m
  <2>3. ~buffer[b].known => ~buffer[b].queued_as_dst
    BY DEF Inv, Queues
  <2>4. Queues' /\ buffer' \in [Buf -> Buffer]
    <3>1. CASE m = buffer[b]
      BY ZenonT(60), <1>1, <1>3, <2>1, <2>2, <3>1, BufferStill DEF Inv
    <3>2. CASE m # buffer[b]
      BY ZenonT(60), <1>1, <1>3, <2>1, <2>2, <2>3, <3>2, BufferStill DEF Inv
    <3> QED  BY <3>1, <3>2
  <2>5. Typed'
    BY <1>1, <1>3, <2>1, <2>4 DEF Inv, Typed
  <2> QED  BY <1>2, <2>4, <2>5 DEF Inv
<1>5. CASE CanQueue(b, backing)
  <2> DEFINE i == Min(FreeIndex)
             q == Queued(b, backing, i)
  <2>1. /\ FreeIndex # {} /\ registrations[b] = None /\ ~buffer[b].queued_as_dst
        /\ slot' = [slot EXCEPT ![i] = b]
        /\ buffer' = [buffer EXCEPT ![b] = q]
    BY <1>5 DEF QueueRefused, CanQueue
  <2>2. /\ q \in Buffer /\ q.index = i /\ q.timestamp = IndexTs(i)
        /\ q.generation = capture_generation
        /\ q.wrapper_alive /\ q.queued_as_dst /\ q.known
    BY <2>1, QueuedTyped DEF Inv
  <2> HIDE DEF q
  <2>3. /\ Queues'
        /\ buffer' \in [Buf -> Buffer]
        /\ slot' \in [Index -> Buf \cup {NoBuf}]
        /\ ts_index' \in [Ts -> Buf \cup {NoBuf}]
    BY ZenonT(60), <1>1, <1>3, <2>1, <2>2, Enqueue DEF Inv
  <2>4. Typed'
    BY <1>1, <1>3, <2>3 DEF Inv, Typed
  <2> QED  BY <1>2, <2>3, <2>4 DEF Inv
<1> QED  BY <1>4, <1>5

LEMMA InvDecode ==
    ASSUME Inv, NEW dst \in Buf, NEW s \in Size, NEW ref_names \in SUBSET Buf,
           NEW force_kernel \in BOOLEAN, NEW backing \in BackingChoice,
           Decode(dst, s, ref_names, force_kernel, backing)
    PROVE  Inv'
<1>1. /\ Running /\ output_streaming
      /\ UNCHANGED <<path, verdict, capture_slots, capture_generation, current_era,
                     registrations>>
      /\ current_era \in Eras
  BY DEF Decode, CanDecode, Inv, Typed
<1>2. Context'
  BY <1>1 DEF Inv, Context, Decode, Running
<1>3. CASE /\ buffer[dst].queued_as_dst
           /\ buffer' = [buffer EXCEPT ![dst].decoded_ok = TRUE,
                                       ![dst].era = current_era]
           /\ UNCHANGED <<slot, ts_index>>
  <2> DEFINE r == [buffer[dst] EXCEPT !.decoded_ok = TRUE, !.era = current_era]
  <2>1. buffer' = [buffer EXCEPT ![dst] = r]
    BY ZenonT(60), <1>3 DEF Inv, Typed
  <2>2. /\ r \in Buffer
        /\ r.index = buffer[dst].index
        /\ r.generation = buffer[dst].generation
        /\ r.timestamp = buffer[dst].timestamp
        /\ r.wrapper_alive = buffer[dst].wrapper_alive
        /\ r.queued_as_dst = buffer[dst].queued_as_dst
        /\ r.known = buffer[dst].known
    BY ZenonT(60), <1>1 DEF Inv, Typed, Buffer
  <2> HIDE DEF r
  <2>3. Queues' /\ buffer' \in [Buf -> Buffer]
    BY ZenonT(60), <1>1, <1>3, <2>1, <2>2, BufferStill DEF Inv
  <2>4. Typed'
    BY <1>1, <1>3, <2>3 DEF Inv, Typed
  <2> QED  BY <1>2, <2>3, <2>4 DEF Inv
<1>4. CASE /\ CanQueue(dst, backing)
           /\ LET i == Min(FreeIndex)
              IN  /\ ~Aliased(dst, i)
                  /\ slot' = [slot EXCEPT ![i] = dst]
                  /\ buffer' = [buffer EXCEPT ![dst] =
                                   [Queued(dst, backing, i) EXCEPT
                                       !.decoded_ok = TRUE,
                                       !.era = current_era]]
                  /\ ts_index' = [ts_index EXCEPT ![IndexTs(i)] = dst]
  <2> DEFINE i == Min(FreeIndex)
             q == Queued(dst, backing, i)
             r == [q EXCEPT !.decoded_ok = TRUE, !.era = current_era]
  <2>1. /\ FreeIndex # {} /\ registrations[dst] = None /\ ~buffer[dst].queued_as_dst
        /\ ~Aliased(dst, i)
        /\ slot' = [slot EXCEPT ![i] = dst]
        /\ buffer' = [buffer EXCEPT ![dst] = r]
        /\ ts_index' = [ts_index EXCEPT ![IndexTs(i)] = dst]
    BY <1>4 DEF CanQueue
  <2>2. /\ q \in Buffer /\ q.index = i /\ q.timestamp = IndexTs(i)
        /\ q.generation = capture_generation
        /\ q.wrapper_alive /\ q.queued_as_dst /\ q.known
    BY <2>1, QueuedTyped DEF Inv
  <2> HIDE DEF q, i
  <2>3. /\ r \in Buffer /\ r.index = i /\ r.timestamp = IndexTs(i)
        /\ r.generation = capture_generation
        /\ r.wrapper_alive /\ r.queued_as_dst /\ r.known
    BY ZenonT(60), <1>1, <2>2 DEF Buffer
  <2> HIDE DEF r
  <2> USE DEF i
  <2>4. /\ Queues'
        /\ buffer' \in [Buf -> Buffer]
        /\ slot' \in [Index -> Buf \cup {NoBuf}]
        /\ ts_index' \in [Ts -> Buf \cup {NoBuf}]
    BY ZenonT(60), <1>1, <2>1, <2>3, Enqueue DEF Inv
  <2>5. Typed'
    BY <1>1, <2>4 DEF Inv, Typed
  <2> QED  BY <1>2, <2>4, <2>5 DEF Inv
<1> QED  BY ZenonT(60), <1>3, <1>4 DEF Decode

LEMMA InvExport ==
    ASSUME Inv, NEW b \in Buf, NEW backing \in Backing \cup {buffer[b].backing},
           Export(b, backing)
    PROVE  Inv'
<1> DEFINE r == [buffer[b] EXCEPT !.exported = TRUE, !.backing = backing]
<1>1. /\ buffer' = [buffer EXCEPT ![b] = r]
      /\ UNCHANGED <<path, verdict, capture, current_era, output, ts_index, registrations>>
  BY ZenonT(60) DEF Export, Inv, Typed
<1>2. backing \in Backings
  BY DEF Backings, Inv, Typed, Buffer
<1>3. /\ r \in Buffer
      /\ r.index = buffer[b].index
      /\ r.generation = buffer[b].generation
      /\ r.timestamp = buffer[b].timestamp
      /\ r.wrapper_alive = buffer[b].wrapper_alive
      /\ r.queued_as_dst = buffer[b].queued_as_dst
      /\ r.known = buffer[b].known
  BY ZenonT(60), <1>2 DEF Inv, Typed, Buffer
<1> HIDE DEF r
<1>4. Queues' /\ buffer' \in [Buf -> Buffer]
  BY ZenonT(60), <1>1, <1>3, BufferStill DEF Inv, capture, Running
<1>5. Typed'
  BY <1>1, <1>4 DEF Inv, Typed, capture
<1>6. Context'
  BY <1>1, ContextStill DEF Inv, Running
<1> QED  BY <1>4, <1>5, <1>6 DEF Inv

LEMMA InvRegister ==
    ASSUME Inv, NEW b \in Buf, NEW ts \in 1..MaxTs, NEW index \in Index \cup {None},
           Register(b, ts, index)
    PROVE  Inv'
<1> DEFINE r == [buffer[b] EXCEPT !.timestamp = ts, !.queued_as_dst = FALSE]
<1>1. /\ Running /\ ~buffer[b].queued_as_dst /\ ts_index[ts] = NoBuf
      /\ ts_index' = [ts_index EXCEPT ![ts] = b]
      /\ buffer' = [buffer EXCEPT ![b] = r]
      /\ registrations' = [registrations EXCEPT ![b] = capture_generation]
      /\ UNCHANGED <<path, verdict, capture, current_era, output>>
  BY ZenonT(60) DEF Register, CanRegister, Inv, Typed
<1>2. ts \in Ts /\ ts # None
  <2> DEFINE m == MaxSlots * TS_SCALE
             M == Max({MaxTs, m})
  <2>1. MaxTs \in Nat /\ m \in Nat
    BY Vp9Assumption
  <2> HIDE DEF m
  <2>2. \E x \in {MaxTs, m} : \A y \in {MaxTs, m} : x >= y
    BY <2>1
  <2>3. M \in Nat /\ M >= MaxTs
    BY <2>1, <2>2 DEF Max
  <2> HIDE DEF M
  <2>4. ts \in 1..M /\ ts # None
    BY <2>1, <2>3 DEF None
  <2> QED  BY <2>4 DEF Ts, M, m
<1>3. /\ r \in Buffer /\ r.timestamp = ts
      /\ r.index = buffer[b].index
      /\ r.generation = buffer[b].generation
      /\ r.wrapper_alive = buffer[b].wrapper_alive
      /\ r.queued_as_dst = FALSE
      /\ r.known = buffer[b].known
  BY ZenonT(60), <1>2 DEF Inv, Typed, Buffer
<1> HIDE DEF r
<1>4. /\ buffer'[b] = r /\ \A c \in Buf \ {b} : buffer'[c] = buffer[c]
      /\ registrations'[b] = capture_generation
      /\ \A c \in Buf \ {b} : registrations'[c] = registrations[c]
      /\ ts_index'[ts] = b
      /\ \A t \in Ts \ {ts} : ts_index'[t] = ts_index[t]
      /\ capture_slots' = capture_slots /\ capture_generation' = capture_generation
      /\ slot' = slot
  BY <1>1, <1>2 DEF Inv, Typed, capture
<1>5. SlotsAgree'
  BY <1>1, <1>3, <1>4 DEF Inv, Queues, SlotsAgree
<1>6. Indexed'
  <2> SUFFICES ASSUME NEW c \in Buf,
                      \/ buffer'[c].wrapper_alive /\ buffer'[c].generation = capture_generation'
                      \/ registrations'[c] # None
               PROVE  buffer'[c].timestamp # None /\ ts_index'[buffer'[c].timestamp] = c
    BY DEF Indexed
  <2>1. CASE c = b
    BY <1>2, <1>3, <1>4, <2>1
  <2>2. CASE c # b
    <3>1. buffer[c].timestamp # None /\ ts_index[buffer[c].timestamp] = c
      BY <1>1, <1>4, <2>2 DEF Inv, Queues, Indexed
    <3>2. buffer[c].timestamp # ts
      BY SMTT(60), <1>1, <3>1, Vp9Assumption
    <3>3. buffer[c].timestamp \in Ts
      BY SMTT(60), <3>1 DEF Inv, Typed, Buffer
    <3> QED  BY SMTT(60), <1>4, <2>2, <3>1, <3>2, <3>3
  <2> QED  BY <2>1, <2>2
<1>7. Queues'
  BY ZenonT(60), <1>3, <1>4, <1>5, <1>6 DEF Inv, Queues
<1>8. Typed'
  <2>1. buffer' \in [Buf -> Buffer]
    BY <1>1, <1>3 DEF Inv, Typed
  <2>2. ts_index' \in [Ts -> Buf \cup {NoBuf}]
    BY <1>1, Zenon DEF Inv, Typed
  <2>3. registrations' \in [Buf -> 0..MaxGeneration \cup {None}]
    BY <1>1 DEF Inv, Typed
  <2> QED  BY <1>1, <2>1, <2>2, <2>3 DEF Inv, Typed, capture
<1>9. Context'
  BY <1>1, ContextStill DEF Inv, Running
<1> QED  BY <1>7, <1>8, <1>9 DEF Inv

-----------------------------------------------------------------------------
(* Every event keeps the invariant. *)
LEMMA InvNext ==
    Inv /\ [Next]_vars => Inv'
<1> SUFFICES ASSUME Inv, [Next]_vars PROVE Inv'
  OBVIOUS
<1>1. CASE Next
  BY <1>1, InvOutputs, InvReqbufs, InvQueueDst, InvQueueRefused, InvDecode,
     InvExport, InvRegister DEF Next
<1>2. CASE UNCHANGED vars
  <2>1. UNCHANGED <<path, verdict, capture, current_era, output, refs>>
    BY <1>2 DEF vars
  <2>2. Typed'
    BY <2>1 DEF Inv, Typed, capture, refs
  <2>3. Context' /\ Queues'
    BY <2>1, ContextStill, QueuesStill DEF Inv, Running, capture
  <2> QED  BY <2>2, <2>3 DEF Inv
<1> QED  BY <1>1, <1>2

LEMMA Invariance ==
    Spec => []Inv
BY InvInit, InvNext, PTL DEF Spec

(***************************************************************************)
(* Slots and buffers stay in step, and no registration outlives its        *)
(* generation, for any number of buffers, slots and generations            *)
(* (_alloc_index, op_register, op_capture_reqbufs).                        *)
(***************************************************************************)
THEOREM SlotsInStep ==
    Spec => []SlotsAgree
<1>1. Inv => SlotsAgree
  BY SMTT(60) DEF Inv, Queues
<1> QED  BY <1>1, Invariance, PTL

(***************************************************************************)
(* A reference that userspace accepts is the one the kernel finds by its   *)
(* timestamp (_resolve_stock_userspace, _resolve_proposed).                *)
(***************************************************************************)
THEOREM LookupsHit ==
    Spec => []LookupHits
<1>1. Inv => LookupHits
  <2> SUFFICES ASSUME Inv, Running, NEW r \in Buf, Resolve(r, FALSE)
               PROVE  ResolveStockKernel(r)
    BY ZenonT(60) DEF LookupHits
  <2>1. \/ InGeneration(r)
        \/ registrations[r] # None
    BY DEF Inv, Typed, Resolve, ResolveProposed, ResolveStockUserspace
  <2> QED  BY <2>1 DEF Inv, Queues, Indexed, InGeneration, ResolveStockKernel
<1> QED  BY <1>1, Invariance, PTL

(***************************************************************************)
(* Within a generation a timestamp goes on naming its buffer               *)
(* (op_queue_dst, op_register).                                            *)
(***************************************************************************)
THEOREM TimestampsStable ==
    Spec => TimestampStable
<1> DEFINE Stable == \A t \in Ts :
               ts_index[t] # NoBuf /\ capture_generation' = capture_generation
               => ts_index'[t] = ts_index[t]
<1>1. Inv /\ Next => Stable
  <2> SUFFICES ASSUME Inv, Next PROVE Stable
    OBVIOUS
  <2>1. ASSUME NEW b \in Buf, NEW i, ~Aliased(b, i),
               ts_index' = [ts_index EXCEPT ![IndexTs(i)] = b]
        PROVE  Stable
    BY <2>1 DEF Aliased, Inv, Typed
  <2>2. CASE ts_index' = ts_index
    BY <2>2
  <2>3. ASSUME NEW b \in Buf, NEW backing, QueueDst(b, backing) PROVE Stable
    BY ZenonT(60), <2>1, <2>3 DEF QueueDst
  <2>4. ASSUME NEW dst \in Buf, NEW s, NEW ref_names, NEW force_kernel, NEW backing,
               Decode(dst, s, ref_names, force_kernel, backing)
        PROVE  Stable
    BY <2>1, <2>2, <2>4 DEF Decode
  <2>5. ASSUME NEW b \in Buf, NEW ts, NEW index, Register(b, ts, index) PROVE Stable
    BY <2>5 DEF Register, Inv, Typed
  <2>6. ASSUME NEW count, CaptureReqbufs(count) PROVE Stable
    <3>1. \/ capture_generation' = capture_generation + 1
          \/ ts_index' = ts_index
      BY ZenonT(60), <2>6 DEF CaptureReqbufs, ReplaceQueue, refs
    <3>2. capture_generation \in Nat
      BY Vp9Assumption DEF Inv, Typed
    <3>3. CASE capture_generation' = capture_generation + 1
      <4>1. capture_generation' # capture_generation
        BY <3>2, <3>3
      <4> QED  BY <4>1
    <3> QED  BY <2>2, <3>1, <3>3
  <2> HIDE DEF Stable
  <2>7. \/ ts_index' = ts_index
        \/ \E b \in Buf, backing \in BackingChoice : QueueDst(b, backing)
        \/ \E dst \in Buf, s \in Size, ref_names \in SUBSET Buf,
              force_kernel \in BOOLEAN, backing \in BackingChoice :
              Decode(dst, s, ref_names, force_kernel, backing)
        \/ \E b \in Buf, ts \in 1..MaxTs, index \in Index \cup {None} :
              Register(b, ts, index)
        \/ \E count \in 0..MaxSlots : CaptureReqbufs(count)
    BY ZenonT(60) DEF Next, OutputSFmt, CaptureSFmt, ProposedReconfigure, ReconfigureRefused,
           OutputStreamon, OutputStreamoff, CaptureStreamon, CaptureStreamoff,
           InjectFailure, Refuse, QueueRefused, Export, refs
  <2> QED  BY <2>2, <2>3, <2>4, <2>5, <2>6, <2>7
<1>2. Inv /\ [Next]_vars => [Stable]_vars
  BY <1>1
<1> QED  BY <1>2, Invariance, PTL DEF Spec, TimestampStable

(***************************************************************************)
(* The snapshot says truly what of the codec context is lost               *)
(* (op_output_streamoff, op_capture_reqbufs, op_proposed_reconfigure).     *)
(***************************************************************************)
THEOREM ContextsWhole ==
    Spec => []ContextWhole
<1>1. ASSUME Inv PROVE ContextWhole
  <2>1. /\ "frame_context" \in lost <=> ~probabilities
        /\ "last_frame_info" \in lost <=> ~last_present
        /\ "scratch" \in lost <=> scratch = NoSize
        /\ "seg_map" \in lost <=> seg_policy \in {"lost", "absent"}
        /\ "wrapper_metadata" \in lost <=> /\ \E b \in Buf : buffer[b].known
                                           /\ ~\E b \in Buf : buffer[b].wrapper_alive
    BY DEF lost
  <2> DEFINE context == {"frame_context", "last_frame_info", "scratch", "seg_map"}
  <2>2. CASE output_streaming
    <3>1. context \cap lost = {}
      BY <1>1, <2>1, <2>2 DEF Inv, Context
    <3>2. Running => scratch = coded
      BY <1>1, <2>2 DEF Inv, Context
    <3> QED  BY <1>1, <2>1, <2>2, <3>1, <3>2 DEF Inv, Queues, ContextWhole
  <2>3. CASE ~output_streaming
    <3>1. context \cap lost = context /\ "scratch" \in lost
      BY <1>1, <2>1, <2>3 DEF Inv, Context
    <3> QED  BY <1>1, <2>1, <2>3, <3>1 DEF Inv, Queues, ContextWhole
  <2> QED  BY <1>1, <2>2, <2>3 DEF Inv, Context
<1> QED  BY <1>1, Invariance, PTL
==============================================================================
