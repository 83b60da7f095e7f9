---------------------------- MODULE ControlTrace ----------------------------
(***************************************************************************)
(* The adapters that turn a v4l2-tracer recording of one HEVC decoding     *)
(* context into request records: normalize() of hevc-controls (the "base"  *)
(* form) and of hevc-full-controls, which first replaces the raw           *)
(* timestamps by tokens and then runs the same lifecycle checks ("full").  *)
(*                                                                         *)
(* The adapter reads an event when it happens: what it does with an event  *)
(* depends on the earlier events only.  Beside it runs what is recorded, a *)
(* client of the stateless decoder and the driver, so that the records can *)
(* be held against what the decoder really did.  The client submits one    *)
(* picture after the other, as both recorded clients do; it may reuse      *)
(* timestamps, buffers and request descriptors as early as the kernel lets *)
(* it, and the recording may end anywhere.                                 *)
(***************************************************************************)
EXTENDS Naturals, Sequences, FiniteSets, SequencesExt, FiniteSetsExt

CONSTANTS
    Expected,   \* the pictures of the stream
    MaxRefs,    \* bound: references of a picture
    ReqFds,     \* media request descriptors
    OutBufs,    \* OUTPUT buffers
    CapBufs,    \* CAPTURE buffers, by index
    Stamps,     \* raw timestamps
    Streams     \* [poc, show]: the order counts of the pictures in decode order,
                \* and the pictures in output order

ASSUME ControlTraceAssumption ==
    /\ Expected \in Nat \ {0} /\ MaxRefs \in Nat
    /\ CapBufs \subseteq Nat
    /\ \A s \in Streams : DOMAIN s.poc = 1..Expected /\ DOMAIN s.show = 1..Expected

VARIABLES
    form,     \* "base" or "full"
    stream,   \* the stream that is decoded
    known,    \* the request descriptors handed out so far
    cur,      \* the picture the client is submitting
    jobs,     \* the queued pictures
    dec,      \* how many of them are decoded
    dq,       \* how many OUTPUT and CAPTURE buffers are dequeued
    capq,     \* CAPTURE buffers waiting for a job
    held,     \* per CAPTURE buffer: its copied timestamp and its writer
    life,     \* the lifecycle checks
    tok,      \* the token pass
    verdict   \* "reading", "rejected" or "accepted"

client == <<known, cur>>
driver == <<jobs, dec, dq, capq, held>>
vars == <<form, stream, client, driver, life, verdict, tok>>

Pic == 1..Expected
NoCap == Max(CapBufs) + 1
NoOut == "none"
None == "none"

(* What the client has said of the picture it submits. *)
Fresh == [fd |-> None, ctl |-> {}, refs |-> {}, out |-> NoOut, ts |-> 0]

-----------------------------------------------------------------------------
(***************************************************************************)
(* The lifecycle checks.  A request is absent, or [ctl, refs, ts, pic]     *)
(* with ts = 0 before its OUTPUT buffer and pic = 0 before it is queued,   *)
(* when the picture takes over its references; a picture is complete when  *)
(* its target is known.                                                    *)
(***************************************************************************)
Absent == [ctl |-> {"absent"}, refs |-> {}, ts |-> 0, pic |-> 0]
NewReq == [ctl |-> {}, refs |-> {}, ts |-> 0, pic |-> 0]

LifeInit ==
    [allocs |-> {}, reqs |-> [r \in ReqFds |-> Absent],
     outs |-> [b \in OutBufs |-> 0], caps |-> {}, pics |-> <<>>,
     sps |-> FALSE, closed |-> FALSE, stopped |-> FALSE, ok |-> TRUE]

Refuse(s) ==
    [s EXCEPT !.ok = FALSE]

Complete(l, q) ==
    q.pic # 0 /\ l.pics[q.pic].target # NoCap

AllComplete(l) ==
    /\ Len(l.pics) = Expected
    /\ \A i \in DOMAIN l.pics : l.pics[i].target # NoCap

(* by_timestamp: the queued picture of a timestamp. *)
Stamped(l, ts) ==
    {i \in DOMAIN l.pics : l.pics[i].ts = ts}

(* requests.setdefault *)
SetDefault(l, r) ==
    IF l.reqs[r] = Absent THEN NewReq ELSE l.reqs[r]

LifeAlloc(l, r) ==
    IF l.reqs[r] # Absent /\ ~Complete(l, l.reqs[r]) THEN Refuse(l)
    ELSE [l EXCEPT !.allocs = @ \cup {r}, !.reqs[r] = Absent]

LifeReinit(l, r) ==
    CASE l.reqs[r] = Absent -> IF r \in l.allocs THEN l ELSE Refuse(l)
      [] OTHER -> IF Complete(l, l.reqs[r])
                  THEN [l EXCEPT !.reqs[r] = Absent] ELSE Refuse(l)

LifeQueue(l, r) ==
    LET q == l.reqs[r]
        sps == l.sps \/ "SPS" \in q.ctl
    IN  IF /\ q # Absent /\ q.pic = 0
           /\ ~l.closed /\ ~l.stopped
           /\ "REST" \in q.ctl /\ sps
           /\ q.ts # 0 /\ Stamped(l, q.ts) = {}
           /\ Len(l.pics) < Expected
        THEN [l EXCEPT !.sps = sps,
                       !.reqs[r] = [NewReq EXCEPT !.ts = q.ts,
                                                  !.pic = Len(l.pics) + 1],
                       !.pics = Append(@, [ts |-> q.ts, refs |-> q.refs,
                                           target |-> NoCap])]
        ELSE Refuse(l)

LifeStreamOff(l, type) ==
    IF ~l.closed /\ AllComplete(l)
    THEN [l EXCEPT !.stopped = TRUE,
                   !.outs = IF form = "full" /\ type = "OUT"
                            THEN [b \in OutBufs |-> 0] ELSE @]
    ELSE Refuse(l)

(* STREAMON, S_FMT and REQBUFS *)
LifeReconfigure(l, op) ==
    IF ~l.closed /\ (l.pics = <<>> \/ (l.stopped /\ op = "REQBUFS"))
    THEN l ELSE Refuse(l)

LifeControls(l, r, ctl, refs) ==
    LET q == SetDefault(l, r)
    IN  IF /\ ~l.closed /\ ~l.stopped /\ r \in l.allocs
           /\ q.pic = 0 /\ q.ctl \cap ctl = {}
        THEN [l EXCEPT !.reqs[r] = [q EXCEPT !.ctl = @ \cup ctl,
                                             !.refs = @ \cup refs]]
        ELSE Refuse(l)

(* buffer_flags *)
BufferFlags(flags) ==
    flags \cap {"ERROR", "HOLD"} = {}

LifeQbufCap(l, b) ==
    IF ~l.closed /\ ~l.stopped /\ b \notin l.caps
    THEN [l EXCEPT !.caps = @ \cup {b}] ELSE Refuse(l)

LifeQbufOut(l, r, b, ts) ==
    LET q == SetDefault(l, r)
    IN  IF /\ ~l.closed /\ ~l.stopped /\ r \in l.allocs
           /\ q.ts = 0 /\ l.outs[b] = 0
        THEN [l EXCEPT !.reqs[r] = [q EXCEPT !.ts = ts], !.outs[b] = ts]
        ELSE Refuse(l)

LifeDqbufOut(l, b, ts) ==
    IF ~l.closed /\ Stamped(l, ts) # {} /\ l.outs[b] = ts
    THEN [l EXCEPT !.outs[b] = 0] ELSE Refuse(l)

LifeDqbufCap(l, b, ts, flags) ==
    IF /\ ~l.closed /\ BufferFlags(flags) /\ "COPY" \in flags
       /\ b \in l.caps
       /\ \E i \in Stamped(l, ts) : l.pics[i].target = NoCap
    THEN [l EXCEPT !.caps = @ \ {b},
                   !.pics[Max(Stamped(l, ts))].target = b]
    ELSE Refuse(l)

LifeClose(l) ==
    IF l.closed THEN Refuse(l) ELSE [l EXCEPT !.closed = TRUE]

LifeEnds(l) ==
    /\ l.closed /\ l.stopped
    /\ AllComplete(l)
    /\ \A b \in OutBufs : l.outs[b] = 0
    /\ \A r \in ReqFds : l.reqs[r] # Absent => l.reqs[r].pic # 0

(* last_writer before picture i *)
LastWriter(l, i, b) ==
    LET w == {j \in 1..(i - 1) : l.pics[j].target = b}
    IN  IF w = {} THEN 0 ELSE Max(w)

ReferencesHoldLoose(l) ==
    \A i \in DOMAIN l.pics : \A ref \in l.pics[i].refs :
        \E j \in Stamped(l, ref.ts) :
            /\ j < i
            /\ l.pics[j].target # l.pics[i].target
            /\ stream.poc[j] = ref.poc

(* The active references of every picture. *)
ReferencesHold(l) ==
    \A i \in DOMAIN l.pics : \A ref \in l.pics[i].refs :
        \E j \in Stamped(l, ref.ts) :
            LET target == l.pics[j].target
            IN  /\ j < i
                /\ LastWriter(l, i, target) = j
                /\ target # l.pics[i].target
                /\ stream.poc[j] = ref.poc

-----------------------------------------------------------------------------
(***************************************************************************)
(* The token pass: raw timestamps may be used again, so each OUTPUT buffer *)
(* queued gets a token, and a timestamp in a DPB becomes the token of the  *)
(* only picture it can stand for when the controls are set.                *)
(***************************************************************************)
NoPend == [tok |-> 0, out |-> FALSE, cap |-> FALSE]

TokInit ==
    [pend |-> [s \in Stamps |-> NoPend], outs |-> [b \in OutBufs |-> 0],
     writers |-> [b \in CapBufs |-> [ts |-> 0, tok |-> 0]],
     orig |-> [r \in ReqFds |-> {}], seq |-> 0, queued |-> 0, ok |-> TRUE]

(* The pictures that may be meant by a timestamp: the writers observed per *)
(* buffer, and those not yet dequeued.                                     *)
Matches(t, ts) ==
    {t.writers[b].tok : b \in {c \in CapBufs : t.writers[c].ts = ts}}
        \cup ({t.pend[ts].tok} \ {0})

Tokens(t, refs) ==
    {[ts |-> Max(Matches(t, ref.ts)), poc |-> ref.poc] : ref \in refs}

TokControls(t, r, ctl, refs) ==
    IF /\ t.orig[r] \cap ctl = {}
       /\ \A ref \in refs : Cardinality(Matches(t, ref.ts)) = 1
    THEN [t EXCEPT !.orig[r] = @ \cup ctl] ELSE Refuse(t)

TokQbufOut(t, b, ts) ==
    IF t.pend[ts].tok = 0 /\ t.outs[b] = 0
    THEN [t EXCEPT !.seq = @ + 1,
                   !.pend[ts] = [NoPend EXCEPT !.tok = t.seq + 1],
                   !.outs[b] = t.seq + 1]
    ELSE Refuse(t)

(* A picture leaves pending when both of its buffers are dequeued. *)
Settle(t, ts) ==
    IF t.pend[ts].out /\ t.pend[ts].cap THEN [t EXCEPT !.pend[ts] = NoPend]
    ELSE t

TokDqbufOut(t, b, ts) ==
    IF t.pend[ts].tok # 0 /\ ~t.pend[ts].out /\ t.outs[b] = t.pend[ts].tok
    THEN Settle([t EXCEPT !.pend[ts].out = TRUE, !.outs[b] = 0], ts)
    ELSE Refuse(t)

TokDqbufCap(t, b, ts) ==
    IF t.pend[ts].tok # 0 /\ ~t.pend[ts].cap
    THEN Settle([t EXCEPT !.pend[ts].cap = TRUE,
                     !.writers[b] = [ts |-> ts, tok |-> t.pend[ts].tok]], ts)
    ELSE Refuse(t)

TokStreamOff(t, type) ==
    IF /\ t.queued = Expected
       /\ \A s \in Stamps : t.pend[s].tok # 0 => t.pend[s].cap
    THEN IF type = "OUT"
         THEN [t EXCEPT !.pend = TokInit.pend, !.outs = TokInit.outs] ELSE t
    ELSE Refuse(t)

(* The first request brings its SPS, the others may inherit it. *)
TokQueue(t, r) ==
    IF "REST" \in t.orig[r] /\ ("SPS" \in t.orig[r] \/ t.queued > 0)
    THEN [t EXCEPT !.orig[r] = {}, !.queued = @ + 1] ELSE Refuse(t)

TokEnds(t) ==
    /\ t.seq = Expected /\ t.queued = Expected
    /\ \A s \in Stamps : t.pend[s].tok = 0
    /\ \A b \in OutBufs : t.outs[b] = 0
    /\ \A r \in ReqFds : t.orig[r] = {}

(* The pictures are queued in the order their OUTPUT buffers were, and the *)
(* writers named by the tokens wrote the targets the lifecycle names.      *)
TokAgrees(l) ==
    \A i \in DOMAIN l.pics :
        /\ l.pics[i].ts = i
        /\ \A ref \in l.pics[i].refs : ref.ts \in 1..(i - 1)

-----------------------------------------------------------------------------
(***************************************************************************)
(* Reading an event: both passes see it, and the first refusal is final    *)
(* and leaves nothing behind.                                              *)
(***************************************************************************)
Read(l, t) ==
    LET ok == l.ok /\ t.ok
    IN  /\ verdict = "reading"
        /\ life' = IF ok THEN l ELSE LifeInit
        /\ tok' = IF ok THEN t ELSE TokInit
        /\ verdict' = IF ok THEN "reading" ELSE "rejected"
        /\ UNCHANGED <<form, stream>>

(* The timestamp the lifecycle checks see. *)
Seen(t, ts) ==
    IF form = "full" THEN t.pend[ts].tok ELSE ts

Full(t) ==
    IF form = "full" THEN t ELSE tok

(***************************************************************************)
(* A picture begins with a request: a new one, whose descriptor may be one *)
(* the client has closed while its request was queued, or one used before, *)
(* which the kernel reinitialises only when it is not in the queue.        *)
(***************************************************************************)
Alloc(r) ==
    /\ cur.fd = None /\ Len(jobs) < Expected
    /\ cur' = [cur EXCEPT !.fd = r]
    /\ known' = known \cup {r}
    /\ Read(LifeAlloc(life, r), tok)
    /\ UNCHANGED driver

Reinit(r) ==
    /\ cur.fd = None /\ Len(jobs) < Expected /\ r \in known
    /\ \A i \in (dec + 1)..Len(jobs) : jobs[i].fd # r
    /\ cur' = [cur EXCEPT !.fd = r]
    /\ Read(LifeReinit(life, r), tok)
    /\ UNCHANGED <<known, driver>>

(* The references of a request: the client takes the timestamp and the     *)
(* order count from its own picture.                                       *)
RefSets ==
    UNION {kSubset(k, 1..Len(jobs)) : k \in 0..MaxRefs}

SetControls(r, ctl, refs) ==
    LET named == {[ts |-> jobs[j].ts, poc |-> stream.poc[j]] : j \in refs}
        t == Full(TokControls(tok, r, ctl, named))
        seen == IF form = "full" /\ t.ok THEN Tokens(tok, named) ELSE named
    IN  /\ cur.fd = r /\ cur.out = NoOut
        /\ ctl # {"SPS"} \/ refs = {}
        /\ cur.ctl \cap ctl = {}
        /\ cur' = [cur EXCEPT !.ctl = @ \cup ctl, !.refs = @ \cup refs]
        /\ Read(LifeControls(life, r, ctl, seen), t)
        /\ UNCHANGED <<known, driver>>

(* The driver holds the OUTPUT buffers of jobs not yet dequeued. *)
QbufOut(r, b, ts) ==
    LET t == Full(TokQbufOut(tok, b, ts))
    IN  /\ cur.fd = r /\ cur.out = NoOut
        /\ \A i \in (dq.out + 1)..Len(jobs) : jobs[i].out # b
        /\ cur' = [cur EXCEPT !.out = b, !.ts = ts]
        /\ Read(IF t.ok THEN LifeQbufOut(life, r, b, Seen(t, ts)) ELSE life, t)
        /\ UNCHANGED <<known, driver>>

QbufCap(b) ==
    /\ b \notin Range(capq)
    /\ \A i \in (dq.cap + 1)..dec : jobs[i].cap # b
    /\ capq' = Append(capq, b)
    /\ Read(LifeQbufCap(life, b), tok)
    /\ UNCHANGED <<client, jobs, dec, dq, held>>

QueueRequest(r) ==
    /\ cur.fd = r /\ cur.out # NoOut      \* the kernel wants a buffer
    /\ jobs' = Append(jobs, [fd |-> r, out |-> cur.out, ts |-> cur.ts,
                             refs |-> cur.refs, cap |-> NoCap, used |-> {}])
    /\ cur' = Fresh
    /\ Read(LifeQueue(life, r), Full(TokQueue(tok, r)))
    /\ UNCHANGED <<known, dec, dq, capq, held>>

(***************************************************************************)
(* kernel_lookup() of hevc-avd-map: the first buffer by index whose copied *)
(* timestamp matches; the destination, which has just got the timestamp of *)
(* its own picture, when there is none.                                    *)
(***************************************************************************)
KernelLookup(bufs, ts, destination) ==
    LET found == {b \in CapBufs : bufs[b].ts = ts}
    IN  IF found = {} THEN destination ELSE Min(found)

Decode ==
    /\ verdict = "reading"
    /\ dec < Len(jobs) /\ capq # <<>>
    /\ LET i == dec + 1
           dst == Head(capq)
           now == [held EXCEPT ![dst] = [ts |-> jobs[i].ts, pic |-> i]]
       IN  /\ held' = now
           /\ jobs' = [jobs EXCEPT ![i].cap = dst,
                  ![i].used = {<<j, now[KernelLookup(now, jobs[j].ts, dst)].pic>> :
                                  j \in jobs[i].refs}]
           /\ dec' = i
           /\ capq' = Tail(capq)
    /\ UNCHANGED <<form, stream, client, dq, life, verdict, tok>>

DqbufOut ==
    LET i == dq.out + 1
        b == jobs[i].out
        ts == jobs[i].ts
    IN  /\ i <= dec
        /\ dq' = [dq EXCEPT !.out = i]
        /\ Read(LifeDqbufOut(life, b, Seen(tok, ts)),
                Full(TokDqbufOut(tok, b, ts)))
        /\ UNCHANGED <<client, jobs, dec, capq, held>>

DqbufCap(flags) ==
    LET i == dq.cap + 1
        b == jobs[i].cap
        ts == jobs[i].ts
    IN  /\ i <= dec
        /\ dq' = [dq EXCEPT !.cap = i]
        /\ Read(LifeDqbufCap(life, b, Seen(tok, ts), flags),
                Full(TokDqbufCap(tok, b, ts)))
        /\ UNCHANGED <<client, jobs, dec, capq, held>>

(* Stopping OUTPUT returns its buffers to the client. *)
StreamOff(type) ==
    /\ cur = Fresh
    /\ dq' = IF type = "OUT" THEN [dq EXCEPT !.out = Len(jobs)] ELSE dq
    /\ Read(LifeStreamOff(life, type), Full(TokStreamOff(tok, type)))
    /\ UNCHANGED <<client, jobs, dec, capq, held>>

Reconfigure(op) ==
    /\ Read(LifeReconfigure(life, op), tok)
    /\ UNCHANGED <<client, driver>>

CloseVideo ==
    /\ Read(LifeClose(life), tok)
    /\ UNCHANGED <<client, driver>>

(* An ioctl that fails, a control of an unsupported extent, a second HEVC  *)
(* context or a second open of the device.                                 *)
Unsupported ==
    /\ Read(Refuse(life), tok)
    /\ UNCHANGED <<client, driver>>

(* The end of the recording. *)
Finish ==
    /\ verdict = "reading"
    /\ verdict' = IF /\ LifeEnds(life) /\ ReferencesHold(life)
                     /\ form = "full" => TokEnds(tok) /\ TokAgrees(life)
                  THEN "accepted" ELSE "rejected"
    /\ UNCHANGED <<form, stream, client, driver, life, tok>>

Init ==
    /\ form \in {"base", "full"}
    /\ stream \in Streams
    /\ known = {}
    /\ cur = Fresh
    /\ jobs = <<>>
    /\ dec = 0
    /\ dq = [out |-> 0, cap |-> 0]
    /\ capq = <<>>
    /\ held = [b \in CapBufs |-> [ts |-> 0, pic |-> 0]]
    /\ life = LifeInit
    /\ tok = TokInit
    /\ verdict = "reading"

Next ==
    \/ \E r \in ReqFds : Alloc(r) \/ QueueRequest(r) \/ Reinit(r)
    \/ \E r \in ReqFds, ctl \in {{"SPS"}, {"REST"}, {"SPS", "REST"}},
          refs \in RefSets : SetControls(r, ctl, refs)
    \/ \E r \in ReqFds, b \in OutBufs, ts \in Stamps : QbufOut(r, b, ts)
    \/ \E b \in CapBufs : QbufCap(b)
    \/ Decode
    \/ DqbufOut
    \/ \E flags \in {{"COPY"}, {}, {"COPY", "ERROR"}} : DqbufCap(flags)
    \/ \E type \in {"OUT", "CAP"} : StreamOff(type)
    \/ \E op \in {"STREAMON", "REQBUFS"} : Reconfigure(op)
    \/ CloseVideo
    \/ Unsupported
    \/ Finish

Spec == Init /\ [][Next]_vars

-----------------------------------------------------------------------------
(***************************************************************************)
(* An accepted recording tells the truth about references, whatever was    *)
(* reused in between: the writer the adapter names for every entry of      *)
(* every DPB is the picture that was in the buffer the decoder looked up.  *)
(* This needs that no picture takes the timestamp of one it refers to: the *)
(* destination gets it before the look-up, and the adapter resolves an     *)
(* entry before the OUTPUT buffer is queued.                               *)
(***************************************************************************)
WritersAreTrue ==
    /\ verdict = "accepted"
    /\ \A i \in Pic : \A j \in jobs[i].refs : jobs[j].ts # jobs[i].ts
    => \A i \in Pic :
        /\ life.pics[i].target = jobs[i].cap
        /\ {u[2] : u \in jobs[i].used} =
               UNION {Stamped(life, ref.ts) : ref \in life.pics[i].refs}
=============================================================================
