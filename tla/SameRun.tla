------------------------------- MODULE SameRun ------------------------------
(***************************************************************************)
(* A same-run join on top of a recording: once the adapter has accepted    *)
(* the trace, supervisor.run validates the kernel evidence, associates the *)
(* client's outputs with pictures and joins them with the observer report. *)
(*                                                                         *)
(* The artefacts are what the client and the driver of ControlTrace did.   *)
(* One of them may be damaged the way artefacts are: cut short, rows lost, *)
(* repeated or reordered, from another context or run, sealed too early.   *)
(***************************************************************************)
EXTENDS ControlTrace

CONSTANTS
    Window,       \* the pictures the reference recorder keeps in detail
    Selections    \* sequences of output positions a client is asked to observe

VARIABLE joined   \* the outcome: none yet, refused, or the published join

INSTANCE Evidence

allVars == <<vars, joined>>

NotYet == [ok |-> FALSE, selected |-> <<>>, client |-> "none",
           collected |-> FALSE]

(* What the adapter hands on: the requests and the raw frame numbers. *)
Requests ==
    [i \in Pic |->
        [poc |-> stream.poc[i], target |-> life.pics[i].target,
         dpb |-> {[buf |-> life.pics[ref.ts].target, poc |-> ref.poc] :
                     ref \in life.pics[i].refs}]]

Frames ==
    [i \in Pic |-> jobs[i].ts]

(***************************************************************************)
(* The snapshots the kernel recorders made of the same jobs.  A CAPTURE    *)
(* buffer keeps its allocation while pictures are decoded.                 *)
(***************************************************************************)
Allocation(b) == b + 10

Destination(i) ==
    LET before == {j \in 1..(i - 1) : jobs[j].cap = jobs[i].cap}
    IN  [kind |-> "start", pic |-> i, poc |-> stream.poc[i], intra |-> jobs[i].refs = {},
         buf |-> jobs[i].cap, alloc |-> Allocation(jobs[i].cap), ts |-> jobs[i].ts,
         writer |-> i, prev |-> IF before = {} THEN 0 ELSE Max(before),
         done |-> FALSE, want |-> jobs[i].ts]

(* A looked-up reference: j was meant and w was found. *)
Found(i, j, w) ==
    [Destination(w) EXCEPT !.kind = "table", !.pic = i, !.poc = stream.poc[j],
                           !.prev = 0, !.done = w < i, !.want = jobs[j].ts]

Recorded(i) ==
    LET used == SetToSortSeq(jobs[i].used, LAMBDA u, v : u[1] < v[1])
        table == [k \in DOMAIN used |-> Found(i, used[k][1], used[k][2])]
        As(kind) == [k \in DOMAIN table |-> [table[k] EXCEPT !.kind = kind]]
        motion == [(IF table = <<>> THEN Destination(i) ELSE table[1])
                      EXCEPT !.kind = "motion"]
    IN  <<Destination(i)>>
            \o (IF i \in Window THEN table \o As("list") \o <<motion>> ELSE <<>>)
            \o <<[Destination(i) EXCEPT !.kind = "done", !.done = TRUE]>>

Snapshot ==
    [run |-> 1, ctx |-> 1, sealed |-> TRUE, rows |-> FlattenSeq([i \in Pic |-> Recorded(i)])]

Commands ==
    [run |-> 1, ctx |-> 1, sealed |-> TRUE,
     hist |-> [i \in Pic |-> [pic |-> i, poc |-> stream.poc[i], buf |-> jobs[i].cap,
                              intra |-> jobs[i].refs = {}]]]

(***************************************************************************)
(* The client's artefacts.  A client counts its own writers, requests and  *)
(* allocations; the observer copies an output while its writer is current. *)
(***************************************************************************)
QueueRow(i) ==
    [ctx |-> 5, alloc |-> jobs[i].cap, writer |-> i, capture |-> jobs[i].cap,
     pic |-> i, poc |-> stream.poc[i], dpb |-> Requests[i].dpb,
     frame |-> jobs[i].ts, request |-> i]

Coordinate(client_, at) ==
    IF client_ = "va" THEN at ELSE jobs[stream.show[at]].ts

ReportRow(client_, at, i) ==
    [at |-> Coordinate(client_, at), ctx |-> 5, alloc |-> jobs[i].cap, writer |-> i,
     capture |-> jobs[i].cap, request |-> i, submitted |-> Expected,
     completed |-> Expected, copied |-> TRUE]

(* What the output log says of a picture. *)
OutputName(client_, i) ==
    IF client_ = "va" THEN stream.poc[i] ELSE jobs[i].ts

Artefacts(client_, selection) ==
    [file |-> [before |-> 1, after |-> 1, private |-> TRUE, links |-> 1],
     ref |-> Snapshot, cmd |-> Commands,
     exec |-> [run |-> 1, exit |-> 0, ref |-> Snapshot, cmd |-> Commands],
     queue |-> [i \in Pic |-> QueueRow(i)],
     log |-> [k \in Pic |-> OutputName(client_, stream.show[k])],
     report |-> [k \in DOMAIN selection |->
                    ReportRow(client_, selection[k], stream.show[selection[k]])]]

(* A sequence with a row lost, repeated, or two neighbours exchanged. *)
Disturbed(seq) ==
    {RemoveAt(seq, k) : k \in DOMAIN seq}
        \cup {InsertAt(seq, k, seq[k]) : k \in DOMAIN seq}
        \cup {[seq EXCEPT ![k] = seq[k + 1], ![k + 1] = seq[k]] : k \in 1..(Len(seq) - 1)}

Foreign(seq) ==
    {[seq EXCEPT ![k].ctx = 6] : k \in DOMAIN seq}
        \cup {[k \in DOMAIN seq |-> [seq[k] EXCEPT !.ctx = 6]]}

DamagedSnapshot(s) ==
    {[s EXCEPT !.run = 2], [s EXCEPT !.ctx = 2], [s EXCEPT !.sealed = FALSE]}

Damaged(a, client_, selection) ==
    {[a EXCEPT !.ref = s] : s \in DamagedSnapshot(a.ref)}
        \cup {[a EXCEPT !.ref = s, !.exec.ref = s] : s \in DamagedSnapshot(a.ref)}
        \cup {[a EXCEPT !.ref.rows = r, !.exec.ref.rows = r] : r \in Disturbed(a.ref.rows)}
        \cup {[a EXCEPT !.cmd = s, !.exec.cmd = s] : s \in DamagedSnapshot(a.cmd)}
        \cup {[a EXCEPT !.cmd.hist = h, !.exec.cmd.hist = h] : h \in Disturbed(a.cmd.hist)}
        \cup {[a EXCEPT !.exec.exit = 1], [a EXCEPT !.file.private = FALSE],
              [a EXCEPT !.file.links = 2]}
        \cup {[a EXCEPT !.queue = q] : q \in Disturbed(a.queue) \cup Foreign(a.queue)}
        \cup {[a EXCEPT !.log = [k \in Pic |-> OutputName(client_, f[k])]] : f \in [Pic -> Pic]}
        \cup {[a EXCEPT !.log = l] : l \in Disturbed(a.log)}
        \cup {[a EXCEPT !.report = r] : r \in Foreign(a.report) \cup Disturbed(a.report)}
        \cup {[a EXCEPT !.report[k] = ReportRow(client_, selection[k], i)] :
                 k \in DOMAIN selection, i \in Pic}
        \cup {[a EXCEPT !.report = r, !.file.after = 2] : r \in Disturbed(a.report)}
        \cup {[a EXCEPT !.report[1].completed = c] : c \in {Expected - 1, Expected + 1}}
        \cup {[a EXCEPT !.report[1].copied = FALSE]}

-----------------------------------------------------------------------------
(* run() after the worker has ended: read, validate, associate and join. *)
Selectors(client_, selection) ==
    [k \in DOMAIN selection |-> Coordinate(client_, selection[k])]

JoinRun(client_, selectors, a) ==
    IF ~(EvidenceValid(a.exec, a.ref, a.cmd, Requests) /\ SafeRead(a.file)) THEN NoJoin
    ELSE IF client_ = "va"
    THEN JoinVa(a.ref, Requests, Frames, a.report, a.queue,
                VaAssociations(a.log, Requests), selectors, TRUE)
    ELSE JoinGst(a.ref, Requests, Frames, a.report, a.queue,
                 GstAssociations(a.log, Frames), selectors, TRUE)

(* The same run seen by the collector of its client. *)
Collect(client_, selectors, a) ==
    IF client_ = "va" THEN CollectVa(a.exec.exit, a.file, a.report, selectors, TRUE)
    ELSE CollectGst(a.exec.exit, a.file, a.report, selectors, TRUE)

Publish(client_, selection, a) ==
    /\ LET selectors == Selectors(client_, selection)
           j == JoinRun(client_, selectors, a)
       IN  joined' = [ok |-> j.ok, selected |-> j.selected, client |-> client_,
                      collected |-> Collect(client_, selectors, a)]
    /\ UNCHANGED vars

Trace ==
    Next /\ UNCHANGED joined

Join ==
    /\ verdict = "accepted" /\ form = "full" /\ joined = NotYet
    /\ \E client_ \in {"va", "gst"}, selection \in Selections :
        LET a == Artefacts(client_, selection)
        IN  \E b \in Damaged(a, client_, selection) \cup {a} : Publish(client_, selection, b)

RunInit ==
    Init /\ joined = NotYet

RunNext ==
    Trace \/ Join

RunSpec == RunInit /\ [][RunNext]_allVars

-----------------------------------------------------------------------------
(***************************************************************************)
(* A published join tells the truth, although one artefact may be damaged: *)
(* every picture was decoded from the references it asked for, and every   *)
(* selected output is bound to the picture that was shown there, to the    *)
(* buffer it was decoded into and to that buffer's allocation.             *)
(***************************************************************************)
JoinIsTrue ==
    joined.ok =>
        /\ \A i \in Pic : \A u \in jobs[i].used : u[1] = u[2]
        /\ \A k \in DOMAIN joined.selected :
            LET s == joined.selected[k]
            IN  /\ s.capture = jobs[s.pic].cap
                /\ s.alloc = Allocation(jobs[s.pic].cap)
                /\ \E at \in Pic : /\ stream.show[at] = s.pic
                                   /\ s.at = Coordinate(joined.client, at)

(***************************************************************************)
(* The two readers of an observer report agree: what the join publishes,   *)
(* the collector of the client accepts for the same selection, although    *)
(* they judge it on different grounds: of the requests of a Gst report,    *)
(* for one, the join asks that they be those of the queue's rows, which    *)
(* the collector does not have, and the collector that they be distinct.   *)
(***************************************************************************)
JoinedIsCollected ==
    joined.ok => joined.collected
=============================================================================
