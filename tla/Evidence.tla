------------------------------ MODULE Evidence ------------------------------
(***************************************************************************)
(* The checks a same-run join makes on its artefacts, as operators: the    *)
(* reference and command snapshots of the kernel recorders, the execution  *)
(* record, the client's queue log and output log, and the observer report. *)
(* A picture's number stands for the writer the kernel counts; a row is    *)
(* the fields of it that the checks compare.                               *)
(***************************************************************************)
EXTENDS Naturals, Sequences, FiniteSets, SequencesExt, FiniteSetsExt

CONSTANTS
    Expected,   \* the pictures of a run
    Window      \* the pictures recorded in detail

(***************************************************************************)
(* map_records: the requests of the adapter are [poc, target, dpb], a DPB  *)
(* entry is [buf, poc]; the map names the writer each entry stands for.    *)
(***************************************************************************)
WriterBefore(reqs, i, buf) ==
    LET w == {j \in 1..(i - 1) : reqs[j].target = buf}
    IN  IF w = {} THEN 0 ELSE Max(w)

MapsRecords(reqs) ==
    /\ Len(reqs) = Expected
    /\ \A i, j \in DOMAIN reqs : reqs[i].poc = reqs[j].poc => i = j
    /\ \A i \in DOMAIN reqs : \A e \in reqs[i].dpb :
        /\ e.buf # reqs[i].target
        /\ \A f \in reqs[i].dpb : f.buf = e.buf => f = e
        /\ LET w == WriterBefore(reqs, i, e.buf)
           IN  w # 0 /\ reqs[w].poc = e.poc

MappedRefs(reqs, i) ==
    {[poc |-> e.poc, buf |-> e.buf, writer |-> WriterBefore(reqs, i, e.buf)] :
        e \in reqs[i].dpb}

(* The collocated picture of motion(): the first of the list here. *)
Collocated(table) ==
    Head(table)

-----------------------------------------------------------------------------
(* safe_read: [before, after, private, links] is what fstat says of a file *)
(* before and after it is read; what was read of a file that changed is    *)
(* not used.                                                               *)
SafeRead(file) ==
    file.before = file.after /\ file.private /\ file.links = 1

(***************************************************************************)
(* The reference snapshot: [run, ctx, sealed, rows], a row being [kind,    *)
(* pic, poc, intra, buf, alloc, ts, writer, prev, done, want] where want   *)
(* is the timestamp that was looked up.                                    *)
(***************************************************************************)
ReadCapture(snap, run) ==
    snap.run = run /\ snap.sealed

Rows(snap, p) ==
    SelectSeq(snap.rows, LAMBDA r : r.pic = p)

OfKind(rows, kind) ==
    SelectSeq(rows, LAMBDA r : r.kind = kind)

(* The rows come in groups, one per picture and in order, and a group is a *)
(* start, the table, the lists, the motion record and a completion.        *)
Grouped(snap) ==
    /\ snap.rows = FlattenSeq([p \in 1..Expected |-> Rows(snap, p)])
    /\ \A p \in 1..Expected :
        LET g == Rows(snap, p)
            kinds == [k \in DOMAIN g |-> g[k].kind]
            table == OfKind(g, "table")
            n == Len(table)
        IN  /\ kinds = <<"start">> \o [k \in 1..n |-> "table"]
                          \o [k \in 1..n |-> "list"]
                          \o (IF p \in Window THEN <<"motion">> ELSE <<>>)
                          \o <<"done">>
            /\ p \notin Window \/ g[1].intra => n = 0

Start(snap, p) ==
    Rows(snap, p)[1]

(* The latest start in a buffer when the group of picture p is read. *)
CurrentWriter(snap, p, buf) ==
    LET w == {q \in 1..p : Start(snap, q).buf = buf}
    IN  IF w = {} THEN 0 ELSE Max(w)

(* buffer(): what a table or motion row says of its buffer is what the     *)
(* latest start in it said.                                                *)
BufferCurrent(snap, p, r) ==
    LET w == CurrentWriter(snap, p, r.buf)
    IN  /\ w # 0
        /\ Start(snap, w).alloc = r.alloc
        /\ w = r.writer /\ r.done
        /\ r.ts = Start(snap, w).ts
        /\ r.intra = Start(snap, w).intra

(* check_group: the destination, the table, the lists and the motion row. *)
GroupChecks(snap, p, reqs) ==
    LET g == Rows(snap, p)
        start == g[1]
        done == Last(g)
        table == OfKind(g, "table")
        motion == OfKind(g, "motion")
    IN  /\ start.writer = p /\ ~start.done /\ done.done
        /\ [done EXCEPT !.kind = "start", !.done = FALSE] = start
        /\ start.prev = WriterBefore([q \in 1..p |-> [target |-> Start(snap, q).buf]],
                                     p, start.buf)
        /\ start.poc = reqs[p].poc /\ start.buf = reqs[p].target
        /\ start.intra = (reqs[p].dpb = {})
        /\ \A k \in DOMAIN table :
            LET r == table[k]
            IN  /\ BufferCurrent(snap, p, r)
                /\ r.want = r.ts
                /\ r.writer < p
                /\ Start(snap, r.writer).poc = r.poc
        /\ p \in Window /\ ~start.intra =>
            /\ {[poc |-> r.poc, buf |-> r.buf, writer |-> r.writer] : r \in Range(table)}
                   = MappedRefs(reqs, p)
            /\ [k \in DOMAIN table |-> [table[k] EXCEPT !.kind = "list"]] = OfKind(g, "list")
            /\ [motion[1] EXCEPT !.kind = "table"] = Collocated(table)

(* The resolution of every timestamp of a group against the latest writers *)
(* finds one candidate at most.                                            *)
Unambiguous(snap, p) ==
    \A r \in Range(Rows(snap, p)) : \A ts \in {r.ts, r.want} :
        Cardinality({w \in 1..p : /\ CurrentWriter(snap, p, Start(snap, w).buf) = w
                                  /\ Start(snap, w).ts = ts}) <= 1

ReferenceValid(snap, reqs) ==
    /\ Grouped(snap)
    /\ \A p \in 1..Expected : GroupChecks(snap, p, reqs) /\ Unambiguous(snap, p)

-----------------------------------------------------------------------------
(* The command snapshot: [run, ctx, sealed, hist], one row per picture. *)
ParseSnapshot(snap, run) ==
    /\ snap.run = run /\ snap.sealed
    /\ Len(snap.hist) = Expected
    /\ \A p \in DOMAIN snap.hist : snap.hist[p].pic = p

BindHistory(cmd, ref) ==
    /\ cmd.run = ref.run /\ cmd.ctx = ref.ctx
    /\ \A p \in 1..Expected :
        LET s == Start(ref, p)
        IN  cmd.hist[p] = [pic |-> s.pic, poc |-> s.poc, buf |-> s.buf, intra |-> s.intra]

(* _execution: the run succeeded, and both snapshots are the sealed ones   *)
(* it made durable, of one context.                                        *)
Execution(exec, ref, cmd) ==
    /\ exec.exit = 0
    /\ exec.ref.run = exec.run /\ exec.cmd.run = exec.run
    /\ exec.ref.sealed /\ exec.cmd.sealed
    /\ exec.ref.ctx = exec.cmd.ctx
    /\ exec.ref = ref /\ exec.cmd = cmd

(* validate(): reqs is what the adapter made of the recording. *)
EvidenceValid(exec, ref, cmd, reqs) ==
    /\ Execution(exec, ref, cmd)
    /\ ParseSnapshot(cmd, exec.run)
    /\ ReadCapture(ref, exec.run)
    /\ MapsRecords(reqs)
    /\ ReferenceValid(ref, reqs)
    /\ BindHistory(cmd, ref)

(* KernelEvidence.check: no two pictures have the same raw timestamp.  *)
FramesUnique(frames) ==
    IsInjective(frames)

-----------------------------------------------------------------------------
(***************************************************************************)
(* Output order: the associations are the picture of every output.         *)
(***************************************************************************)
NoPictures == <<>>

(* va_associations: the log names order counts. *)
VaAssociations(log, reqs) ==
    IF /\ Len(log) = Expected
       /\ \A i, j \in DOMAIN reqs : reqs[i].poc = reqs[j].poc => i = j
       /\ Range(log) = {reqs[i].poc : i \in DOMAIN reqs}
    THEN [k \in DOMAIN log |-> CHOOSE i \in DOMAIN reqs : reqs[i].poc = log[k]]
    ELSE NoPictures

(* associate: the log names system frame numbers. *)
GstAssociations(log, frames) ==
    IF Len(log) = Expected /\ IsInjective(log) /\ Range(log) = Range(frames)
    THEN [k \in DOMAIN log |-> CHOOSE i \in DOMAIN frames : frames[i] = log[k]]
    ELSE NoPictures

ParseAssociations(pics) ==
    Len(pics) = Expected /\ IsInjective(pics)

(***************************************************************************)
(* Queue rows are [ctx, alloc, writer, capture, ...]: VA adds pic, poc and *)
(* dpb, Gst adds frame and request.                                        *)
(***************************************************************************)
OneContext(queue) ==
    \A k \in DOMAIN queue : queue[k].ctx = queue[1].ctx

ParseVaQueue(queue) ==
    /\ Len(queue) = Expected
    /\ \A k \in DOMAIN queue : queue[k].pic = k
    /\ OneContext(queue) /\ IsInjective(queue)

ParseGstQueue(queue) ==
    /\ Len(queue) = Expected
    /\ OneContext(queue)
    /\ \A j, k \in DOMAIN queue :
        queue[j].frame = queue[k].frame \/ queue[j].request = queue[k].request => j = k

(* Observer report rows are [at, ctx, alloc, writer, capture, request,     *)
(* submitted, completed, copied], at being the selector's coordinate.      *)
ValidateReportUncopied(report, client, selectors, copy) ==
    /\ Len(report) = Len(selectors) /\ OneContext(report)
    /\ \A k \in DOMAIN report : report[k].completed = report[k].submitted
    /\ {report[k].at : k \in DOMAIN report} = Range(selectors)

ValidateReport(report, client, selectors, copy) ==
    /\ Len(report) = Len(selectors) /\ Len(selectors) \in 1..8
    /\ IsInjective(selectors)
    /\ OneContext(report)
    /\ \A k \in DOMAIN report : /\ report[k].completed = report[k].submitted
                                /\ report[k].copied = copy
    /\ LET at == [k \in DOMAIN report |-> report[k].at]
       IN  IF client = "va" THEN at = selectors ELSE Range(at) = Range(selectors)

(***************************************************************************)
(* The collectors read the same report on their own, each for its client,  *)
(* beside the exit code of the process that wrote it.                      *)
(***************************************************************************)
ParseVaReport(report, selectors, copy) ==
    /\ Len(selectors) \in 1..8 /\ IsInjective(selectors)
    /\ Len(report) \in 1..8 /\ OneContext(report)
    /\ \A k \in DOMAIN report : /\ report[k].completed >= report[k].submitted
                                /\ report[k].copied = copy
    /\ [k \in DOMAIN report |-> report[k].at] = selectors

ParseGstReport(report, selectors, copy) ==
    LET at == [k \in DOMAIN report |-> report[k].at]
    IN  /\ Len(selectors) \in 1..8 /\ IsInjective(selectors)
        /\ Len(report) \in 1..8 /\ OneContext(report)
        /\ \A k \in DOMAIN report : /\ report[k].completed >= report[k].submitted
                                    /\ report[k].copied = copy
        /\ IsInjective(at) /\ IsInjective([k \in DOMAIN report |-> report[k].request])
        /\ Range(at) = Range(selectors) /\ Len(at) = Len(selectors)

CollectVa(exit, file, report, selectors, copy) ==
    exit = 0 /\ SafeRead(file) /\ ParseVaReport(report, selectors, copy)

CollectGst(exit, file, report, selectors, copy) ==
    exit = 0 /\ SafeRead(file) /\ ParseGstReport(report, selectors, copy)

(* _reference_pair: the lifetime of the picture in the selected capture.   *)
ReferencePair(ref, pic, capture) ==
    LET ends == SelectSeq(Rows(ref, pic), LAMBDA r : r.kind \in {"start", "done"})
    IN  /\ Len(ends) = 2 /\ ends[1].kind = "start" /\ ends[2].kind = "done"
        /\ ends[1].buf = capture /\ ends[2].buf = capture
        /\ ends[1].writer = pic /\ ends[2].writer = pic /\ ends[2].done
        /\ ends[1].alloc = ends[2].alloc

Bridge(o, pic, ref) ==
    [at |-> o.at, pic |-> pic, capture |-> o.capture, alloc |-> Start(ref, pic).alloc]

SameBuffer(row, o) ==
    row.ctx = o.ctx /\ row.alloc = o.alloc /\ row.capture = o.capture

(* A queue row and a report row are of the same client identity. *)
SameClient(row, o) ==
    /\ row.ctx = o.ctx /\ row.alloc = o.alloc
    /\ row.writer = o.writer /\ row.capture = o.capture

NoJoin == [ok |-> FALSE, selected |-> <<>>]

JoinVa(ref, reqs, frames, report, queue, pics, selectors, copy) ==
    IF /\ FramesUnique(frames)
       /\ ValidateReport(report, "va", selectors, copy)
       /\ ParseVaQueue(queue) /\ ParseAssociations(pics)
       /\ \A k \in DOMAIN queue :
            [poc |-> queue[k].poc, target |-> queue[k].capture, dpb |-> queue[k].dpb] = reqs[k]
       /\ \A k \in DOMAIN report :
            LET o == report[k]
            IN  /\ o.at \in DOMAIN pics
                /\ SameClient(queue[pics[o.at]], o)
                /\ ReferencePair(ref, pics[o.at], o.capture)
    THEN [ok |-> TRUE,
          selected |-> [k \in DOMAIN report |-> Bridge(report[k], pics[report[k].at], ref)]]
    ELSE NoJoin

JoinGst(ref, reqs, frames, report, queue, pics, selectors, copy) ==
    LET Of(frame) == CHOOSE i \in DOMAIN frames : frames[i] = frame
    IN  IF /\ FramesUnique(frames)
           /\ ValidateReport(report, "gst", selectors, copy)
           /\ ParseGstQueue(queue) /\ ParseAssociations(pics)
           /\ \A k \in DOMAIN queue :
                /\ queue[k].frame \in Range(frames)
                /\ reqs[Of(queue[k].frame)].target = queue[k].capture
           /\ \A k \in DOMAIN report :
                LET o == report[k]
                IN  /\ \E q \in DOMAIN queue :
                        /\ queue[q].frame = o.at /\ queue[q].request = o.request
                        /\ SameClient(queue[q], o)
                    /\ ReferencePair(ref, Of(o.at), o.capture)
        THEN [ok |-> TRUE,
              selected |-> [k \in DOMAIN report |-> Bridge(report[k], Of(report[k].at), ref)]]
        ELSE NoJoin
=============================================================================
