--------------------------- MODULE SnapshotQueue ---------------------------
(***************************************************************************)
(* The synthetic observer of reference contents (adapter.py) and the fake  *)
(* decoder queue it observes (synthetic_queue.py).  A snapshot pins the    *)
(* plane it is about, pauses and drains the queue, copies, and lets go.    *)
(*                                                                         *)
(* A method of the queue runs under its condition and is one step; drain() *)
(* gives the condition up while it waits.  Between two steps of a snapshot *)
(* the client allocates, releases and submits, an external worker writes   *)
(* and completes, other observers of the queue move, and the queue may be  *)
(* stopped.  An observer is used by one thread.                            *)
(*                                                                         *)
(* The field run stands for run and context.  The picture and its order    *)
(* count go with the job.  A pin's token is its observer, which has at     *)
(* most one; tokens are never used again.  Disabled observers, malformed   *)
(* layouts and queues of a foreign client refuse everything and are left   *)
(* out.                                                                    *)
(***************************************************************************)
EXTENDS Naturals, Sequences, FiniteSets

CONSTANTS
    Observer,        \* the observers of the queue
    Allocation,      \* allocation numbers
    Generation,      \* their generations
    Length,          \* lengths of a plane, 345600 and 368128
    Policy,          \* memory policies, of which coherent-model is accepted
    Run,             \* runs an identity may name
    MyRun,           \* the run of the queue
    None,
    MaxAllocations,  \* 8 in the code
    MaxPins,         \* 8 in the code
    MaxJobs,         \* 128 in the code
    MaxSnapshots     \* 8 in the code

Identity ==
    [run : Run, allocation : Allocation, generation : Generation,
     writer_job : Nat]

ASSUME SnapshotAssumption ==
    /\ MyRun \in Run
    /\ None \notin Identity /\ None \notin Nat
    /\ {MaxAllocations, MaxPins, MaxJobs, MaxSnapshots} \subseteq Nat

VARIABLES
    paused, closed,
    allocations,   \* the plane of each allocation: generation, length,
                   \* policy, last writer
    inflight,      \* the jobs submitted and not completed
    completed,     \* the numbers of the completed ones
    next_job,
    pins,          \* the identity each observer has pinned
    data,          \* the job whose bytes a plane holds; None while torn
    observer       \* the state of each observer's snapshot() and its results

queue == <<paused, closed, allocations, inflight, completed, next_job>>
vars == <<queue, pins, data, observer>>

Coherent == "coherent-model"

NoPlane == [known |-> FALSE]

(* An observer without results, outside snapshot(). *)
Idle == [pc |-> "idle", identity |-> None, length |-> 0, copy |-> FALSE,
         slot |-> [compressed |-> 0, motion |-> 0], stopped |-> FALSE, snapshots |-> <<>>]

Init ==
    /\ paused = FALSE
    /\ closed = FALSE
    /\ allocations = [a \in Allocation |-> NoPlane]
    /\ inflight = {}
    /\ completed = {}
    /\ next_job = 1
    /\ pins = [o \in Observer |-> None]
    /\ data = [a \in Allocation |-> 0]
    /\ observer = [o \in Observer |-> Idle]

-----------------------------------------------------------------------------
(* The client and the worker. *)

Pinned(a) ==
    \E o \in Observer : pins[o] # None /\ pins[o].allocation = a

(* A mutation of Writing: jobs in flight are not looked at. *)
WritingUnseen(a) == FALSE

Writing(a) ==
    \E j \in inflight : j.allocation = a /\ j.writes

Allocate(a) ==
    /\ ~closed /\ ~paused
    /\ ~allocations[a].known
    /\ Cardinality({b \in Allocation : allocations[b].known}) < MaxAllocations
    /\ \E g \in Generation, l \in Length, p \in Policy :
          allocations' = [allocations EXCEPT ![a] =
              [known |-> TRUE, generation |-> g, length |-> l,
               policy |-> p, writer |-> None]]
    /\ UNCHANGED <<paused, closed, inflight, completed, next_job, pins, data,
                   observer>>

Release(a) ==
    /\ allocations[a].known
    /\ ~Pinned(a)
    /\ \A j \in inflight : j.allocation # a
    /\ allocations' = [allocations EXCEPT ![a] = NoPlane]
    /\ data' = [data EXCEPT ![a] = 0]
    /\ UNCHANGED <<paused, closed, inflight, completed, next_job, pins, observer>>

Submit(a, writes) ==
    /\ ~closed /\ ~paused
    /\ allocations[a].known
    /\ writes => ~Pinned(a)
    /\ Cardinality(inflight) + Cardinality(completed) < MaxJobs
    /\ inflight' = inflight \cup
          {[job |-> next_job, allocation |-> a,
            generation |-> allocations[a].generation, writes |-> writes]}
    /\ next_job' = next_job + 1
    /\ UNCHANGED <<paused, closed, allocations, completed, pins, data, observer>>

(* The worker is writing the plane of a job. *)
Write(j) ==
    /\ j.writes
    /\ data' = [data EXCEPT ![j.allocation] = None]
    /\ UNCHANGED <<queue, pins, observer>>

(* A writer that finds its plane retained raises, with its job gone. *)
Complete(j) ==
    LET a == j.allocation
        raises == j.writes /\ Pinned(a)
    IN  /\ ~closed
        /\ inflight' = inflight \ {j}
        /\ completed' = IF raises THEN completed ELSE completed \cup {j.job}
        /\ allocations' = IF raises \/ ~j.writes THEN allocations
                          ELSE [allocations EXCEPT ![a].writer =
                                   [run |-> MyRun, allocation |-> a,
                                    generation |-> j.generation,
                                    writer_job |-> j.job]]
        /\ data' = IF j.writes THEN [data EXCEPT ![a] = j.job] ELSE data
        /\ UNCHANGED <<paused, closed, next_job, pins, observer>>

StopQueue ==
    /\ ~closed
    /\ closed' = TRUE
    /\ paused' = FALSE
    /\ UNCHANGED <<allocations, inflight, completed, next_job, pins, data,
                   observer>>

-----------------------------------------------------------------------------
(* Observer.snapshot() *)

At(o, pc) == observer[o].pc = pc

(* A snapshot that is at pc and has no use for its locals any more. *)
Over(o, pc) ==
    [Idle EXCEPT !.pc = pc, !.stopped = observer[o].stopped,
                 !.snapshots = observer[o].snapshots]

(* A call of the queue: it raises, or it succeeds and the snapshot goes on. *)
GoesOn(o, ok, pc) ==
    observer' = [observer EXCEPT
        ![o] = IF ok THEN [@ EXCEPT !.pc = pc] ELSE Over(o, "stop")]

Begin(o) ==
    /\ At(o, "idle")
    /\ ~observer[o].stopped
    /\ IF Len(observer[o].snapshots) >= MaxSnapshots
       THEN observer' = [observer EXCEPT ![o].stopped = TRUE]
       ELSE \E r \in Run, a \in Allocation, g \in Generation,
               j \in 1..(next_job - 1), l \in Length, copy \in BOOLEAN :
               observer' = [observer EXCEPT
                   ![o].pc = "pin", ![o].length = l, ![o].copy = copy,
                   ![o].identity = [run |-> r, allocation |-> a,
                                    generation |-> g, writer_job |-> j]]
    /\ UNCHANGED <<queue, pins, data>>

CanPin(i, length) ==
    /\ ~closed
    /\ allocations[i.allocation].known
    /\ allocations[i.allocation].writer = i
    /\ i.run = MyRun
    /\ i.writer_job \in completed
    /\ ~Writing(i.allocation)
    /\ allocations[i.allocation].policy = Coherent
    /\ allocations[i.allocation].length = length
    /\ Cardinality({o \in Observer : pins[o] # None}) < MaxPins

Pin(o) ==
    LET ok == CanPin(observer[o].identity, observer[o].length)
    IN  /\ At(o, "pin")
        /\ pins' = IF ok THEN [pins EXCEPT ![o] = observer[o].identity] ELSE pins
        /\ GoesOn(o, ok, "pause")
        /\ UNCHANGED <<queue, data>>

Pause(o) ==
    LET ok == ~closed /\ ~paused
    IN  /\ At(o, "pause")
        /\ paused' = IF ok THEN TRUE ELSE paused
        /\ GoesOn(o, ok, "drain")
        /\ UNCHANGED <<closed, allocations, inflight, completed, next_job, pins,
                       data>>

(* A mutation of Drain: it has no deadline. *)
DrainForever(o) ==
    LET ok == ~closed /\ paused /\ inflight = {}
    IN  /\ At(o, "drain")
        /\ ok \/ closed \/ ~paused
        /\ GoesOn(o, ok, "validate")
        /\ UNCHANGED <<queue, pins, data>>

(* With a job in flight the deadline may pass at any time. *)
Drain(o) ==
    LET ok == ~closed /\ paused /\ inflight = {}
    IN  /\ At(o, "drain")
        /\ GoesOn(o, ok, "validate")
        /\ UNCHANGED <<queue, pins, data>>

Valid(o) ==
    LET i == observer[o].identity
        p == allocations[i.allocation]
    IN  /\ ~closed /\ paused /\ inflight = {}
        /\ pins[o] = i
        /\ p.known
        /\ p.writer = i
        /\ p.generation = i.generation
        /\ i.run = MyRun
        /\ p.policy = Coherent
        /\ i.writer_job \in completed

Validate(o) ==
    /\ \/ At(o, "validate") /\ GoesOn(o, Valid(o), "compressed")
       \/ At(o, "revalidate") /\ GoesOn(o, Valid(o), "resume")
    /\ UNCHANGED <<queue, pins, data>>

(* The two ranges of the plane, one after the other. *)
Copy(o) ==
    LET held == data[observer[o].identity.allocation]
        copy == observer[o].copy
    IN  /\ \/ /\ At(o, "compressed")
              /\ observer' = [observer EXCEPT
                    ![o].slot.compressed = IF copy THEN held ELSE @,
                    ![o].pc = "motion"]
           \/ /\ At(o, "motion")
              /\ observer' = [observer EXCEPT
                    ![o].slot.motion = IF copy THEN held ELSE @,
                    ![o].pc = "clock"]
        /\ UNCHANGED <<queue, pins, data>>

CopyDeadline(o) ==
    /\ At(o, "clock")
    /\ \E inTime \in BOOLEAN : GoesOn(o, inTime, "revalidate")
    /\ UNCHANGED <<queue, pins, data>>

Resume(o) ==
    /\ At(o, "resume")
    /\ paused' = IF closed THEN paused ELSE FALSE
    /\ GoesOn(o, ~closed, "unpin")
    /\ UNCHANGED <<closed, allocations, inflight, completed, next_job, pins, data>>

(* The except clause. *)
Stop(o) ==
    /\ At(o, "stop")
    /\ closed' = TRUE
    /\ paused' = FALSE
    /\ observer' = [observer EXCEPT ![o].pc = "failed", ![o].stopped = TRUE]
    /\ UNCHANGED <<allocations, inflight, completed, next_job, pins, data>>

(* The finally clause, after a success or a failure. *)
Unpin(o) ==
    /\ At(o, "unpin") \/ At(o, "failed")
    /\ pins' = [pins EXCEPT ![o] = None]
    /\ observer' = [observer EXCEPT
          ![o] = IF At(o, "unpin") THEN [@ EXCEPT !.pc = "publish"]
                 ELSE Over(o, "idle")]
    /\ UNCHANGED <<queue, data>>

Publish(o) ==
    /\ At(o, "publish")
    /\ LET shot == [identity |-> observer[o].identity,
                    copy |-> observer[o].copy, bytes |-> observer[o].slot]
       IN  observer' = [observer EXCEPT
              ![o] = [Over(o, "idle") EXCEPT !.snapshots = Append(@, shot)]]
    /\ UNCHANGED <<queue, pins, data>>

Step(o) ==
    \/ Pin(o) \/ Pause(o) \/ Drain(o) \/ Validate(o) \/ Copy(o)
    \/ CopyDeadline(o) \/ Resume(o) \/ Stop(o) \/ Unpin(o) \/ Publish(o)

Next ==
    \/ \E a \in Allocation :
          \/ Allocate(a)
          \/ Release(a)
          \/ \E writes \in BOOLEAN : Submit(a, writes)
    \/ \E j \in inflight : Write(j) \/ Complete(j)
    \/ StopQueue
    \/ \E o \in Observer : Begin(o) \/ Step(o)

Spec == Init /\ [][Next]_vars

(* The thread of an observer gets on: drain() waits no longer than its     *)
(* deadline.  Nothing makes the worker complete a job.                     *)
FairSpec == Spec /\ \A o \in Observer : WF_vars(Step(o))

-----------------------------------------------------------------------------
Copying(o) ==
    At(o, "compressed") \/ At(o, "motion")

(***************************************************************************)
(* The plane is read while no job is in flight, not even a reader of       *)
(* another plane, and a snapshot shows the bytes that the writer it names  *)
(* left, both parts of them, whatever is submitted, released or stopped in *)
(* between ("Pinning blocks release/rewrite", the README).                 *)
(***************************************************************************)
SnapshotTrue ==
    \A o \in Observer :
        /\ Copying(o) => inflight = {}
        /\ \A n \in DOMAIN observer[o].snapshots :
              LET s == observer[o].snapshots[n]
              IN  s.copy => s.bytes = [compressed |-> s.identity.writer_job,
                                       motion |-> s.identity.writer_job]

(***************************************************************************)
(* A snapshot ends, although a job may never be completed, and leaves      *)
(* nothing behind: its pin is gone, and the queue is not paused on its     *)
(* account (the except and finally clauses of snapshot).                   *)
(***************************************************************************)
SnapshotEnds ==
    \A o \in Observer :
        ~At(o, "idle") ~>
            /\ At(o, "idle")
            /\ pins[o] = None
            /\ paused => \E p \in Observer : ~At(p, "idle")
=============================================================================
