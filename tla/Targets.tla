------------------------------- MODULE Targets -------------------------------
(***************************************************************************)
(* What the deployment of the reference-content campaign computes, as pure *)
(* operators: derive_targets.py turns archived traces into a target table, *)
(* manifest.py says which tables a manifest may hold, controller.py builds *)
(* and judges the plan of eight workloads, and build.py turns table and    *)
(* files into the commands of the campaign.                                *)
(*                                                                         *)
(* A target table is a function from <<client, vector>> to rows.  A file   *)
(* is named by its path; a record of a file is [path, sum].                *)
(***************************************************************************)
EXTENDS Integers, Sequences, FiniteSets

CONSTANTS
    Outputs,       \* outputs per stream (300 in the code)
    Slots,         \* selected outputs per vector: 3 of E, 1 of B
    MaxSelection,  \* selected outputs per workload (8)
    MaxSnapshots,  \* the budget of copied snapshots (8)
    Selected       \* SELECTED_OUTPUTS: <<client, vector>> -> ordinals

Clients == {"va", "gst"}
Vectors == {"B", "E"}
Keys == Clients \X Vectors
Matrix == Vectors \X Clients \X BOOLEAN

ASSUME TargetsAssumption ==
    /\ Outputs \in Nat \ {0}
    /\ MaxSelection \in Nat
    /\ MaxSnapshots \in Nat
    /\ Slots \in [Vectors -> 1..MaxSelection]
    /\ 2 * (Slots["B"] + Slots["E"]) <= MaxSnapshots
    /\ Selected \in [Keys -> Seq(Nat)]

None == -1

Domain(client) ==
    IF client = "va" THEN "output_ordinal" ELSE "system_frame_number"

Distinct(s) ==
    \A i, j \in 1..Len(s) : s[i] = s[j] => i = j

-----------------------------------------------------------------------------
(***************************************************************************)
(* derive_targets.py.  An association is a sequence of rows [frame, pic],  *)
(* one per output; a trace is a sequence of CREATE_BUFS events; a stream   *)
(* is the sequence of the kinds of its NAL units.                          *)
(***************************************************************************)
ReadAssociation(rows) ==
    Len(rows) = Outputs

(* The indices of the single-buffer capture allocations that succeeded. *)
PoolIndices(trace) ==
    LET Mine(e) == ~e.failed /\ e.capture /\ e.asked = 1 /\ e.given = 1
        mine == SelectSeq(trace, Mine)
    IN [i \in 1..Len(mine) |-> mine[i].index]

(* One contiguous pool, allocated from the first index on. *)
OrdinaryPool(trace) ==
    LET indices == PoolIndices(trace)
    IN indices # <<>> /\ \A i \in 1..Len(indices) : indices[i] = i - 1

ParameterSets == {"vps", "sps", "pps"}

(* Every kind of parameter set, a picture, and no parameter set after it. *)
NoLateParameterSet(nals) ==
    LET first == {n \in 1..Len(nals) :
                    nals[n] = "vcl" /\ \A k \in 1..(n - 1) : nals[k] # "vcl"}
    IN /\ ParameterSets \subseteq {nals[n] : n \in 1..Len(nals)}
       /\ first # {}
       /\ \A n \in 1..Len(nals) :
            (\E f \in first : n > f) => nals[n] \notin ParameterSets

(* The sources of a derivation are in order. *)
Derivable(d) ==
    /\ \A k \in Keys :
         /\ ReadAssociation(d.assoc[k])
         /\ \A i \in 1..Len(Selected[k]) : d.assoc[k][Selected[k][i] + 1].pic > 0
    /\ \A v \in Vectors : OrdinaryPool(d.trace[v]) /\ NoLateParameterSet(d.nals[v])

DeriveRow(d, k) ==
    LET gst == k[1] = "gst"
        picked == [i \in 1..Len(Selected[k]) |-> d.assoc[k][Selected[k][i] + 1]]
        inputs == {picked[i].pic - 1 : i \in 1..Len(picked)}
    IN [domain |-> Domain(k[1]),
        selectors |-> IF gst THEN [i \in 1..Len(picked) |-> picked[i].frame]
                             ELSE Selected[k],
        last |-> CHOOSE n \in inputs : \A m \in inputs : m <= n,
        count |-> Len(d.assoc[k]),
        pool |-> IF gst THEN Len(PoolIndices(d.trace[k[2]])) + Len(picked) ELSE None,
        reserve |-> IF gst THEN Len(picked) ELSE None,
        changes |-> <<>>]

Derive(d) ==
    [k \in Keys |-> DeriveRow(d, k)]

-----------------------------------------------------------------------------
(***************************************************************************)
(* manifest.validate: the target table a manifest may hold.  A table has   *)
(* rows of integers and lists of integers once its types are checked.      *)
(***************************************************************************)
TableRow ==
    [domain : STRING, selectors : Seq(Int), last : Int, count : Int,
     pool : Int, reserve : Int, changes : Seq(Int)]

TargetRow(k, row) ==
    LET wanted == Slots[k[2]]
    IN /\ Len(row.selectors) = wanted
       /\ Distinct(row.selectors)
       /\ \A i \in 1..Len(row.selectors) : row.selectors[i] >= 0
       /\ row.domain = Domain(k[1])
       /\ \A i \in 1..Len(row.selectors) : row.selectors[i] <= row.last
       /\ Distinct(row.changes)
       /\ \A i \in 1..Len(row.changes) : row.changes[i] >= 0
       /\ \A i \in 1..Len(row.changes) : row.changes[i] > row.last
       /\ \A i \in 1..Len(row.selectors) : row.selectors[i] < row.count
       /\ IF k[1] = "gst" THEN row.reserve = wanted /\ row.pool > row.reserve
                          ELSE row.pool = None /\ row.reserve = None

(* Mutant: each client's parameter-set changes are judged alone. *)
ManifestTargetsAlone(t) ==
    \A k \in Keys : TargetRow(k, t[k])

ManifestTargets(t) ==
    /\ \A k \in Keys : TargetRow(k, t[k])
    /\ \A v \in Vectors : t[<<"gst", v>>].changes = t[<<"va", v>>].changes

-----------------------------------------------------------------------------
(***************************************************************************)
(* controller.py: the plan, a function from <<vector, client, copy>> to    *)
(* workloads, and what makes it fit for the hardware.                      *)
(***************************************************************************)
BuildPlan(t) ==
    [w \in Matrix |->
        LET row == t[<<w[2], w[1]>>]
        IN [domain |-> Domain(w[2]), selectors |-> row.selectors,
            arm |-> 0, last |-> row.last,
            changes |-> t[<<"gst", w[1]>>].changes,
            pool |-> IF w[2] = "gst" THEN row.pool ELSE None,
            count |-> IF w[2] = "va" THEN row.count ELSE None]]

ValidWorkload(w, r) ==
    /\ r.domain = Domain(w[2])
    /\ r.selectors # <<>>
    /\ Len(r.selectors) \in 1..MaxSelection
    /\ Distinct(r.selectors)
    /\ \A i \in 1..Len(r.selectors) : r.selectors[i] >= 0
    /\ IF w[2] = "gst"
         THEN r.count = None /\ r.pool > 0 /\ r.pool > Len(r.selectors)
         ELSE /\ r.pool = None /\ r.count > 0
              /\ \A i \in 1..Len(r.selectors) : r.selectors[i] < r.count
    /\ r.arm >= 0
    /\ r.last >= r.arm
    /\ \A i \in 1..Len(r.changes) : r.changes[i] >= 0
    /\ \A i \in 1..Len(r.changes) : ~(r.arm <= r.changes[i] /\ r.changes[i] <= r.last)

(* Both halves of a pair select the same, and as many as the vector has. *)
PairAgrees(p, v, c) ==
    LET off == p[<<v, c, FALSE>>]
        on == p[<<v, c, TRUE>>]
    IN off = on /\ Len(on.selectors) = Slots[v]

Copied(p) ==
    Len(p[<<"B", "va", TRUE>>].selectors) + Len(p[<<"B", "gst", TRUE>>].selectors)
      + Len(p[<<"E", "va", TRUE>>].selectors) + Len(p[<<"E", "gst", TRUE>>].selectors)

ValidatePlan(p) ==
    /\ DOMAIN p = Matrix
    /\ \A w \in Matrix : ValidWorkload(w, p[w])
    /\ \A v \in Vectors, c \in Clients : PairAgrees(p, v, c)
    /\ Copied(p) <= MaxSnapshots

(* Whatever table of targets the manifest admits, the plan the controller  *)
(* builds from it is one the controller accepts: plan_document, called in  *)
(* the middle of an admission, has nothing to raise its ValueError about,  *)
(* which admission.main does not catch.                                    *)
PlanAccepted(t) ==
    ManifestTargets(t) => ValidatePlan(BuildPlan(t))

-----------------------------------------------------------------------------
(***************************************************************************)
(* build.command_matrix: the files a workload's command names.  A client   *)
(* is its program and, through its environment, its driver or plugins.     *)
(***************************************************************************)
CommandMatrix(files, t) ==
    [w \in Matrix |->
        [selectors |-> t[<<w[2], w[1]>>].selectors,
         copy |-> w[3],
         inputs |-> {files[n].path : n \in {"python", "supervisor", "uapi", "client"}}
                      \cup {files["corpus"].path}]]
=============================================================================
