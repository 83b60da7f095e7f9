------------------------------ MODULE ParamSets ------------------------------
(***************************************************************************)
(* The parameter sets of the HEVC decoder with the patch of                *)
(* experiments/hevc-parameter-sets (ffmpeg-n9.0.1-hevc-pending-parameter-  *)
(* sets.patch).  A parameter set that arrives before the one it refers to, *)
(* or fails against it, or whose dependency is replaced, is kept pending   *)
(* and parsed again when the first slice of a picture needs it.            *)
(*                                                                         *)
(* A parameter set is a record: its kind t, its id, the id dep it refers   *)
(* to (0 for a VPS), its content c, and whether its payload is well        *)
(* formed.  Whether a well-formed one parses against its dependency is the *)
(* constant Fits.  A list of the decoder is a function whose domain is the *)
(* ids it holds.  A reference to a parsed set is modelled by what the set  *)
(* was parsed from, since a second parse of the same bytes against the     *)
(* same dependency has the same result.                                    *)
(*                                                                         *)
(* An allocation that fails, the copies between frame threads and the      *)
(* extension SPSs of multi-layer streams are left out.  So is a malformed  *)
(* VPS, which the code under the patch deals with, and so are two kinds of *)
(* slice that activate nothing and leave the lists alone: those after the  *)
(* first of a picture, and those of a layer or picture that is skipped.    *)
(***************************************************************************)
EXTENDS Naturals

CONSTANTS
    Ids,            \* ids of parameter sets
    Contents,       \* what tells two parameter sets with the same ids apart
    Fits(_, _, _),  \* Fits(t, c, e): a t of content c parses against an e
    None            \* no dependency, no picture

Kinds == {"vps", "sps", "pps"}

ParameterSet ==
    {n \in [t : Kinds, id : Ids, dep : Ids, c : Contents, ok : BOOLEAN] :
         n.t = "vps" => n.ok}

(* A stored set and the one it was parsed against. *)
Stored ==
    [nal : ParameterSet, on : ParameterSet]

ASSUME ParamSetsAssumption ==
    /\ Ids \subseteq Nat
    /\ \A t \in {"sps", "pps"}, c, e \in Contents : Fits(t, c, e) \in BOOLEAN
    /\ None \notin Stored /\ None \notin ParameterSet

VARIABLES
    fixed,      \* the decoder's lists and its ps_refused_irap
    newest,     \* history: per kind and id, the parameter set that came last
    used        \* the sets the last picture was decoded with, or None

vars == <<fixed, newest, used>>

Slice ==
    [pps : Ids, irap : BOOLEAN]

Put(f, i, v) ==
    [j \in DOMAIN f \cup {i} |-> IF j = i THEN v ELSE f[j]]

Without(f, S) ==
    [j \in DOMAIN f \ S |-> f[j]]

(* f where it is defined, g elsewhere. *)
Over(f, g) ==
    [j \in DOMAIN f \cup DOMAIN g |-> IF j \in DOMAIN f THEN f[j] ELSE g[j]]

Nothing ==
    [i \in {} |-> None]

Empty ==
    [vps |-> Nothing, sps |-> Nothing, pps |-> Nothing,
     pending_sps |-> Nothing, pending_pps |-> Nothing, refused |-> FALSE]

Parses(n, dependency) ==
    n.ok /\ Fits(n.t, n.c, dependency.c)

-----------------------------------------------------------------------------
(***************************************************************************)
(* A pending entry: the set, and what it failed against if it was tried.   *)
(***************************************************************************)
keep_pending(slots, n, failed) ==
    Put(slots, n.id, [nal |-> n, failed |-> failed])

Waiting(stored, S) ==
    [i \in S |-> [nal |-> stored[i].nal, failed |-> None]]

(* Mutant: the set that was stored takes the place of a newer pending one. *)
remove_sps_revives(d, S) ==
    LET gone == DOMAIN d.sps \cap S
        users == {i \in DOMAIN d.pps : d.pps[i].nal.dep \in gone}
    IN  [d EXCEPT !.pending_pps = Over(Waiting(d.pps, users), @),
                  !.pps = Without(@, users),
                  !.sps = Without(@, gone)]

(* Mutant: the PPSs of a replaced SPS are dropped, as without the patch. *)
remove_sps_drops(d, S) ==
    LET gone == DOMAIN d.sps \cap S
        users == {i \in DOMAIN d.pps : d.pps[i].nal.dep \in gone}
    IN  [d EXCEPT !.pps = Without(@, users),
                  !.sps = Without(@, gone)]

(***************************************************************************)
(* The stored SPSs of S go.  The PPSs parsed against them wait for the     *)
(* replacement, unless a newer PPS with that id is waiting already.        *)
(***************************************************************************)
remove_sps(d, S) ==
    LET gone == DOMAIN d.sps \cap S
        users == {i \in DOMAIN d.pps : d.pps[i].nal.dep \in gone}
    IN  [d EXCEPT !.pending_pps = Over(@, Waiting(d.pps, users)),
                  !.pps = Without(@, users),
                  !.sps = Without(@, gone)]

remove_vps(d, id) ==
    LET users == {i \in DOMAIN d.sps : d.sps[i].nal.dep = id}
        kept == [d EXCEPT !.pending_sps = Over(@, Waiting(d.sps, users))]
    IN  [remove_sps(kept, users) EXCEPT !.vps = Without(@, {id})]

(***************************************************************************)
(* A VPS depends on nothing.  A repeat of the stored one changes nothing;  *)
(* another takes its place.                                                *)
(***************************************************************************)
decode_nal_vps(d, n) ==
    IF n.id \in DOMAIN d.vps /\ d.vps[n.id] = n THEN d
    ELSE [remove_vps(d, n.id) EXCEPT !.vps = Put(@, n.id, n)]

(***************************************************************************)
(* Deferred without its VPS, pending when it fails against it.  Otherwise  *)
(* it supersedes what was pending, and takes the place of a stored SPS     *)
(* that it does not repeat.                                                *)
(***************************************************************************)
decode_nal_sps(d, n) ==
    IF n.dep \notin DOMAIN d.vps
    THEN [d EXCEPT !.pending_sps = keep_pending(@, n, None)]
    ELSE IF ~Parses(n, d.vps[n.dep])
    THEN [d EXCEPT !.pending_sps = keep_pending(@, n, d.vps[n.dep])]
    ELSE LET e == [d EXCEPT !.pending_sps = Without(@, {n.id})]
         IN  IF n.id \in DOMAIN d.sps /\ d.sps[n.id].nal = n THEN e
             ELSE [remove_sps(e, {n.id}) EXCEPT
                       !.sps = Put(@, n.id, [nal |-> n, on |-> d.vps[n.dep]])]

decode_nal_pps(d, n) ==
    IF n.id \in DOMAIN d.pps /\ d.pps[n.id].nal = n
    THEN [d EXCEPT !.pending_pps = Without(@, {n.id})]
    ELSE IF n.dep \notin DOMAIN d.sps
    THEN [d EXCEPT !.pending_pps = keep_pending(@, n, None)]
    ELSE IF ~Parses(n, d.sps[n.dep].nal)
    THEN [d EXCEPT !.pending_pps = keep_pending(@, n, d.sps[n.dep])]
    ELSE [d EXCEPT !.pending_pps = Without(@, {n.id}),
                   !.pps = Put(@, n.id, [nal |-> n, on |-> d.sps[n.dep]])]

decode_nal(d, n) ==
    CASE n.t = "vps" -> decode_nal_vps(d, n)
      [] n.t = "sps" -> decode_nal_sps(d, n)
      [] n.t = "pps" -> decode_nal_pps(d, n)

-----------------------------------------------------------------------------
(***************************************************************************)
(* Activation.  A pending set whose dependency is absent makes the picture *)
(* wait; one that failed against the present dependency is left alone.     *)
(***************************************************************************)
waits_sps(d, id) ==
    id \in DOMAIN d.pending_sps /\ d.pending_sps[id].nal.dep \notin DOMAIN d.vps

resolve_pending_sps(d, id) ==
    IF \/ id \notin DOMAIN d.pending_sps
       \/ waits_sps(d, id)
       \/ d.pending_sps[id].failed = d.vps[d.pending_sps[id].nal.dep]
    THEN d
    ELSE decode_nal_sps(d, d.pending_sps[id].nal)

waits_pps(d, id) ==
    id \in DOMAIN d.pending_pps /\ d.pending_pps[id].nal.dep \notin DOMAIN d.sps

resolve_pending_pps(d, id) ==
    IF \/ id \notin DOMAIN d.pending_pps
       \/ waits_pps(d, id)
       \/ d.pending_pps[id].failed = d.sps[d.pending_pps[id].nal.dep]
    THEN d
    ELSE decode_nal_pps(d, d.pending_pps[id].nal)

(* The SPS id of the newest PPS with this id, if there is one. *)
needed_sps(d, pps) ==
    IF pps \in DOMAIN d.pending_pps THEN {d.pending_pps[pps].nal.dep}
    ELSE IF pps \in DOMAIN d.pps THEN {d.pps[pps].nal.dep}
    ELSE {}

(* Mutant: a PPS that waits for its SPS does not refuse the picture. *)
ps_activate_stale(d, pps, irap) ==
    LET S == needed_sps(d, pps)
        e == IF S = {} THEN d
             ELSE resolve_pending_sps(d, CHOOSE i \in S : TRUE)
    IN  IF irap /\ \E i \in S : waits_sps(d, i)
        THEN [d |-> d, ok |-> FALSE]
        ELSE [d |-> resolve_pending_pps(e, pps), ok |-> TRUE]

(***************************************************************************)
(* ff_hevc_ps_activate(): the SPS first, since parsing it can make the     *)
(* stored PPS pending.  A waiting SPS refuses IRAP pictures only.          *)
(***************************************************************************)
ps_activate(d, pps, irap) ==
    LET S == needed_sps(d, pps)
        e == IF S = {} THEN d
             ELSE resolve_pending_sps(d, CHOOSE i \in S : TRUE)
    IN  IF irap /\ \E i \in S : waits_sps(d, i)
        THEN [d |-> d, ok |-> FALSE]
        ELSE [d |-> resolve_pending_pps(e, pps), ok |-> ~waits_pps(e, pps)]

(***************************************************************************)
(* The first slice of a picture: the decoder after it, and whether the     *)
(* picture is refused.  Pictures after a refused IRAP picture are refused. *)
(***************************************************************************)
activate_parameter_sets(d, s) ==
    LET a == ps_activate(d, s.pps, s.irap)
    IN  IF s.irap THEN [a EXCEPT !.d.refused = ~a.ok]
        ELSE [a EXCEPT !.ok = @ /\ ~d.refused]

(***************************************************************************)
(* The first slice of a picture that is decoded: after the activation,     *)
(* hls_slice_header() takes the stored PPS and the SPS and VPS behind it,  *)
(* or fails without the PPS.                                               *)
(***************************************************************************)
decode_slice(d, s) ==
    LET a == activate_parameter_sets(d, s)
    IN  [d |-> a.d,
         picture |-> IF ~a.ok \/ s.pps \notin DOMAIN a.d.pps THEN None
                     ELSE [slice |-> s,
                           pps |-> a.d.pps[s.pps].nal,
                           sps |-> a.d.pps[s.pps].on.nal,
                           vps |-> a.d.pps[s.pps].on.on]]

-----------------------------------------------------------------------------
Init ==
    /\ fixed = Empty
    /\ newest = [t \in Kinds |-> Nothing]
    /\ used = None

Arrive(n) ==
    /\ fixed' = decode_nal(fixed, n)
    /\ newest' = [newest EXCEPT ![n.t] = Put(@, n.id, n)]
    /\ used' = None

DecodeSlice(s) ==
    /\ fixed' = decode_slice(fixed, s).d
    /\ used' = decode_slice(fixed, s).picture
    /\ UNCHANGED newest

(* A seek: hevc_decode_flush() keeps the parameter sets. *)
Flush ==
    /\ fixed' = [fixed EXCEPT !.refused = FALSE]
    /\ used' = None
    /\ UNCHANGED newest

Next ==
    \/ \E n \in ParameterSet : Arrive(n)
    \/ \E s \in Slice : DecodeSlice(s)
    \/ Flush

Spec ==
    Init /\ [][Next]_vars

-----------------------------------------------------------------------------
(***************************************************************************)
(* The newest set of every id is never lost, and nothing older is revived: *)
(* it is pending, or nothing is pending under its id and it is stored      *)
(* (keep_pending, remove_sps and remove_vps of the patch).                 *)
(***************************************************************************)
Kept(n, pending, stored) ==
    IF n.id \in DOMAIN pending THEN pending[n.id].nal = n
    ELSE n.id \in DOMAIN stored /\ stored[n.id].nal = n

NewestKept ==
    /\ \A i \in DOMAIN newest["sps"] :
           Kept(newest["sps"][i], fixed.pending_sps, fixed.sps)
    /\ \A i \in DOMAIN newest["pps"] :
           Kept(newest["pps"][i], fixed.pending_pps, fixed.pps)

(***************************************************************************)
(* A picture is decoded with the newest PPS of its id, the newest SPS of   *)
(* that PPS and the newest VPS of that SPS.  An older PPS or SPS stands in *)
(* only for one that fails against its present dependency, and an older    *)
(* SPS also, between IRAP pictures, for one that waits for its VPS         *)
(* (ff_hevc_ps_activate; the README's rules of activation).  Nothing is    *)
(* said of the SPS behind an older PPS: the SPS that is resolved is the    *)
(* one the newest PPS names.                                               *)
(***************************************************************************)
Fails(n, stored) ==
    n.dep \in DOMAIN stored /\ ~Parses(n, stored[n.dep])

UsesNewest ==
    used # None =>
        LET pps == newest["pps"][used.slice.pps]
            sps == newest["sps"][used.pps.dep]
            spss == [i \in DOMAIN fixed.sps |-> fixed.sps[i].nal]
        IN  /\ used.pps = pps \/ Fails(pps, spss)
            /\ used.pps = pps =>
                   \/ used.sps = sps
                   \/ Fails(sps, fixed.vps)
                   \/ ~used.slice.irap /\ sps.dep \notin DOMAIN fixed.vps
            /\ used.vps = newest["vps"][used.sps.dep]

(***************************************************************************)
(* The README's "A pending SPS refuses only IRAP pictures", read for every *)
(* IRAP picture: it is never decoded with the older SPS of one that waits. *)
(* TLC refutes it for an older PPS that stands in for one that fails.      *)
(***************************************************************************)
WaitingSpsRefuses ==
    used # None => ~(used.slice.irap /\ waits_sps(fixed, used.pps.dep))
==============================================================================
