-------------------------- MODULE ParameterFixtures --------------------------
(***************************************************************************)
(* The regression of experiments/hevc-parameter-sets: run.py builds        *)
(* streams out of encoded components with the rewriter hevcnal.py, decodes *)
(* each with the unpatched and with the patched decoder and judges both.   *)
(* With --suite-reorder it also decodes a stream whose runs of parameter   *)
(* sets have been reversed.                                                *)
(*                                                                         *)
(* A stream is either a fixture or any sequence over Letters.  The rewrite *)
(* of a field is an update of that field of the parameter set.  A          *)
(* component has three pictures, the first and the last an IRAP picture,   *)
(* each IRAP picture preceded by the component's parameter sets.  The      *)
(* frame that a picture shows is right when its PPS and SPS are those of   *)
(* its own component.  Pixels, timing, memory, threads and the padding of  *)
(* the sets of vps_churn are left out.                                     *)
(***************************************************************************)
EXTENDS ParamSets, SequencesExt

CONSTANTS
    Letters,    \* parameter sets of a stream that is no fixture
    Slices,     \* its slices
    MaxSets,    \* bound: how many parameter sets it has
    MaxSlices,  \* bound: how many slices it has
    Flood       \* bound: how often the flood fixtures repeat

ASSUME FixturesAssumption ==
    /\ Letters \subseteq ParameterSet
    /\ {MaxSets, MaxSlices, Flood} \subseteq Nat

VARIABLES
    fixture,    \* the fixture decoded, or None
    left,       \* what is left of it
    base,       \* the unpatched decoder
    shown,      \* the frames each decoder has put out
    run,        \* the parameter sets since the last slice
    moved,      \* the patched decoder of the reordered stream
    movedUsed,  \* as used, for the reordered stream
    sets, slices

fixtureVars == <<fixture, left, base, shown>>
movedVars == <<run, moved, movedUsed>>
allVars == <<vars, fixtureVars, movedVars, sets, slices>>

-----------------------------------------------------------------------------
(* The rewriter. *)

set_vps_id(n, vps) ==
    [n EXCEPT !.id = vps]

set_sps_ids(n, vps, sps) ==
    [n EXCEPT !.dep = vps, !.id = sps]

set_pps_id(n, pps) ==
    [n EXCEPT !.id = pps]

set_pps_sps_id(n, sps) ==
    [n EXCEPT !.dep = sps]

(* chroma_format_idc 4 is invalid. *)
set_sps_chroma_format_idc(n) ==
    [n EXCEPT !.ok = FALSE]

(* num_ref_idx_l0_default_active_minus1 15 is invalid. *)
set_pps_num_ref_idx(n) ==
    [n EXCEPT !.ok = FALSE]

(* One bit short: a parse with the exact length reads past the end. *)
drop_payload_bits(n) ==
    [n EXCEPT !.ok = FALSE]

(* The ids are in the part that is kept. *)
truncate_rbsp(n) ==
    [n EXCEPT !.ok = FALSE]

-----------------------------------------------------------------------------
(* What libx265 makes of a component's source. *)

VPS(c) == [t |-> "vps", id |-> 0, dep |-> 0, c |-> c, ok |-> TRUE]
SPS(c) == [t |-> "sps", id |-> 0, dep |-> 0, c |-> c, ok |-> TRUE]
PPS(c) == [t |-> "pps", id |-> 0, dep |-> 0, c |-> c, ok |-> TRUE]

Picture(c, n, irap) ==
    [t |-> "slice", pps |-> 0, irap |-> irap, c |-> c, n |-> n]

Headers(c) ==
    <<VPS(c), SPS(c), PPS(c)>>

Canonical(c) ==
    Headers(c) \o <<Picture(c, 1, TRUE), Picture(c, 2, FALSE)>>
        \o Headers(c) \o <<Picture(c, 3, TRUE)>>

(* Component.rest: all but the parameter sets. *)
Rest(c) ==
    SelectSeq(Canonical(c), LAMBDA n : n.t = "slice")

(* Up to the picture in the middle of the first GOP, and from it on. *)
Before(c) == SubSeq(Canonical(c), 1, 4)
After(c) == SubSeq(Canonical(c), 5, 9)

Fx(nals, expected, kind) ==
    [nals |-> nals, expected |-> expected, kind |-> kind]

Times(s, n) ==
    FlattenSeq([i \in 1..n |-> s])

(***************************************************************************)
(* The streams of build_fixtures(), by name, with the components whose     *)
(* frames are expected and the kind.  The truncated last slice is kept as  *)
(* a picture, since both decoders get the same one.                        *)
(***************************************************************************)
Unchanged ==
    [canonical_a |-> Fx(Canonical("A"), <<"A">>, "unchanged"),
     canonical_crop_c |-> Fx(Canonical("C"), <<"C">>, "unchanged"),
     truncated_tail_a |-> Fx(Canonical("A"), <<>>, "same-as-base")]

Delayed ==
    [reversed_order |->
         Fx(Reverse(Headers("A")) \o Rest("A"), <<"A">>, "delayed"),
     remapped_ids |->
         Fx(<<set_pps_sps_id(PPS("A"), 5), set_sps_ids(SPS("A"), 3, 5),
              set_vps_id(VPS("A"), 3)>> \o Rest("A"), <<"A">>, "delayed"),
     resolution_changes |->
         Fx(Canonical("A")
            \o <<set_pps_sps_id(PPS("B"), 4), set_sps_ids(SPS("B"), 2, 4),
                 set_vps_id(VPS("B"), 2)>> \o Rest("B")
            \o <<set_sps_ids(SPS("C"), 5, 6), set_pps_sps_id(PPS("C"), 6),
                 set_vps_id(VPS("C"), 5)>> \o Rest("C"),
            <<"A", "B", "C">>, "delayed"),
     pps_before_replacement_sps |->
         Fx(Canonical("A") \o <<VPS("B"), PPS("B"), SPS("B")>> \o Rest("B"),
            <<"A", "B">>, "delayed"),
     sps_before_replacement_vps |->
         Fx(Canonical("A") \o <<SPS("B"), PPS("B"), VPS("B")>> \o Rest("B"),
            <<"A", "B">>, "delayed"),
     pending_across_access_units |->
         Fx(Before("A") \o <<set_sps_ids(SPS("B"), 2, 4)>> \o After("A")
            \o <<set_vps_id(VPS("B"), 2), set_pps_sps_id(PPS("B"), 4)>>
            \o Rest("B"), <<"A", "B">>, "delayed"),
     pps_survives_intermediate |->
         Fx(<<VPS("D"), PPS("D"), SPS("E"), SPS("D")>> \o Rest("D"),
            <<"D">>, "delayed"),
     pps_survives_present |->
         Fx(<<VPS("D"), SPS("E"), PPS("D"), SPS("D")>> \o Rest("D"),
            <<"D">>, "delayed"),
     sps_survives_present |->
         Fx(<<VPS("A"), SPS("T"), PPS("T"), VPS("T")>> \o Rest("T"),
            <<"T">>, "delayed"),
     malformed_pending_sps |->
         Fx(<<VPS("A"), truncate_rbsp(set_sps_ids(SPS("A"), 7, 0)),
              set_vps_id(VPS("A"), 7), PPS("A")>> \o Rest("A")
            \o <<SPS("A")>> \o Rest("A"), <<"A">>, "delayed")]

Replaced ==
    [invalid_replacement_sps |->
         Fx(Canonical("A")
            \o <<set_sps_chroma_format_idc(set_sps_ids(SPS("A"), 7, 0)),
                 set_vps_id(VPS("A"), 7)>> \o Rest("A"), <<"A", "A">>, "kept"),
     invalid_replacement_pps |->
         Fx(Canonical("A")
            \o <<set_pps_num_ref_idx(set_pps_sps_id(PPS("A"), 9)),
                 set_sps_ids(SPS("A"), 0, 9)>> \o Rest("A"),
            <<"A", "A">>, "kept"),
     unresolved_replacement_pps |->
         Fx(Canonical("A")
            \o <<set_vps_id(VPS("B"), 3), set_pps_sps_id(PPS("B"), 9)>>
            \o Rest("B") \o <<set_sps_ids(SPS("B"), 3, 9)>> \o Rest("B"),
            <<"A", "B">>, "delayed"),
     unresolved_replacement_sps |->
         Fx(Canonical("A") \o <<set_sps_ids(SPS("H"), 3, 0), PPS("H")>>
            \o Rest("H") \o <<set_vps_id(VPS("H"), 3)>> \o Rest("H"),
            <<"A", "H">>, "delayed"),
     stale_sps |->
         Fx(Canonical("A")
            \o <<set_sps_ids(SPS("A"), 7, 0), VPS("B"), SPS("B"),
                 set_vps_id(VPS("A"), 7), PPS("B")>> \o Rest("B"),
            <<"A", "B">>, "stale"),
     stale_pps |->
         Fx(Canonical("A")
            \o <<VPS("B"), SPS("B"), set_pps_sps_id(PPS("A"), 9), PPS("B"),
                 set_sps_ids(SPS("A"), 0, 9)>> \o Rest("B"),
            <<"A", "B">>, "stale"),
     missing_dependency |->
         Fx(<<VPS("A"), SPS("A"), set_pps_sps_id(PPS("A"), 9)>> \o Rest("A")
            \o Canonical("B"), <<"B">>, "missing")]

Damaged ==
    [exact_length |->
         Fx(<<PPS("A"), drop_payload_bits(SPS("A")), VPS("A")>> \o Rest("A")
            \o <<SPS("A"), PPS("A")>> \o Rest("A"), <<"A">>, "equivalent"),
     corrupted_repeat_sps |->
         Fx(Before("G") \o <<set_sps_ids(SPS("G"), 9, 0)>> \o After("G"),
            <<"G">>, "kept"),
     corrupted_repeat_pps |->
         Fx(Before("G") \o <<set_pps_sps_id(PPS("G"), 9)>> \o After("G"),
            <<"G">>, "impact"),
     flood_and_churn |->
         Fx(Headers("A")
            \o FlattenSeq([i \in 1..Flood |->
                   <<set_pps_sps_id(set_pps_id(PPS("A"), i), i),
                     set_sps_ids(SPS("A"), i, i)>>])
            \o Times(<<SPS("B"), SPS("A")>>, Flood)
            \o <<SPS("A"), PPS("A")>> \o Rest("A"), <<"A">>, "bounded"),
     vps_churn |->
         Fx(<<VPS("A")>>
            \o [i \in 1..Flood |->
                    set_sps_ids(SPS("A"), 0, i - 1)]
            \o [i \in 1..2 * Flood |->
                    set_pps_sps_id(set_pps_id(PPS("A"), i - 1),
                                   (i - 1) % Flood)]
            \o Times(<<VPS("B"), VPS("A")>>, Flood) \o Canonical("A"),
            <<"A">>, "bounded")]

Fixtures ==
    Over(Over(Unchanged, Delayed), Over(Replaced, Damaged))

(* Whether the unpatched build must show what is expected. *)
UNPATCHED_MATCHES(kind) ==
    CASE kind = "delayed" -> {FALSE}
      [] kind = "equivalent" -> BOOLEAN
      [] OTHER -> {TRUE}

-----------------------------------------------------------------------------
(***************************************************************************)
(* The decoder without the patch: what cannot be parsed on arrival is      *)
(* discarded, and what a replaced set carried goes with it.                *)
(***************************************************************************)
base_nal(d, n) ==
    LET e == decode_nal(d, n)
    IN  [e EXCEPT !.pending_sps = Nothing, !.pending_pps = Nothing]

base_slice(d, s) ==
    IF s.pps \notin DOMAIN d.pps THEN None
    ELSE [slice |-> s, pps |-> d.pps[s.pps].nal, sps |-> d.pps[s.pps].on.nal]

(***************************************************************************)
(* The frames that a picture adds.  What a slice shows that is decoded     *)
(* with another component's sets, if anything, is not known.               *)
(***************************************************************************)
Frames(picture) ==
    IF picture = None THEN {<<>>}
    ELSE IF {picture.pps.c, picture.sps.c} = {picture.slice.c}
    THEN {<<<<picture.slice.c, picture.slice.n>>>>}
    ELSE {<<>>, <<None>>}

(* expected_output(): the unpatched decode of the components themselves. *)
expected_output(components) ==
    FlattenSeq([i \in DOMAIN components |->
                    [n \in 1..3 |-> <<components[i], n>>]])

(***************************************************************************)
(* The verdict on a fixture's frames.  Frames may be refused in an impact  *)
(* fixture, but not all of them, and none may be invented.  The exit       *)
(* statuses, the messages a fixture forbids and the sanitizer build are    *)
(* about what the model leaves out.                                        *)
(***************************************************************************)
fixture_passes(fx) ==
    LET exp == IF fx.kind = "same-as-base" THEN shown.base
               ELSE expected_output(fx.expected)
    IN  /\ IF fx.kind = "impact"
           THEN /\ shown.fixed =
                      SelectSeq(exp, LAMBDA f : f \in Range(shown.fixed))
                /\ Len(shown.fixed) \in 1..(Len(exp) - 1)
           ELSE shown.fixed = exp
        /\ (shown.base = exp) \in UNPATCHED_MATCHES(fx.kind)

-----------------------------------------------------------------------------
ps_key(n) ==
    <<n.t, n.id>>

(***************************************************************************)
(* A run of parameter sets is reversed unless it holds an id twice.        *)
(***************************************************************************)
reorder_parameter_sets(r) ==
    IF IsInjective([i \in DOMAIN r |-> ps_key(r[i])]) THEN Reverse(r) ELSE r

(* A parameter set reaches the three decoders; the run is decoded late. *)
StreamSet(n) ==
    /\ Arrive(n)
    /\ run' = Append(run, n)
    /\ base' = base_nal(base, n)
    /\ movedUsed' = None
    /\ UNCHANGED <<moved, shown>>

StreamSlice(s) ==
    LET m == decode_slice(FoldLeft(decode_nal, moved,
                                   reorder_parameter_sets(run)), s)
    IN  /\ DecodeSlice(s)
        /\ run' = <<>>
        /\ moved' = m.d
        /\ movedUsed' = m.picture
        /\ UNCHANGED base

StreamFlush ==
    /\ Flush
    /\ run = <<>>
    /\ moved' = [moved EXCEPT !.refused = FALSE]
    /\ movedUsed' = None
    /\ UNCHANGED <<run, base, shown>>

(* run_fixtures(): the next NAL unit of the fixture. *)
Replay ==
    /\ left # <<>>
    /\ LET n == Head(left)
       IN  \/ n.t # "slice" /\ StreamSet(n)
           \/ /\ n.t = "slice"
              /\ StreamSlice(n)
              /\ \E b \in Frames(base_slice(base, n)), f \in Frames(used') :
                     shown' = [base |-> shown.base \o b,
                               fixed |-> shown.fixed \o f]
    /\ left' = Tail(left)
    /\ UNCHANGED <<fixture, sets, slices>>

(* A stream that is no fixture; it may begin with a picture of E. *)
Opening ==
    Headers("E") \o <<Picture("E", 1, TRUE)>>

FreeSet ==
    /\ fixture = None /\ left = <<>>
    /\ sets < MaxSets
    /\ \E n \in Letters : StreamSet(n)
    /\ sets' = sets + 1
    /\ UNCHANGED <<fixture, left, slices>>

FreeSlice ==
    /\ fixture = None /\ left = <<>>
    /\ slices < MaxSlices
    /\ \E s \in Slices : StreamSlice(s)
    /\ slices' = slices + 1
    /\ UNCHANGED <<fixture, left, shown, sets>>

FreeFlush ==
    /\ fixture = None /\ left = <<>>
    /\ slices \in 1..(MaxSlices - 1)
    /\ StreamFlush
    /\ UNCHANGED <<fixture, left, sets, slices>>

FixInit ==
    /\ Init
    /\ fixture \in DOMAIN Fixtures \cup {None}
    /\ left \in IF fixture = None THEN {<<>>, Opening}
               ELSE {Fixtures[fixture].nals}
    /\ base = Empty
    /\ shown = [base |-> <<>>, fixed |-> <<>>]
    /\ run = <<>>
    /\ moved = Empty
    /\ movedUsed = None
    /\ sets = 0
    /\ slices = 0

FixNext ==
    Replay \/ FreeSet \/ FreeSlice \/ FreeFlush

FixSpec ==
    FixInit /\ [][FixNext]_allVars

-----------------------------------------------------------------------------
(***************************************************************************)
(* Every fixture of run.py passes: the patched decoder shows exactly the   *)
(* expected frames, and the unpatched one does or does not, as the kind of *)
(* the fixture says (the table of the README).                             *)
(***************************************************************************)
FixturesPass ==
    fixture # None /\ left = <<>> => fixture_passes(Fixtures[fixture])

(***************************************************************************)
(* Reversing the runs of parameter sets that hold no id twice changes no   *)
(* picture whose newest PPS, SPS and VPS are all there and fit (the        *)
(* reorder gate of run_suite).  Only pictures between IRAP pictures may    *)
(* differ, after an IRAP picture with sets that do not fit was refused in  *)
(* one order and failed in the other.                                      *)
(***************************************************************************)
Whole(pps) ==
    /\ pps \in DOMAIN newest["pps"]
    /\ LET p == newest["pps"][pps]
       IN  /\ p.dep \in DOMAIN newest["sps"]
           /\ LET q == newest["sps"][p.dep]
              IN  /\ Parses(p, q)
                  /\ q.dep \in DOMAIN newest["vps"]
                  /\ Parses(q, newest["vps"][q.dep])

IsIrap(picture) ==
    picture # None /\ picture.slice.irap

OrderIrrelevant ==
    run = <<>> /\ Whole(0) /\ movedUsed # used =>
        /\ moved.refused # fixed.refused
        /\ ~IsIrap(used) /\ ~IsIrap(movedUsed)
==============================================================================
