---------------------------- MODULE RecorderCore ----------------------------
(***************************************************************************)
(* The capture that both experimental recorders of the AVD driver keep:    *)
(* experiments/hevc-avd-trace/kernel/avd-trace-core.h, whose fields and    *)
(* transitions experiments/hevc-avd-command-trace/kernel/cmd-core.h        *)
(* repeats.  The C functions update a structure under the recorder's       *)
(* spinlock; here each one is an operator from a capture to a capture.     *)
(*                                                                         *)
(* ATR_PICTURES is 300 and the window of detailed pictures ATR_FIRST to    *)
(* ATR_LAST is 24 to 34; they are parameters here.                         *)
(***************************************************************************)
EXTENDS Naturals

CONSTANTS Pictures, First, Last

ASSUME ExtentAssumption ==
    /\ Pictures \in Nat \ {0}
    /\ First \in Nat
    /\ Last \in Nat

Phase == {"off", "armed", "active", "drained", "sealed"}

Error == {"foreign", "overflow", "extent", "order", "failed", "shape",
          "words_full"}

(***************************************************************************)
(* A null capture pointer and the zeroed structure that status_read prints *)
(* for it are the same value: the capture whose phase is off.              *)
(***************************************************************************)
Off ==
    [run |-> 0, pid |-> 0, context |-> 0, phase |-> "off", errors |-> {},
     pictures |-> 0, completions |-> 0, pending |-> 0]

Armed(run, pid) ==
    [Off EXCEPT !.run = run, !.pid = pid, !.phase = "armed"]

Capture(Run, Pid) ==
    [run : Run \cup {0}, pid : Pid \cup {0}, context : Nat, phase : Phase,
     errors : SUBSET Error, pictures : Nat, completions : Nat, pending : Nat]

Recording(c) ==
    c.phase \in {"armed", "active", "drained"}

If(cond, error) ==
    IF cond THEN {error} ELSE {}

Flag(c, errors) ==
    [c EXCEPT !.errors = @ \cup errors]

(***************************************************************************)
(* A probe by the traced process itself is harmless; anybody else's open   *)
(* is an error while the capture is being made.                            *)
(***************************************************************************)
atr_open(c, pid) ==
    Flag(c, If(Recording(c) /\ pid # c.pid, "foreign"))

(* Mutant: work after the bound context has closed is not noticed. *)
atr_bind_drained(c, pid, context, hevc) ==
    IF c.phase = "armed" /\ pid = c.pid /\ hevc
    THEN [c EXCEPT !.context = context, !.phase = "active"]
    ELSE Flag(c, If(/\ c.phase \in {"armed", "active"}
                    /\ context # c.context \/ ~hevc, "foreign"))

(***************************************************************************)
(* The first HEVC job of the traced process binds its context; any other   *)
(* job, before, during or after, is foreign.                               *)
(***************************************************************************)
atr_bind(c, pid, context, hevc) ==
    IF c.phase = "armed" /\ pid = c.pid /\ hevc
    THEN [c EXCEPT !.context = context, !.phase = "active"]
    ELSE Flag(c, If(/\ Recording(c)
                    /\ context # c.context \/ ~hevc \/ c.phase = "drained",
                    "foreign"))

atr_selected(c, context) ==
    c.phase = "active" /\ context = c.context

detail(c) ==
    c.pictures \in First..Last

(***************************************************************************)
(* good_shape: one slice, no entry points, an entry array of a sane size.  *)
(***************************************************************************)
atr_start(c, context, good_shape) ==
    IF ~atr_selected(c, context)
    THEN c
    ELSE [c EXCEPT !.pictures = @ + 1,
                   !.pending = c.pictures + 1,
                   !.errors = @ \cup If(c.pending # 0, "order")
                                \cup If(c.pictures + 1 > Pictures, "extent")
                                \cup If(~good_shape, "shape")]

atr_done(c, context, success) ==
    IF ~atr_selected(c, context)
    THEN c
    ELSE [c EXCEPT !.pending = 0,
                   !.completions = @ + 1,
                   !.errors = @ \cup If(c.pending = 0, "order")
                                \cup If(~success, "failed")]

atr_close(c, context) ==
    IF ~atr_selected(c, context)
    THEN c
    ELSE [c EXCEPT !.phase = "drained",
                   !.errors = @ \cup If(\/ c.pictures # Pictures
                                        \/ c.completions # Pictures
                                        \/ c.pending # 0, "extent")]

CanSeal(c) ==
    c.phase \in {"drained", "armed"}

(***************************************************************************)
(* A capture that never bound a context is sealed as an incomplete one.    *)
(***************************************************************************)
atr_seal(c) ==
    [c EXCEPT !.phase = "sealed",
              !.errors = @ \cup If(c.phase = "armed", "extent")]

=============================================================================
