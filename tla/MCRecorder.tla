----------------------------- MODULE MCRecorder -----------------------------
(***************************************************************************)
(* Two files of two processes, two runs, captures of two pictures of which *)
(* the second is detailed, and room for five records: four fit without     *)
(* details, so both the full and the overflowing array occur.              *)
(***************************************************************************)
EXTENDS Recorder, TLC

CONSTANTS c1, c2

Symmetry == Permutations(Ctx)

=============================================================================
