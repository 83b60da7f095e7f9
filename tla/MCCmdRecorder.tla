--------------------------- MODULE MCCmdRecorder ----------------------------
(***************************************************************************)
(* Two files of two processes, opened three times; captures of three       *)
(* pictures, the last two with a slot of five words: a slice header takes  *)
(* four of them, so that the slot is exactly filled by one more word and   *)
(* overflows with two.                                                     *)
(***************************************************************************)
EXTENDS CmdRecorder, TLC

CONSTANTS c1, c2, SCL_OFF

Symmetry == Permutations(Ctx)

(***************************************************************************)
(* A capture with an error keeps one until it is replaced by a fresh one,  *)
(* and what it holds decides nothing before: such captures are not told    *)
(* apart by their errors and contents.                                     *)
(***************************************************************************)
View ==
    IF capture.errors = {} THEN vars
    ELSE <<[capture EXCEPT !.errors = {"any"}], fileVars, jobVars, last_run,
           snapshot # NoReader>>

=============================================================================
