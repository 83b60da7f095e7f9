------------------------------ MODULE MCAvdJob ------------------------------
(* Model values for AvdJob.                                                *)
EXTENDS AvdJob, TLC

CONSTANTS a, b, t1, t2

MCCtx == {a, b}
MCThread == {t1, t2}
=============================================================================
