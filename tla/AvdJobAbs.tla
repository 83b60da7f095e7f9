----------------------------- MODULE AvdJobAbs ------------------------------
(***************************************************************************)
(* What the job tracking of the AVD driver promises mem2mem: one job at a  *)
(* time, owned by exactly one party.  The driver builds it, may hand it to *)
(* the hardware, and someone claims it before it ends; only a claimed job  *)
(* ends, and the next one begins after that.                               *)
(***************************************************************************)
CONSTANTS Ctx, NoCtx
VARIABLES ctx, owner

vars == <<ctx, owner>>

Init == ctx = NoCtx /\ owner = "none"

Begin(c) == owner = "none" /\ ctx' = c /\ owner' = "driver"
HandOver == owner = "driver" /\ owner' = "hardware" /\ UNCHANGED ctx
Claim == owner \in {"driver", "hardware"} /\ owner' = "finisher" /\ UNCHANGED ctx
End == owner = "finisher" /\ owner' = "none" /\ ctx' = NoCtx

Next == HandOver \/ Claim \/ End \/ \E c \in Ctx : Begin(c)

Spec == Init /\ [][Next]_vars
=============================================================================
