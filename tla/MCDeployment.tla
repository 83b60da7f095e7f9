---------------------------- MODULE MCDeployment ----------------------------
(* Deployment with four outputs, two selected ones of E and one of B.      *)
EXTENDS Deployment

MCSlots == [v \in Vectors |-> IF v = "E" THEN 2 ELSE 1]

MCSelected == [k \in Keys |->
    CASE k = <<"gst", "E">> -> <<1, 2>>
      [] k = <<"va", "E">> -> <<2, 3>>
      [] OTHER -> <<1>>]

(* Output order over decode order; the last input of the second one comes  *)
(* before its output ordinal.                                              *)
Rows(order) == [i \in 1..Len(order) |-> [frame |-> order[i], pic |-> order[i] + 1]]
Orders == {<<0, 2, 1, 3>>, <<0, 3, 1, 2>>}

Event(i) == [failed |-> FALSE, capture |-> TRUE, asked |-> 1, given |-> 1, index |-> i]
Retried == [Event(1) EXCEPT !.failed = TRUE]
Several == [Event(0) EXCEPT !.asked = 4, !.given = 4]
Pools == {<<Several, Event(0), Retried, Event(1)>>, <<Event(1)>>}

Plain == <<"vps", "sps", "pps", "vcl", "vcl">>
Longer == <<"vps", "sps", "pps", "other", "vcl">>
Late == <<"vps", "sps", "pps", "vcl", "pps">>
MCCorpora == {[v \in Vectors |-> n] : n \in {Plain, Longer, Late}}

MCDerivations ==
    {[assoc |-> [k \in Keys |-> Rows(o)], trace |-> [v \in Vectors |-> p], nals |-> c] :
       o \in Orders, p \in Pools, c \in MCCorpora}

(* Tables over small rows: one vector varies, the other is a good one. *)
Row(k, s, last, count, pool, changes) ==
    [domain |-> Domain(k[1]), selectors |-> s, last |-> last, count |-> count,
     pool |-> IF k[1] = "gst" THEN pool ELSE None,
     reserve |-> IF k[1] = "gst" THEN Len(s) ELSE None,
     changes |-> changes]

Varied(k) == {Row(k, s, last, count, pool, changes) :
    s \in {<<0, 1>>, <<1, 1>>, <<2, 0>>, <<1>>}, last \in 0..2, count \in 2..3,
    pool \in 2..3, changes \in {<<>>, <<2>>, <<3, 2>>}}

MCTables == {[k \in Keys |-> CASE k = <<"va", "E">> -> v
                               [] k = <<"gst", "E">> -> g
                               [] OTHER -> Row(k, <<1>>, 1, 2, 2, <<>>)] :
               v \in Varied(<<"va", "E">>), g \in Varied(<<"gst", "E">>)}

(* Nothing happens after a refusal or a complete campaign. *)
MCView == IF pc \in {"refused", "complete"} THEN <<pc>> ELSE vars
=============================================================================
