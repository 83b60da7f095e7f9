----------------------------- MODULE MCCampaign -----------------------------
(***************************************************************************)
(* The four workloads of one of the two vectors, in the order of the plan, *)
(* and a worker that is started twice on the same output root.             *)
(***************************************************************************)
EXTENDS Campaign

MCVectors == {"B"}
MCRows ==
    LET TheRow(client, copy) == [vector |-> "B", client |-> client, copy |-> copy]
    IN  <<TheRow("va", FALSE), TheRow("va", TRUE),
          TheRow("gst", FALSE), TheRow("gst", TRUE)>>
MCMaxStarts == 2

=============================================================================
