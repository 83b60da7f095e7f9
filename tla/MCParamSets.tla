---------------------------- MODULE MCParamSets ----------------------------
EXTENDS ParameterFixtures

MCContents == {"A", "B", "C", "D", "E", "G", "H", "T"}

(* T's SPS has two sub-layers; D's PPS needs a larger CTB than E's. *)
MCFits(t, c, e) ==
    /\ ~(t = "sps" /\ c = "T" /\ e # "T")
    /\ ~(t = "pps" /\ c = "D" /\ e = "E")

Sets(t, ids, deps, cs) ==
    [t : {t}, id : ids, dep : deps, c : cs, ok : {TRUE}]

MCLetters ==
    Sets("vps", {0, 1}, {0}, {"A", "T"})
        \cup Sets("sps", {0}, {0, 1}, {"E", "T"})
        \cup Sets("sps", {1}, {0}, {"E", "T"})
        \cup Sets("pps", {0}, {0, 1}, {"D", "E"})

MCSlices ==
    [pps : {0}, irap : BOOLEAN]
=============================================================================
