----------------------------- MODULE MCSameRun ------------------------------
EXTENDS SameRun, TLC

MCStreams == {[poc |-> <<0, 2, 1>>, show |-> <<1, 3, 2>>]}
MCSelections == {<<3, 1>>}
MCSymmetry ==
    Permutations(ReqFds) \cup Permutations(OutBufs) \cup Permutations(Stamps)

(* Nothing follows a rejection, and a join reads the decoded pictures and  *)
(* the records of the adapter only.                                        *)
MCView ==
    CASE verdict = "rejected" -> <<"rejected">>
      [] verdict = "accepted" ->
            <<form, stream, life.pics, joined,
              [i \in Pic |-> [jobs[i] EXCEPT !.fd = None, !.out = NoOut]]>>
      [] OTHER -> vars
=============================================================================
