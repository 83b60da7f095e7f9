----------------------------- MODULE MCRebuild ------------------------------
(***************************************************************************)
(* Two kernels and two versions of the patches, all of which the second    *)
(* kernel has upstream in the second version; two concurrent rebuilds.     *)
(***************************************************************************)
EXTENDS Rebuild, TLC

CONSTANTS p1, p2

MCKernel == {1, 2}
MCProc == {p1, p2}

\* one rebuild at a time
MCOneProc == {p1}

MCUpstream == {<<2, 2>>}
MCMaxVersion == 2

\* one rebuild by hand, hook or install.sh, and those of the boot service
MCMaxStarts == 1

\* one crash or failed command
MCMaxFaults == 1

\* none
MCNoFaults == 0

Symmetry == Permutations(MCProc)

=============================================================================
