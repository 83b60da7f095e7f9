--------------------------- MODULE MCVp9Session -----------------------------
(***************************************************************************)
(* Two buffers and two slots; two aligned sizes, and one below the         *)
(* minimum.  Registrations may name the timestamps of both slots, as they  *)
(* may in the code when an event gives one or slot 999 is used.  Two       *)
(* replaced queues: content is registered after the first and the          *)
(* registration dropped by the second.                                     *)
(***************************************************************************)
EXTENDS Vp9Session, TLC

CONSTANTS b1, b2

MCBuf == {b1, b2}
MCSize == {<<64, 64>>, <<128, 64>>, <<32, 64>>}
MCOutputSize == {<<128, 64>>}
MCBacking == {sizeimage(<<64, 64>>), sizeimage(<<128, 64>>)}
MCBitDepth == 8
MCTsScale == 1
MCMaxSlots == 2
MCMaxGeneration == 2
MCMaxTs == 2

Symmetry == Permutations(MCBuf)

=============================================================================
