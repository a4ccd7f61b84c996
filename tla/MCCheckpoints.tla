---------------------------- MODULE MCCheckpoints ----------------------------
(***************************************************************************)
(* Instances of Checkpoints for TLC, over the block tree of MCBestChain.   *)
(***************************************************************************)
EXTENDS Checkpoints, MCBestChain

OneKey == <<"k1">>
OnlyGenesis == <<{g}>>

\* The second version has a key of its own and a hardened checkpoint more.
TwoKeys == <<"k1", "k2">>
HardenedLater == <<{g}, {g, a1}>>
=============================================================================
