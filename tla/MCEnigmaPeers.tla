---------------------------- MODULE MCEnigmaPeers ----------------------------
(***************************************************************************)
(* Instances of EnigmaPeers for TLC.                                       *)
(***************************************************************************)
EXTENDS EnigmaPeers

CONSTANTS a, b, c

Triangle == {<<a, b>>, <<b, c>>, <<c, a>>}
=============================================================================
