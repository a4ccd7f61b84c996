------------------------------ MODULE MCEnigma ------------------------------
(***************************************************************************)
(* Instances of Enigma for TLC: a few wallets, one or two coins each.      *)
(***************************************************************************)
EXTENDS Enigma, TLC

CONSTANTS s, a, b, s1, s2, a1, a2, b1

\* One coin per wallet.
OwnerOne == s1 :> s @@ a1 :> a @@ b1 :> b

\* A sender and one cloaker.
OwnerPair == s1 :> s @@ a1 :> a

\* Two coins at the sender and at its only cloaker.
OwnerTwo == s1 :> s @@ s2 :> s @@ a1 :> a @@ a2 :> a
=============================================================================
