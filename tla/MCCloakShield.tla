---------------------------- MODULE MCCloakShield ----------------------------
(***************************************************************************)
(* A small network for CloakShield: four nodes in a ring, so that there    *)
(* are two ways from a to c, and one message of each kind.                 *)
(***************************************************************************)
EXTENDS CloakShield, TLC

CONSTANTS a, b, c, d, m1, m2, m3, m4

RingPeers == (a :> {b, d}) @@ (b :> {a, c}) @@ (c :> {b, d}) @@ (d :> {a, c})

\* c has heard of one relay only.
RingKnown == [n \in Node |-> IF n = c THEN {d} ELSE Node \ {n}]

\* m1 and m2 go from a to c, m3 from c to a; m4 is a transaction of b.
SourceOf == (m1 :> a) @@ (m2 :> a) @@ (m3 :> c) @@ (m4 :> b)
RecipientsOf == (m1 :> {c}) @@ (m2 :> {c}) @@ (m3 :> {a}) @@ (m4 :> {})
=============================================================================
