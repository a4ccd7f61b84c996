------------------------------- MODULE Delivery -------------------------------
(***************************************************************************)
(* What the Enigma protocol expects of CloakShield: a message is handed to  *)
(* each node that may read it at most once, and only after it was sent.     *)
(* Nothing says when, in which order or whether.                            *)
(***************************************************************************)
EXTENDS Naturals

CONSTANTS Node, Message, Readers

VARIABLES sent, handled

Init == /\ sent = {}
        /\ handled = [n \in Node |-> [m \in Message |-> 0]]

Send(m) == sent' = sent \cup {m} /\ UNCHANGED handled

Deliver(n, m) == /\ m \in sent
                 /\ n \in Readers[m]
                 /\ handled[n][m] = 0
                 /\ handled' = [handled EXCEPT ![n][m] = 1]
                 /\ UNCHANGED sent

Next == \/ \E m \in Message : Send(m)
        \/ \E n \in Node, m \in Message : Deliver(n, m)

Spec == Init /\ [][Next]_<<sent, handled>>
=============================================================================
