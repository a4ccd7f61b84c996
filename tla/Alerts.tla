------------------------------- MODULE Alerts -------------------------------
(***************************************************************************)
(* The alerts one node lists, as signed alerts reach it from its peers in  *)
(* any order, again and again, while they cancel one another and expire.   *)
(***************************************************************************)
EXTENDS Naturals, FiniteSets

CONSTANTS
    Alert,          \* records: id, cancel, cancels (setCancel), expires, reserved
                    \* (id is the reserved one), sound (as a reserved alert must be)
    Peer,
    MaxTime,        \* bound: the clock
    MaxScore        \* bound: nMisbehavior, in steps of 10

ASSUME AlertsAssumption ==
    /\ \A a \in Alert : /\ {a.id, a.cancel, a.expires} \subseteq Nat /\ a.cancels \subseteq Nat
                        /\ {a.reserved, a.sound} \subseteq BOOLEAN
    /\ {MaxTime, MaxScore} \subseteq Nat

VARIABLES
    mapAlerts,
    setKnownAlerts, \* peer -> setKnownAlerts
    score,          \* peer -> nMisbehavior
    now

alertVars == <<mapAlerts, setKnownAlerts, score, now>>

IsInEffect(a) == now < a.expires
Cancels(a, b) == IsInEffect(a) /\ (b.id <= a.cancel \/ b.id \in a.cancels)

\* Mutant of Cleared: only expired alerts go.
ClearedExpired(a) == {b \in mapAlerts : IsInEffect(b)}

\* ProcessAlert: what the alert removes from the list, before it is looked at.
Cleared(a) == {b \in mapAlerts : ~Cancels(a, b) /\ IsInEffect(b)}

\* ProcessAlert gives up before it touches the list.
Ignored(a) == ~IsInEffect(a) \/ (a.reserved /\ ~a.sound)

\* The alert is refused although it has cleared the list.
Cancelled(a) == \E b \in Cleared(a) : Cancels(b, a)

AlertsInit ==
    /\ mapAlerts = {} /\ now = 0
    /\ setKnownAlerts = [p \in Peer |-> {}] /\ score = [p \in Peer |-> 0]

Refuse(p) == score' = [score EXCEPT ![p] = @ + 1]

\* The handler of "alert"; RelayTo marks the alert as known for every peer.
HandleAlert(p, a) ==
    /\ a \notin setKnownAlerts[p]
    /\ score[p] < MaxScore
    /\ \/ /\ Ignored(a)
          /\ Refuse(p)
          /\ UNCHANGED <<mapAlerts, setKnownAlerts>>
       \/ /\ ~Ignored(a) /\ Cancelled(a)
          /\ mapAlerts' = Cleared(a)
          /\ Refuse(p)
          /\ UNCHANGED setKnownAlerts
       \/ /\ ~Ignored(a) /\ ~Cancelled(a)
          /\ mapAlerts' = Cleared(a) \cup {a}
          /\ setKnownAlerts' = [q \in Peer |-> setKnownAlerts[q] \cup {a}]
          /\ UNCHANGED score
    /\ UNCHANGED now

\* A peer goes and another takes its place: the "version" handler relays the list.
NewPeer(p) ==
    /\ setKnownAlerts' = [setKnownAlerts EXCEPT ![p] = {a \in mapAlerts : IsInEffect(a)}]
    /\ score' = [score EXCEPT ![p] = 0]
    /\ UNCHANGED <<mapAlerts, now>>

AlertsTick ==
    /\ now < MaxTime
    /\ now' = now + 1
    /\ UNCHANGED <<mapAlerts, setKnownAlerts, score>>

AlertsNext ==
    \/ \E p \in Peer : NewPeer(p) \/ \E a \in Alert : HandleAlert(p, a)
    \/ AlertsTick

AlertsSpec == AlertsInit /\ [][AlertsNext]_alertVars

-----------------------------------------------------------------------------
\* In whatever order alerts, their replacements and old copies of them arrive, no
\* alert is listed beside one that cancels it (alert.cpp, ProcessAlert).
NoneCancelledListed ==
    \A a, b \in mapAlerts : a # b => ~Cancels(a, b)

=============================================================================
