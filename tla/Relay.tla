-------------------------------- MODULE Relay --------------------------------
(***************************************************************************)
(* How one transaction spreads: a node offers it to its peers ("inv"), a   *)
(* peer that does not have it asks one of those that offered it            *)
(* ("getdata"), and the next one two minutes later if nothing has come.    *)
(* Connections are queues in both directions that may break; some nodes    *)
(* offer the transaction and never answer a request.                       *)
(*                                                                         *)
(* Times are kept relative to the present: an entry of ask is the time     *)
(* left until the request may be sent, asked the time of the last request  *)
(* or of the last one planned, from -RetryDelay (long ago) on.             *)
(***************************************************************************)
EXTENDS Integers, Sequences, FiniteSetsExt

CONSTANTS
    Node,
    Origin,         \* the node that relays the transaction first
    Links,          \* the connections at the start, a set of sets of two nodes
    Fragile,        \* those that may break
    Mute,           \* nodes that do not answer getdata
    RetryDelay      \* two minutes, in ticks

ASSUME RelayAssumption ==
    /\ Origin \in Node /\ Mute \subseteq Node
    /\ \A l \in Links : \E a, b \in Node : a # b /\ l = {a, b}
    /\ Fragile \subseteq Links
    /\ RetryDelay \in Nat \ {0}

VARIABLES
    has,            \* node -> it has the transaction (AlreadyHave)
    links,          \* the connections
    known,          \* known[n][p]: n's setInventoryKnown for p has it
    toSend,         \* toSend[n]: the peers whose vInventoryToSend has it
    ask,            \* ask[n][p]: n's mapAskFor for p, -1 when there is no entry
    asked,          \* asked[n]: n's mapAlreadyAskedFor
    net             \* net[<<n, p>>]: what n sent and p has not handled

vars == <<has, links, known, toSend, ask, asked, net>>

NoAsk == -1
Never == -RetryDelay
Peers(n) == {p \in Node : {n, p} \in links}
Push(n, p, m) == net' = [net EXCEPT ![<<n, p>>] = Append(@, m)]

\* RelayMessage: the transaction is put on the list of every peer that is not
\* known to have it.
Relayed(n, known2) == {p \in Peers(n) : ~known2[n][p]}

RelayInit ==
    /\ has = [n \in Node |-> n = Origin]
    /\ links = Links
    /\ known = [n \in Node |-> [p \in Node |-> FALSE]]
    /\ toSend = [n \in Node |-> {p \in Node : n = Origin /\ {n, p} \in Links}]
    /\ ask = [n \in Node |-> [p \in Node |-> NoAsk]]
    /\ asked = [n \in Node |-> Never]
    /\ net = [q \in Node \X Node |-> <<>>]

\* Mutant of SendInv: an entry that has to wait for its trickle is dropped.
SendInvDropped(n, p) ==
    /\ p \in toSend[n]
    /\ toSend' = [toSend EXCEPT ![n] = @ \ {p}]
    /\ \/ UNCHANGED <<known, net>>
       \/ known' = [known EXCEPT ![n][p] = TRUE] /\ Push(n, p, "inv")
    /\ UNCHANGED <<has, links, ask, asked>>

\* SendMessages: the inventory for p, now or when it is p's turn to be trickled to.
SendInv(n, p) ==
    /\ p \in toSend[n]
    /\ toSend' = [toSend EXCEPT ![n] = @ \ {p}]
    /\ IF known[n][p] THEN UNCHANGED <<known, net>>
       ELSE /\ known' = [known EXCEPT ![n][p] = TRUE]
            /\ Push(n, p, "inv")
    /\ UNCHANGED <<has, links, ask, asked>>

\* SendMessages: an entry of mapAskFor whose time has come.
SendGetData(n, p) ==
    /\ ask[n][p] = 0
    /\ ask' = [ask EXCEPT ![n][p] = NoAsk]
    /\ IF has[n] THEN UNCHANGED <<asked, net>>
       ELSE /\ asked' = [asked EXCEPT ![n] = 0]
            /\ Push(n, p, "getdata")
    /\ UNCHANGED <<has, links, known, toSend>>

\* AskFor: the earliest time for the request.
RequestTime(n) == Max({asked[n] + RetryDelay, 0})

\* Mutant of AskFor: what was asked for is not asked for again.
AskForOnce(n, p) ==
    IF asked[n] # Never THEN UNCHANGED <<ask, asked>>
    ELSE /\ ask' = [ask EXCEPT ![n][p] = RequestTime(n)]
         /\ asked' = [asked EXCEPT ![n] = RequestTime(n)]

AskFor(n, p) ==
    /\ ask' = [ask EXCEPT ![n][p] = RequestTime(n)]
    /\ asked' = [asked EXCEPT ![n] = RequestTime(n)]

Receive(n, p, m) ==
    /\ net[<<p, n>>] # <<>>
    /\ Head(net[<<p, n>>]) = m

Popped(n, p) == [net EXCEPT ![<<p, n>>] = Tail(@)]

HandleInv(n, p) ==
    /\ Receive(n, p, "inv")
    /\ known' = [known EXCEPT ![n][p] = TRUE]
    /\ IF has[n] THEN UNCHANGED <<ask, asked>> ELSE AskFor(n, p)
    /\ net' = Popped(n, p)
    /\ UNCHANGED <<has, links, toSend>>

HandleGetData(n, p) ==
    /\ Receive(n, p, "getdata")
    /\ net' = IF has[n] /\ n \notin Mute
              THEN [Popped(n, p) EXCEPT ![<<n, p>>] = Append(@, "tx")]
              ELSE Popped(n, p)
    /\ UNCHANGED <<has, links, known, toSend, ask, asked>>

\* A transaction we have is refused by AcceptToMemoryPool and not relayed again.
HandleTx(n, p) ==
    /\ Receive(n, p, "tx")
    /\ known' = [known EXCEPT ![n][p] = TRUE]
    /\ IF has[n] THEN UNCHANGED <<has, toSend, asked>>
       ELSE /\ has' = [has EXCEPT ![n] = TRUE]
            /\ toSend' = [toSend EXCEPT ![n] = Relayed(n, known')]
            /\ asked' = [asked EXCEPT ![n] = Never]
    /\ net' = Popped(n, p)
    /\ UNCHANGED <<links, ask>>

\* A connection breaks; what either side kept for the other goes with its CNode.
Disconnect(l) ==
    /\ l \in links \cap Fragile
    /\ links' = links \ {l}
    /\ toSend' = [n \in Node |-> IF n \in l THEN toSend[n] \ l ELSE toSend[n]]
    /\ known' = [n \in Node |-> [p \in Node |-> {n, p} # l /\ known[n][p]]]
    /\ ask' = [n \in Node |-> [p \in Node |-> IF {n, p} = l THEN NoAsk ELSE ask[n][p]]]
    /\ net' = [q \in Node \X Node |-> IF {q[1], q[2]} = l THEN <<>> ELSE net[q]]
    /\ UNCHANGED <<has, asked>>

Tick ==
    /\ ask' = [n \in Node |-> [p \in Node |-> IF ask[n][p] > 0 THEN ask[n][p] - 1 ELSE ask[n][p]]]
    /\ asked' = [n \in Node |-> Max({Never, asked[n] - 1})]
    /\ UNCHANGED <<has, links, known, toSend, net>>

Step(n, p) ==
    \/ SendInv(n, p) \/ SendGetData(n, p)
    \/ HandleInv(n, p) \/ HandleGetData(n, p) \/ HandleTx(n, p)

RelayNext ==
    \/ \E n, p \in Node : Step(n, p)
    \/ \E l \in Fragile : Disconnect(l)
    \/ Tick

\* The message thread serves every peer again and again, and time passes.
RelaySpec ==
    /\ RelayInit /\ [][RelayNext]_vars
    /\ WF_vars(Tick)
    /\ \A n, p \in Node : WF_vars(Step(n, p))

-----------------------------------------------------------------------------
\* A node that has the transaction either still has to offer it to a peer or
\* knows that the peer knows of it (net.h, RelayInventory and PushInventory).
OfferedOrKnown ==
    \A n \in Node : has[n] => \A p \in Peers(n) : known[n][p] \/ p \in toSend[n]

\* Every node that answers gets the transaction, although the first peer it asks
\* may be mute or go away, as long as connections that last join the nodes that
\* answer: another peer is asked two minutes later (net.h, AskFor).
Spreads == \A n \in Node \ Mute : <>has[n]
=============================================================================
