----------------------------- MODULE CloakShield -----------------------------
(***************************************************************************)
(* CloakShield: how Enigma messages travel.  A packet (CCloakingData) is    *)
(* flooded: every node passes it on the first time it sees its hash.  A     *)
(* node that may decrypt it opens it: a message goes to its handler, a      *)
(* relay packet holds another packet, which is flooded and opened in turn.  *)
(* Onion routing wraps a packet in such layers, once per route.  The hash   *)
(* (GetSigningHash) covers all of a packet but its hop count and signature, *)
(* so the packet itself stands for it here.                                 *)
(***************************************************************************)
EXTENDS Naturals, Sequences, FiniteSets

CONSTANTS
    Node,        \* the nodes that run Enigma
    Peers,       \* Peers[n]: the nodes n is connected to
    Known,       \* Known[n]: the nodes whose announcement n holds
    Message,     \* the messages of a run, each sent at most once
    Source,      \* Source[m]: the node that sends m
    Recipients,  \* Recipients[m]: whom m is encrypted for; {} is everyone
    Onion,       \* the messages that are sent through onion routes
    Txs,         \* the messages that are transactions to be onion routed
    Throwing,    \* the messages whose handler may throw a JSONRPCError
    NumNodes, NumHops, NumRoutes,   \* the shape of the onion routes
    MaxSkins,    \* MAX_ONION_SKINS
    MaxSent,     \* bound: how many messages are sent in the whole run
    MaxOffline   \* bound: how many nodes may go offline

VARIABLES
    sent,        \* the messages that their source has transmitted
    net,         \* the packets on the wires
    processed,   \* processed[n]: sCloakDataHashes
    handled,     \* handled[n][m]: how often n's handler was given m
    online       \* the nodes that are up

vars == <<sent, net, processed, handled, online>>

ASSUME ShieldAssumption ==
    /\ Peers \in [Node -> SUBSET Node]
    /\ Known \in [Node -> SUBSET Node]
    /\ Source \in [Message -> Node]
    /\ Recipients \in [Message -> SUBSET Node]
    /\ {NumNodes, NumHops, NumRoutes, MaxSkins} \subseteq Nat

(* The nodes that can read the message itself. *)
Readers == [m \in Message |-> IF Recipients[m] = {} THEN Node ELSE Recipients[m]]

-----------------------------------------------------------------------------
(* Packets.  skins holds the recipients of the layers, the outermost last.  *)
(* Each layer has a one-time key, so those of two routes never are equal.   *)

Packet(m, route, skins) == [msg |-> m, route |-> route, skins |-> skins]

(* The message in its own packet, as Encode leaves it. *)
Bare(m) == Packet(m, 0, <<>>)

(* The packet that is left when level layers are off. *)
Peeled(p, level) ==
    IF level = Len(p.skins) THEN Bare(p.msg)
    ELSE Packet(p.msg, p.route, SubSeq(p.skins, 1, Len(p.skins) - level))

(* Who can open what is left then. *)
Openers(p, level) ==
    IF level = Len(p.skins) THEN Readers[p.msg]
    ELSE p.skins[Len(p.skins) - level]

(* One onion.  routeNodes is a pool of NumNodesRequired() nodes, and each   *)
(* hop is encrypted for NumNodesRequired() of that pool.                    *)
OnionPacket(m, route, pool) == Packet(m, route, [hop \in 1..NumHops |-> pool])

Pools(n) == {S \in SUBSET Known[n] : Cardinality(S) = NumNodes}

-----------------------------------------------------------------------------
(* CCloakingData::Transmit to everyone in whom. *)
Relayed(n, whom, p) == {[from |-> n, to |-> u, packet |-> p] : u \in whom}

Init == /\ sent = {}
        /\ net = {}
        /\ processed = [n \in Node |-> {}]
        /\ handled = [n \in Node |-> [m \in Message |-> 0]]
        /\ online = Node

(* A packet of our own goes to all peers.  It is not marked as processed.   *)
Transmit(m, packets) ==
    LET n == Source[m] IN
    /\ n \in online
    /\ m \notin sent /\ Cardinality(sent) < MaxSent
    /\ sent' = sent \cup {m}
    /\ net' = net \cup UNION {Relayed(n, Peers[n] \cap online, p) : p \in packets}
    /\ UNCHANGED <<processed, handled, online>>

SendPlain(m) == m \notin Onion \cup Txs /\ Transmit(m, {Bare(m)})

SendOnion(m) ==
    /\ m \in Onion \ Txs
    /\ \E pools \in [1..NumRoutes -> Pools(Source[m])] :
           Transmit(m, {OnionPacket(m, r, pools[r]) : r \in 1..NumRoutes})

(* Too few relays: Transmit fails, and EncodeEncryptTransmit returns true.  *)
SendUnrouted(m) ==
    /\ m \in Onion \ Txs
    /\ Recipients[m] # {}
    /\ Cardinality(Known[Source[m]]) < NumNodes
    /\ Transmit(m, {})

(* OnionRouteTx relays the transaction by the standard means; the comma in  *)
(* the condition after Encode makes it return before it transmits a packet. *)
OnionRouteTx(m) == m \in Txs /\ Transmit(m, {})

-----------------------------------------------------------------------------
(* HandleCloakOnionData, called for the packet with level layers off: the   *)
(* levels that a packet from a peer gets to.                                *)
Levels(n, p) ==
    {level \in 0..Len(p.skins) :
        /\ level < MaxSkins
        /\ \A i \in 0..level : Peeled(p, i) \notin processed[n]
        /\ \A i \in 0..level : i < level => n \in Openers(p, i)}

(* Fault: only what came from the peer is passed on. *)
PassedOnAsIs(n, d) ==
    IF Levels(n, d.packet) = {} THEN {}
    ELSE Relayed(n, (Peers[n] \ {d.from}) \cap online, d.packet)

(* Fault: what came from the peer is passed on whether it is new or not. *)
PassedOnSeen(n, d) ==
    Relayed(n, (Peers[n] \ {d.from}) \cap online, d.packet) \cup
    UNION {Relayed(n, Peers[n] \cap online, Peeled(d.packet, level)) :
               level \in Levels(n, d.packet) \ {0}}

(* A new packet is passed on, to all but its sender as it came, to everyone *)
(* when a layer was taken off.                                              *)
PassedOn(n, d) ==
    UNION {Relayed(n, (IF level = 0 THEN Peers[n] \ {d.from} ELSE Peers[n]) \cap online,
                   Peeled(d.packet, level)) : level \in Levels(n, d.packet)}

(* The message itself came out, and this node can read it. *)
Dispatched(n, p) == Len(p.skins) \in Levels(n, p) /\ n \in Readers[p.msg]

(* Fault: the layers taken off are not marked. *)
MarkOutermost(n, p) == processed' = [processed EXCEPT ![n] = @ \cup {p}]

MarkProcessed(n, p) ==
    processed' = [processed EXCEPT ![n] = @ \cup {Peeled(p, level) : level \in Levels(n, p)}]

(* Counted up to Often: more than once is as bad as it gets. *)
Often == 2
Handled(n, m) ==
    handled' = [handled EXCEPT ![n][m] = IF @ < Often THEN @ + 1 ELSE @]

Receive(d) ==
    LET n == d.to IN
    /\ d \in net
    /\ net' = (net \ {d}) \cup PassedOn(n, d)
    /\ MarkProcessed(n, d.packet)
    /\ IF Dispatched(n, d.packet) THEN Handled(n, d.packet.msg) ELSE UNCHANGED handled
    /\ UNCHANGED <<sent, online>>

(* A JSONRPCError is no std::exception: it passes every catch on the way to *)
(* ProcessMessages, and the packets are not marked.                         *)
ReceiveThrows(d) ==
    LET n == d.to IN
    /\ d \in net
    /\ d.packet.msg \in Throwing
    /\ Dispatched(n, d.packet)
    /\ net' = (net \ {d}) \cup PassedOn(n, d)
    /\ Handled(n, d.packet.msg)
    /\ UNCHANGED <<sent, processed, online>>

(* A node stops: what it was to receive is lost, and any part of what it    *)
(* had queued to send.                                                      *)
GoOffline(n) ==
    /\ n \in online
    /\ Cardinality(Node \ online) < MaxOffline
    /\ online' = online \ {n}
    /\ \E lost \in SUBSET {d \in net : d.from = n} :
           net' = {d \in net : d.to # n} \ lost
    /\ UNCHANGED <<sent, processed, handled>>

Send(m) == SendPlain(m) \/ SendOnion(m) \/ SendUnrouted(m) \/ OnionRouteTx(m)

Next == \/ \E m \in Message : Send(m)
        \/ \E d \in net : Receive(d) \/ ReceiveThrows(d)
        \/ \E n \in Node : GoOffline(n)

Spec == Init /\ [][Next]_vars

(* The message thread gets to whatever its sockets deliver. *)
LiveSpec == Spec /\ WF_vars(\E d \in net : Receive(d) \/ ReceiveThrows(d))

-----------------------------------------------------------------------------
(* Properties *)

(* What Enigma assumes of its network, for the messages whose handler does   *)
(* not throw: a packet whose handler throws is not marked, and its next copy *)
(* is handed over again.                                                     *)
Orderly == Message \ Throwing
Promise ==
    INSTANCE Delivery WITH
        Message <- Orderly,
        sent <- sent \ Throwing,
        handled <- [n \in Node |-> [m \in Orderly |-> handled[n][m]]]

(* CloakShield hands such a message over at most once per node, however many *)
(* routes and peers bring it (AlreadyProcessed, MarkProcessed).              *)
AtMostOnce == Promise!Spec

(* maxHops is never looked at: the list of processed hashes alone must end  *)
(* every flood.                                                             *)
FloodEnds == <>[](net = {})

(* Nodes may stop, as long as fewer stop than a route has relays and the    *)
(* rest stay connected: the message reaches all who can read it.            *)
Delivered ==
    \A m \in Message \ Txs : \A n \in Readers[m] \ {Source[m]} :
        (m \in sent /\ Cardinality(Known[Source[m]]) >= NumNodes)
            ~> (handled[n][m] > 0 \/ {n, Source[m]} \ online # {})
=============================================================================
