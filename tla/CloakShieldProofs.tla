-------------------------- MODULE CloakShieldProofs --------------------------
(***************************************************************************)
(* CloakShield keeps its promise for every network, route shape and set of  *)
(* messages: for the messages whose handler does not throw, Spec implements *)
(* Delivery!Spec.                                                           *)
(***************************************************************************)
EXTENDS CloakShield, TLAPS

Packets == [msg : Message, route : Nat, skins : Seq(SUBSET Node)]
Wires == [from : Node, to : Node, packet : Packets]

(* The inductive invariant: what is on the wires was sent, and where no     *)
(* handler throws nothing has been handled twice and what was handled is on *)
(* the node's list.                                                         *)
ShieldInv ==
    /\ sent \subseteq Message
    /\ net \subseteq Wires
    /\ processed \in [Node -> SUBSET Packets]
    /\ handled \in [Node -> [Message -> 0..2]]
    /\ online \subseteq Node
    /\ \A d \in net : d.packet.msg \in sent
    /\ \A n \in Node, m \in Orderly :
          handled[n][m] = 0 \/ (handled[n][m] = 1 /\ Bare(m) \in processed[n])

(* What the promise sees of the state. *)
Shown == [n \in Node |-> [m \in Orderly |-> handled[n][m]]]

(* What is left of a packet when layers are off is a packet with the same   *)
(* message (HandleCloakOnionData's child data).                             *)
LEMMA PeeledPacket ==
    ASSUME NEW p \in Packets, NEW level \in 0..Len(p.skins)
    PROVE  Peeled(p, level) \in Packets /\ Peeled(p, level).msg = p.msg
<1>1. CASE level = Len(p.skins)
  BY <1>1 DEF Peeled, Bare, Packet, Packets
<1>2. CASE level # Len(p.skins)
  <2> DEFINE s == SubSeq(p.skins, 1, Len(p.skins) - level)
  <2>1. p.skins \in Seq(SUBSET Node) /\ Len(p.skins) \in Nat
    BY DEF Packets
  <2>2. s \in Seq(SUBSET Node)
    BY <2>1
  <2> HIDE DEF s
  <2>3. Peeled(p, level) = [msg |-> p.msg, route |-> p.route, skins |-> s]
    BY <1>2 DEF Peeled, Packet, s
  <2> QED BY <2>2, <2>3 DEF Packets
<1> QED BY <1>1, <1>2

(* An onion is a packet of its message (CCloakingData::Transmit). *)
LEMMA OnionPackets ==
    ASSUME NEW m \in Message, NEW r \in 1..NumRoutes, NEW pool \in Pools(Source[m])
    PROVE  OnionPacket(m, r, pool) \in Packets /\ OnionPacket(m, r, pool).msg = m
<1>1. NumHops \in Nat /\ NumRoutes \in Nat
  BY ShieldAssumption
<1>3. pool \subseteq Node
  BY ShieldAssumption DEF Pools
<1>2. [hop \in 1..NumHops |-> pool] \in Seq(SUBSET Node)
  BY <1>1, <1>3
<1> QED BY <1>1, <1>2 DEF OnionPacket, Packet, Packets

(* The message m is counted as sent, and no handler is called. *)
SentOnly(m) == sent' = sent \cup {m} /\ UNCHANGED handled

(* A step that only puts packets of m on the wires keeps the invariant. *)
LEMMA TransmitKeeps ==
    ASSUME ShieldInv, NEW m \in Message, NEW packets, packets \subseteq Packets,
           \A p \in packets : p.msg = m, Transmit(m, packets)
    PROVE  ShieldInv' /\ SentOnly(m)
<1>1. Source[m] \in Node /\ Peers[Source[m]] \subseteq Node
  BY ShieldAssumption
<1>2. \A d \in net' : d \in net \/ (d \in Wires /\ d.packet.msg = m)
  BY <1>1 DEF Transmit, Relayed, Wires
<1> QED BY Zenon, <1>2 DEF Transmit, ShieldInv, SentOnly

(* Sending, by whichever way, only counts the message as sent. *)
LEMMA SendKeeps ==
    ASSUME ShieldInv, NEW m \in Message, Send(m)
    PROVE  ShieldInv' /\ SentOnly(m)
<1>1. CASE SendPlain(m)
  <2>1. {Bare(m)} \subseteq Packets /\ \A p \in {Bare(m)} : p.msg = m
    BY DEF Bare, Packet, Packets
  <2> QED BY <1>1, <2>1, TransmitKeeps DEF SendPlain
<1>2. CASE SendOnion(m)
  <2>1. PICK pools \in [1..NumRoutes -> Pools(Source[m])] :
            Transmit(m, {OnionPacket(m, r, pools[r]) : r \in 1..NumRoutes})
    BY Zenon, <1>2 DEF SendOnion
  <2> DEFINE packets == {OnionPacket(m, r, pools[r]) : r \in 1..NumRoutes}
  <2>2. packets \subseteq Packets /\ \A p \in packets : p.msg = m
    BY OnionPackets
  <2> HIDE DEF packets
  <2>3. Transmit(m, packets)
    BY <2>1 DEF packets
  <2> QED BY <2>2, <2>3, TransmitKeeps
<1>3. CASE Transmit(m, {})
  BY <1>3, TransmitKeeps
<1> QED BY <1>1, <1>2, <1>3 DEF Send, SendUnrouted, OnionRouteTx

(* What a node passes on are packets of the message it received. *)
LEMMA PassedOnPackets ==
    ASSUME ShieldInv, NEW d \in net, NEW e \in PassedOn(d.to, d)
    PROVE  e \in Wires /\ e.packet.msg = d.packet.msg
<1>1. d \in Wires /\ d.to \in Node /\ d.packet \in Packets
  BY DEF ShieldInv, Wires
<1>2. PICK level \in 0..Len(d.packet.skins) :
          \E u \in Peers[d.to] :
              e = [from |-> d.to, to |-> u, packet |-> Peeled(d.packet, level)]
  BY DEF PassedOn, Relayed, Levels
<1>3. Peeled(d.packet, level) \in Packets /\ Peeled(d.packet, level).msg = d.packet.msg
  BY <1>1, PeeledPacket
<1>4. Peers[d.to] \subseteq Node
  BY <1>1, ShieldAssumption
<1> QED BY <1>1, <1>2, <1>3, <1>4 DEF Wires

(* The handlers of the orderly messages are called as often as before. *)
SameCalls == \A u \in Node, x \in Orderly : handled'[u][x] = handled[u][x]

(* One handler is called, for the first time, with a message that was sent. *)
FirstCall(n, m) ==
    /\ m \in Orderly \cap sent /\ n \in Readers[m]
    /\ handled[n][m] = 0
    /\ handled' = [handled EXCEPT ![n][m] = 1]

(* Counting a call changes one counter, which stays within its bound. *)
LEMMA Counted ==
    ASSUME ShieldInv, NEW n \in Node, NEW m \in Message, Handled(n, m)
    PROVE  /\ handled' \in [Node -> [Message -> 0..2]]
           /\ handled[n][m] = 0 => handled' = [handled EXCEPT ![n][m] = 1]
           /\ \A u \in Node, x \in Message :
                 u # n \/ x # m => handled'[u][x] = handled[u][x]
<1>1. handled \in [Node -> [Message -> 0..2]]
  BY DEF ShieldInv
<1> DEFINE k == IF handled[n][m] < 2 THEN handled[n][m] + 1 ELSE handled[n][m]
<1>2. handled[n][m] \in 0..2
  BY <1>1
<1>3. k \in 0..2 /\ (handled[n][m] = 0 => k = 1)
  BY <1>2
<1>4. handled' = [handled EXCEPT ![n][m] = k]
  BY DEF Handled, Often
<1> HIDE DEF k
<1> QED BY Zenon, <1>1, <1>3, <1>4

(* What a node receives keeps all of the invariant but the last conjunct.   *)
LEMMA ReceivedWires ==
    ASSUME ShieldInv, NEW d \in net, net' = (net \ {d}) \cup PassedOn(d.to, d),
           sent' = sent
    PROVE  net' \subseteq Wires /\ \A e \in net' : e.packet.msg \in sent'
BY PassedOnPackets DEF ShieldInv

(* Receiving a packet keeps the invariant, and hands its message over for   *)
(* the first time or not at all, unless the handler may throw.              *)
LEMMA ReceiveKeeps ==
    ASSUME ShieldInv, NEW d \in net, Receive(d)
    PROVE  ShieldInv' /\ sent' = sent /\ (SameCalls \/ FirstCall(d.to, d.packet.msg))
<1> DEFINE n == d.to
           p == d.packet
           m == d.packet.msg
           opened == {Peeled(p, level) : level \in Levels(n, p)}
<1>1. n \in Node /\ p \in Packets /\ m \in Message /\ m \in sent
  BY DEF ShieldInv, Wires, Packets
<1>2. opened \subseteq Packets
  BY <1>1, PeeledPacket DEF Levels
<1>3. net' \subseteq Wires /\ \A e \in net' : e.packet.msg \in sent'
  BY ReceivedWires DEF Receive
<1>4. processed' = [processed EXCEPT ![n] = @ \cup opened]
  BY DEF Receive, MarkProcessed
<1>5. sent' = sent /\ online' = online
  BY DEF Receive
<1>6. processed' \in [Node -> SUBSET Packets] /\ \A u \in Node : processed[u] \subseteq processed'[u]
  BY <1>1, <1>2, <1>4 DEF ShieldInv
<1>7. CASE ~Dispatched(n, p)
  <2>1. handled' = handled
    BY <1>7 DEF Receive
  <2> QED BY <1>3, <1>5, <1>6, <2>1 DEF ShieldInv, SameCalls
<1>8. CASE Dispatched(n, p)
  <2>1. Len(p.skins) \in Levels(n, p) /\ n \in Readers[m]
    BY <1>8 DEF Dispatched
  <2>2. Peeled(p, Len(p.skins)) = Bare(m)
    BY DEF Peeled
  <2>3. Bare(m) \notin processed[n]
    BY <2>1, <2>2 DEF Levels
  <2>4. m \in Orderly => handled[n][m] = 0
    BY <1>1, <2>3 DEF ShieldInv
  <2>5. Bare(m) \in processed'[n]
    BY <1>1, <1>4, <2>1, <2>2 DEF ShieldInv
  <2>6. Handled(n, m)
    BY <1>8 DEF Receive
  <2>7. /\ handled' \in [Node -> [Message -> 0..2]]
        /\ handled[n][m] = 0 => handled' = [handled EXCEPT ![n][m] = 1]
        /\ \A u \in Node, x \in Message :
              u # n \/ x # m => handled'[u][x] = handled[u][x]
    BY <1>1, <2>6, Counted
  <2>8. \A u \in Node, x \in Orderly :
            handled'[u][x] = 0 \/ (handled'[u][x] = 1 /\ Bare(x) \in processed'[u])
    <3> SUFFICES ASSUME NEW u \in Node, NEW x \in Orderly
                 PROVE  handled'[u][x] = 0 \/ (handled'[u][x] = 1 /\ Bare(x) \in processed'[u])
      OBVIOUS
    <3>1. CASE u = n /\ x = m
      <4>1. handled[n][m] = 0 /\ handled \in [Node -> [Message -> 0..2]]
        BY <2>4, <3>1 DEF ShieldInv
      <4> QED BY <1>1, <2>5, <2>7, <3>1, <4>1
    <3>2. CASE u # n \/ x # m
      <4>1. handled'[u][x] = handled[u][x]
        BY <2>7, <3>2 DEF Orderly
      <4> QED BY <1>6, <4>1 DEF ShieldInv
    <3> QED BY <3>1, <3>2
  <2>9. SameCalls \/ FirstCall(n, m)
    BY <1>1, <2>1, <2>4, <2>7 DEF SameCalls, FirstCall, Orderly
  <2> HIDE DEF n, p, m, opened
  <2> QED BY <1>3, <1>5, <1>6, <2>7, <2>8, <2>9 DEF ShieldInv, n, m
<1> QED BY <1>7, <1>8

(* A handler that throws is that of a message that is not orderly. *)
LEMMA ThrowKeeps ==
    ASSUME ShieldInv, NEW d \in net, ReceiveThrows(d)
    PROVE  ShieldInv' /\ sent' = sent /\ SameCalls
<1> DEFINE n == d.to
           m == d.packet.msg
<1>1. n \in Node /\ m \in Message /\ m \in Throwing
  BY DEF ShieldInv, Wires, Packets, ReceiveThrows
<1>2. sent' = sent /\ online' = online /\ processed' = processed /\ Handled(n, m)
  BY DEF ReceiveThrows
<1>3. net' \subseteq Wires /\ \A e \in net' : e.packet.msg \in sent'
  BY ReceivedWires DEF ReceiveThrows
<1>4. /\ handled' \in [Node -> [Message -> 0..2]]
      /\ \A u \in Node, x \in Message :
            u # n \/ x # m => handled'[u][x] = handled[u][x]
  BY <1>1, <1>2, Counted
<1>5. SameCalls
  BY <1>1, <1>4 DEF SameCalls, Orderly
<1> HIDE DEF n, m
<1> QED BY <1>2, <1>3, <1>4, <1>5 DEF ShieldInv, SameCalls

(* A node that stops takes packets off the wires and changes nothing else. *)
LEMMA OfflineKeeps ==
    ASSUME ShieldInv, NEW n \in Node, GoOffline(n)
    PROVE  ShieldInv' /\ UNCHANGED <<sent, handled>>
BY DEF GoOffline, ShieldInv

(* Nothing was sent or handled yet. *)
LEMMA InitShield == Init => ShieldInv /\ Promise!Init
<1> SUFFICES ASSUME Init PROVE ShieldInv /\ Promise!Init
  OBVIOUS
<1>1. ShieldInv
  BY DEF Init, ShieldInv, Orderly
<1>2. Shown = [n \in Node |-> [m \in Orderly |-> 0]]
  BY DEF Init, Shown, Orderly
<1> QED BY <1>1, <1>2 DEF Init, Promise!Init, Shown

(* In the promise, a message that is sent is sent or hidden. *)
LEMMA SendShown ==
    ASSUME NEW m \in Message, SentOnly(m)
    PROVE  [Promise!Next]_<<sent \ Throwing, Shown>>
<1>1. Shown' = Shown
  BY DEF SentOnly, Shown
<1>2. CASE m \in Throwing
  BY <1>1, <1>2 DEF SentOnly
<1>3. CASE m \notin Throwing
  <2>1. m \in Orderly /\ (sent \ Throwing)' = (sent \ Throwing) \cup {m}
    BY <1>3 DEF SentOnly, Orderly
  <2> QED BY <1>1, <2>1 DEF Promise!Next, Promise!Send, Shown
<1> QED BY <1>2, <1>3

(* A first call is a delivery. *)
LEMMA CallShown ==
    ASSUME ShieldInv, NEW n \in Node, NEW m \in Message, sent' = sent,
           SameCalls \/ FirstCall(n, m)
    PROVE  [Promise!Next]_<<sent \ Throwing, Shown>>
<1>1. CASE SameCalls
  <2>1. Shown' = Shown
    BY <1>1 DEF SameCalls, Shown
  <2> QED BY <2>1
<1>2. CASE FirstCall(n, m)
  <2>1. m \in Orderly /\ m \in sent \ Throwing /\ n \in Readers[m]
    BY <1>2 DEF FirstCall, Orderly
  <2>2. handled \in [Node -> [Message -> 0..2]] /\ handled[n][m] = 0
    BY <1>2 DEF ShieldInv, FirstCall
  <2>3. Shown[n][m] = 0
    BY <2>1, <2>2 DEF Shown
  <2>4. Shown' = [Shown EXCEPT ![n][m] = 1]
    <3>1. handled' = [handled EXCEPT ![n][m] = 1]
      BY <1>2 DEF FirstCall
    <3>2. Orderly \subseteq Message
      BY DEF Orderly
    <3> QED BY Zenon, <2>1, <2>2, <3>1, <3>2 DEF Shown
  <2>5. Promise!Deliver(n, m)
    BY <2>1, <2>3, <2>4 DEF Promise!Deliver, Shown
  <2> QED BY <2>1, <2>5 DEF Promise!Next
<1> QED BY <1>1, <1>2

(* Every step keeps the invariant and is a step of the promise or none. *)
LEMMA NextShield ==
    ASSUME ShieldInv, [Next]_vars
    PROVE  ShieldInv' /\ [Promise!Next]_<<sent \ Throwing, Shown>>
<1>1. ASSUME NEW m \in Message, Send(m)
      PROVE  ShieldInv' /\ [Promise!Next]_<<sent \ Throwing, Shown>>
  BY <1>1, SendKeeps, SendShown
<1>2. ASSUME NEW d \in net, Receive(d)
      PROVE  ShieldInv' /\ [Promise!Next]_<<sent \ Throwing, Shown>>
  <2>1. d.to \in Node /\ d.packet.msg \in Message
    BY DEF ShieldInv, Wires, Packets
  <2> QED BY <1>2, <2>1, ReceiveKeeps, CallShown
<1>3. ASSUME NEW d \in net, ReceiveThrows(d)
      PROVE  ShieldInv' /\ [Promise!Next]_<<sent \ Throwing, Shown>>
  <2>1. d.to \in Node /\ d.packet.msg \in Message
    BY DEF ShieldInv, Wires, Packets
  <2> QED BY <1>3, <2>1, ThrowKeeps, CallShown
<1>4. ASSUME NEW n \in Node, GoOffline(n)
      PROVE  ShieldInv' /\ [Promise!Next]_<<sent \ Throwing, Shown>>
  BY <1>4, OfflineKeeps DEF Shown
<1>5. CASE UNCHANGED vars
  BY <1>5 DEF vars, ShieldInv, Shown
<1> QED BY <1>1, <1>2, <1>3, <1>4, <1>5 DEF Next

(* However many routes, peers and layers bring a message, every node that   *)
(* can read it is given it at most once, and only after it was sent, unless *)
(* its handler throws (AlreadyProcessed and MarkProcessed around            *)
(* HandleCloakOnionData).                                                   *)
THEOREM HandedOverOnce == Spec => AtMostOnce
<1>1. Init => ShieldInv /\ Promise!Init
  BY InitShield
<1>2. ShieldInv /\ [Next]_vars
         => ShieldInv' /\ [Promise!Next]_<<sent \ Throwing, Shown>>
  BY NextShield
<1> QED BY <1>1, <1>2, PTL DEF Spec, AtMostOnce, Promise!Spec, Shown
=============================================================================
