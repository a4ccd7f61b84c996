-------------------------- MODULE EnigmaPeersProofs --------------------------
(***************************************************************************)
(* A node that has left is forgotten once its last announcement expires,   *)
(* for any number of nodes, any connections and any bound on hops.         *)
(***************************************************************************)
EXTENDS EnigmaPeers, FiniteSetTheorems, TLAPS

(* Announcements that their owners made, at the latest at last[owner]. *)
Made == {x \in [owner : Node, ts : Int, hops : Nat] : x.ts <= last[x.owner]}
Messages == Made \cup {Version}

(* The inductive form of GoneForgotten: whatever is listed or on its way was *)
(* made by its owner, no later than the owner's last announcement. *)
MadeByOwner ==
    /\ now \in Nat /\ last \in [Node -> Int]
    /\ \A n \in Node : last[n] <= now
    /\ anns \in [Node -> SUBSET Made]
    /\ \A n \in Node : IsFiniteSet(anns[n])
    /\ wire \in [Node -> [Node -> Seq(Messages)]]

-----------------------------------------------------------------------------
(* SetToSeq of a finite set is a sequence of its elements. *)
LEMMA SetToSeqType ==
    ASSUME NEW S, IsFiniteSet(S)
    PROVE  SetToSeq(S) \in Seq(S)
<1>1. PICK n \in Nat : ExistsBijection(1..n, S)
  BY FS_NatBijection
<1>2. Cardinality(S) = n
  BY <1>1, FS_CountingElements
<1>3. PICK f \in Bijection(1..n, S) : TRUE
  BY <1>1 DEF ExistsBijection
<1>4. f \in [1..n -> S] /\ IsInjective(f)
  BY <1>3 DEF Bijection, Injection, IsInjective
<1>5. SetToSeq(S) \in [1..n -> S]
  BY <1>2, <1>4 DEF SetToSeq
<1> QED BY <1>5

(* RelayTo puts announcements of the set, and nothing else, on the wires of n. *)
LEMMA RelayKeepsWires ==
    ASSUME NEW M, NEW n \in Node, NEW as, IsFiniteSet(as), as \subseteq M,
           NEW ms, NEW ks, NEW ws \in [Node -> [Node -> Seq(M)]],
           Relay(n, as, ms, ws, ks)
    PROVE  wire' \in [Node -> [Node -> Seq(M)]]
<1> DEFINE new(m) == {x \in as : IsInEffect(n, x) /\ Sign(x) \notin ks[n][m]}
           row == [m \in Node |->
                     IF m \in ms THEN ws[n][m] \o SetToSeq(new(m)) ELSE ws[n][m]]
<1>1. wire' = [ws EXCEPT ![n] = row]
  BY DEF Relay
<1>2. ASSUME NEW m \in Node PROVE SetToSeq(new(m)) \in Seq(M)
  <2>1. IsFiniteSet(new(m))
    BY Zenon, FS_Subset
  <2>2. SetToSeq(new(m)) \in Seq(new(m))
    BY <2>1, SetToSeqType
  <2>3. new(m) \subseteq M
    BY Zenon
  <2> HIDE DEF new
  <2> QED BY <2>2, <2>3
<1> HIDE DEF new
<1>3. row \in [Node -> Seq(M)]
  <2>1. ASSUME NEW m \in Node
        PROVE  (IF m \in ms THEN ws[n][m] \o SetToSeq(new(m)) ELSE ws[n][m]) \in Seq(M)
    <3>1. ws[n][m] \in Seq(M)
      OBVIOUS
    <3> QED BY <1>2, <3>1
  <2> QED BY <2>1
<1> HIDE DEF row
<1> QED BY Zenon, <1>1, <1>3

(* A message leaves a wire. *)
LEMMA TailKeepsWires ==
    ASSUME NEW M, NEW n \in Node, NEW m \in Node, wire \in [Node -> [Node -> Seq(M)]],
           wire[m][n] # <<>>
    PROVE  /\ [wire EXCEPT ![m][n] = Tail(@)] \in [Node -> [Node -> Seq(M)]]
           /\ Head(wire[m][n]) \in M
<1>1. wire[m][n] \in Seq(M) /\ wire[m] \in [Node -> Seq(M)]
  OBVIOUS
<1>2. Tail(wire[m][n]) \in Seq(M) /\ Head(wire[m][n]) \in M
  BY <1>1
<1> QED BY <1>1, <1>2

(* What was made stays made when an owner announces itself again. *)
LEMMA MadeGrows ==
    ASSUME MadeByOwner, last' \in [Node -> Int], \A n \in Node : last[n] <= last'[n]
    PROVE  /\ Made \subseteq Made' /\ Messages \subseteq Messages'
           /\ anns \in [Node -> SUBSET Made']
           /\ wire \in [Node -> [Node -> Seq(Messages')]]
<1>1. Made \subseteq Made'
  BY DEF Made, MadeByOwner
<1>2. Messages \subseteq Messages'
  BY <1>1 DEF Messages, Version
<1>3. Seq(Messages) \subseteq Seq(Messages')
  BY <1>2
<1> QED BY SMTT(60), <1>1, <1>2, <1>3 DEF MadeByOwner

(* mapEnigmaAnns[keyHash] = x keeps the map finite and its entries made. *)
LEMMA ListedKeeps ==
    ASSUME NEW S, anns \in [Node -> SUBSET S], NEW n \in Node, NEW x \in S,
           \A m \in Node : IsFiniteSet(anns[m]), anns' = Listed(n, x)
    PROVE  anns' \in [Node -> SUBSET S] /\ \A m \in Node : IsFiniteSet(anns'[m])
<1> DEFINE A == (anns[n] \ Entries(n, x.owner)) \cup {x}
<1>1. anns' = [anns EXCEPT ![n] = A]
  BY DEF Listed
<1>2. A \subseteq S
  OBVIOUS
<1>3. IsFiniteSet(A)
  <2>1. IsFiniteSet(anns[n] \ Entries(n, x.owner))
    BY FS_Subset
  <2> QED BY Zenon, <2>1, FS_AddElement
<1> HIDE DEF A
<1> QED BY SMTT(60), <1>1, <1>2, <1>3

-----------------------------------------------------------------------------
\* The steps.

(* A node announces itself with the time as it is. *)
LEMMA AvailabilityKeeps ==
    ASSUME MadeByOwner, NEW n \in Node, UpdateEnigmaAvailability(n)
    PROVE  MadeByOwner'
<1> DEFINE x == Ann(n, now, 0)
<1>1. /\ last' = [last EXCEPT ![n] = now] /\ now' = now
      /\ anns' = Listed(n, x) /\ Relay(n, {x}, Peers(n), wire, known)
  BY DEF UpdateEnigmaAvailability, AdjustedTime
<1>2. now \in Nat /\ now \in Int
  BY DEF MadeByOwner
<1>3. /\ last' \in [Node -> Int]
      /\ \A k \in Node : last[k] <= last'[k] /\ last'[k] <= now
  BY <1>1, <1>2 DEF MadeByOwner
<1>4. x \in Made'
  BY <1>1, <1>2 DEF Made, Ann, MadeByOwner
<1>5. anns \in [Node -> SUBSET Made'] /\ wire \in [Node -> [Node -> Seq(Messages')]]
  BY SMTT(60), <1>3, MadeGrows
<1> HIDE DEF x
<1>6. anns' \in [Node -> SUBSET Made'] /\ \A k \in Node : IsFiniteSet(anns'[k])
  BY Zenon, <1>1, <1>4, <1>5, ListedKeeps DEF MadeByOwner
<1>7. IsFiniteSet({x}) /\ {x} \subseteq Messages'
  BY Zenon, <1>4, FS_Singleton DEF Messages
<1>8. wire' \in [Node -> [Node -> Seq(Messages')]]
  BY Zenon, <1>1, <1>5, <1>7, RelayKeepsWires
<1> QED BY <1>1, <1>2, <1>3, <1>6, <1>8 DEF MadeByOwner

(* A step that leaves the time and the owners' announcements alone. *)
LEMMA SameOwners ==
    ASSUME MadeByOwner, UNCHANGED <<now, last>>,
           anns' \in [Node -> SUBSET Made], \A n \in Node : IsFiniteSet(anns'[n]),
           wire' \in [Node -> [Node -> Seq(Messages)]]
    PROVE  MadeByOwner'
<1>1. Made' = Made /\ Messages' = Messages
  BY DEF Made, Messages, Version
<1> QED BY <1>1 DEF MadeByOwner

(* What a node sends on its version message is what it lists. *)
LEMMA HandleVersionKeeps ==
    ASSUME MadeByOwner, NEW n \in Node, NEW m \in Node, HandleVersion(n, m)
    PROVE  MadeByOwner'
<1> DEFINE ws == [wire EXCEPT ![m][n] = Tail(@)]
           vs == IF <<m, n>> \in link THEN [ws EXCEPT ![n][m] = Append(@, Version)] ELSE ws
<1>1. /\ wire[m][n] # <<>> /\ Relay(n, anns[n], {m}, vs, known)
      /\ UNCHANGED <<now, last, anns>>
  BY Zenon DEF HandleVersion
<1>2. ws \in [Node -> [Node -> Seq(Messages)]]
  BY <1>1, TailKeepsWires DEF MadeByOwner
<1> HIDE DEF ws
<1>3. vs \in [Node -> [Node -> Seq(Messages)]]
  <2>1. ws[n][m] \in Seq(Messages) /\ ws[n] \in [Node -> Seq(Messages)]
    BY <1>2
  <2>2. Append(ws[n][m], Version) \in Seq(Messages)
    BY <2>1 DEF Messages
  <2> QED BY <1>2, <2>1, <2>2
<1> HIDE DEF vs
<1>4. IsFiniteSet(anns[n]) /\ anns[n] \subseteq Messages
  BY DEF MadeByOwner, Messages
<1>5. wire' \in [Node -> [Node -> Seq(Messages)]]
  BY Zenon, <1>1, <1>3, <1>4, RelayKeepsWires
<1> QED BY Zenon, <1>1, <1>5, SameOwners DEF MadeByOwner

(* What a node takes from an announcement keeps its owner and its time. *)
LEMMA HandleAnnKeeps ==
    ASSUME MadeByOwner, NEW n \in Node, NEW m \in Node, HandleAnn(n, m)
    PROVE  MadeByOwner'
<1> DEFINE x == Head(wire[m][n])
           ws == [wire EXCEPT ![m][n] = Tail(@)]
           y == Processed(n, x)
<1>1. wire[m][n] # <<>> /\ x # Version /\ UNCHANGED <<now, last>>
  BY DEF HandleAnn
<1>2. ws \in [Node -> [Node -> Seq(Messages)]] /\ x \in Messages
  BY <1>1, TailKeepsWires DEF MadeByOwner
<1>3. x \in Made
  BY SMTT(60), <1>1, <1>2 DEF Messages
<1>4. \/ /\ anns' = Listed(n, y)
         /\ Relay(n, {y}, Peers(n), ws, [known EXCEPT ![n][m] = @ \cup {Sign(x)}])
      \/ wire' = ws /\ UNCHANGED anns
  BY Zenon DEF HandleAnn
<1>5. y \in Made
  <2> HIDE DEF x
  <2> QED BY <1>3 DEF Made, Processed, Ann
<1> HIDE DEF x, y, ws
<1>6. CASE wire' = ws /\ UNCHANGED anns
  BY Zenon, <1>1, <1>2, <1>6, SameOwners DEF MadeByOwner
<1>7. CASE /\ anns' = Listed(n, y)
           /\ Relay(n, {y}, Peers(n), ws, [known EXCEPT ![n][m] = @ \cup {Sign(x)}])
  <2>1. anns' \in [Node -> SUBSET Made] /\ \A k \in Node : IsFiniteSet(anns'[k])
    BY Zenon, <1>5, <1>7, ListedKeeps DEF MadeByOwner
  <2>2. IsFiniteSet({y}) /\ {y} \subseteq Messages
    BY Zenon, <1>5, FS_Singleton DEF Messages
  <2>3. PICK ks : ks = [known EXCEPT ![n][m] = @ \cup {Sign(x)}]
    BY Zenon
  <2>4. Relay(n, {y}, Peers(n), ws, ks)
    BY <1>7, <2>3
  <2>5. wire' \in [Node -> [Node -> Seq(Messages)]]
    BY Zenon, <1>2, <2>2, <2>4, RelayKeepsWires
  <2> QED BY SMTT(60), <1>1, <2>1, <2>5, SameOwners
<1> QED BY <1>4, <1>6, <1>7

(* Some announcements leave the lists, and nothing else changes. *)
LEMMA FewerListed ==
    ASSUME MadeByOwner, NEW n \in Node, NEW A, A \subseteq anns[n],
           anns' = [anns EXCEPT ![n] = A], UNCHANGED <<now, last, wire>>
    PROVE  MadeByOwner'
<1>1. IsFiniteSet(A)
  BY FS_Subset DEF MadeByOwner
<1>2. anns' \in [Node -> SUBSET Made] /\ \A k \in Node : IsFiniteSet(anns'[k])
  BY <1>1 DEF MadeByOwner
<1> QED BY SMTT(60), <1>2, SameOwners DEF MadeByOwner

(* The wires of a connection that is lost are empty. *)
LEMMA UnlinkedKeeps ==
    ASSUME MadeByOwner, NEW pairs, Unlinked(pairs), UNCHANGED <<now, last, anns>>
    PROVE  MadeByOwner'
<1>1. <<>> \in Seq(Messages)
  OBVIOUS
<1>2. wire' \in [Node -> [Node -> Seq(Messages)]]
  BY <1>1 DEF MadeByOwner, Unlinked
<1> QED BY ZenonT(60), <1>2, SameOwners DEF MadeByOwner

(* Every step keeps the inductive form. *)
LEMMA StepMadeByOwner ==
    ASSUME MadeByOwner, [PeersNext]_vars
    PROVE  MadeByOwner'
<1>1. ASSUME NEW n \in Node, CullEnigmaAnns(n) PROVE MadeByOwner'
  BY <1>1, FewerListed DEF CullEnigmaAnns
<1>2. ASSUME NEW n \in Node, Leave(n) PROVE MadeByOwner'
  BY SMTT(60), <1>2, UnlinkedKeeps DEF Leave
<1>3. ASSUME NEW n \in Node, NEW m \in Node, Connect(n, m) PROVE MadeByOwner'
  <2>1. wire' = [wire EXCEPT ![n][m] = <<Version>>] /\ UNCHANGED <<now, last, anns>>
    BY <1>3 DEF Connect
  <2>2. <<Version>> \in Seq(Messages)
    BY DEF Messages
  <2>3. wire' \in [Node -> [Node -> Seq(Messages)]]
    BY <2>1, <2>2 DEF MadeByOwner
  <2> QED BY ZenonT(60), <2>1, <2>3, SameOwners DEF MadeByOwner
<1>4. ASSUME NEW n \in Node, NEW m \in Node, Disconnect(n, m) PROVE MadeByOwner'
  BY <1>4, UnlinkedKeeps DEF Disconnect
<1>5. ASSUME NEW n \in Node, NEW o \in Node, HandleNodeOffline(n, o) PROVE MadeByOwner'
  <2> DEFINE A == anns[n] \ Entries(n, o)
  <2>1. anns' = [anns EXCEPT ![n] = A] /\ UNCHANGED <<now, last, wire>>
    BY <1>5 DEF HandleNodeOffline
  <2>2. A \subseteq anns[n]
    OBVIOUS
  <2> HIDE DEF A
  <2> QED BY Zenon, <2>1, <2>2, FewerListed
<1>6. ASSUME NEW n \in Node, NEW o \in Node, BanPeer(n, o) PROVE MadeByOwner'
  BY Zenon, <1>6, SameOwners DEF BanPeer, MadeByOwner
<1>7. CASE Tick
  <2>1. UNCHANGED <<last, anns, wire>> /\ now' = now + 1
    BY <1>7 DEF Tick
  <2>2. Made' = Made /\ Messages' = Messages
    BY <2>1 DEF Made, Messages, Version
  <2> QED BY <2>1, <2>2 DEF MadeByOwner
<1>8. CASE UNCHANGED vars
  BY SMTT(60), <1>8, SameOwners DEF vars, MadeByOwner
<1> QED BY <1>1, <1>2, <1>3, <1>4, <1>5, <1>6, <1>7, <1>8, AvailabilityKeeps,
           HandleVersionKeeps, HandleAnnKeeps
        DEF PeersNext, Handle

(* Only nodes leave. *)
LEMMA StepGone ==
    ASSUME gone \subseteq Node, [PeersNext]_vars
    PROVE  gone' \subseteq Node
<1>1. ASSUME NEW n \in Node,
             UpdateEnigmaAvailability(n) \/ CullEnigmaAnns(n) \/ Leave(n)
      PROVE  gone' \subseteq Node
  BY <1>1 DEF UpdateEnigmaAvailability, CullEnigmaAnns, Leave
<1>2. ASSUME NEW n \in Node, NEW m \in Node,
             \/ Handle(n, m) \/ Connect(n, m) \/ Disconnect(n, m)
             \/ BanPeer(n, m) \/ HandleNodeOffline(n, m)
      PROVE  gone' = gone
  <2>1. CASE HandleVersion(n, m) \/ HandleAnn(n, m)
    BY ZenonT(60), <2>1 DEF HandleVersion, HandleAnn
  <2>2. CASE Connect(n, m) \/ Disconnect(n, m) \/ BanPeer(n, m) \/ HandleNodeOffline(n, m)
    BY <2>2 DEF Connect, Disconnect, BanPeer, HandleNodeOffline
  <2> QED BY SMTT(60), <1>2, <2>1, <2>2 DEF Handle
<1>3. Tick \/ UNCHANGED vars => gone' = gone
  BY DEF Tick, vars
<1> QED BY SMTT(60), <1>1, <1>2, <1>3 DEF PeersNext

(* CullEnigmaAnns, ProcessAnnouncement and RelayTo never give an announcement a *)
(* later time than its owner did: what is listed or on its way from a node that *)
(* has left stops being in effect with its last announcement.                  *)
THEOREM GoneAlwaysForgotten == PeersSpec => []GoneForgotten
<1> DEFINE Inv == MadeByOwner /\ gone \subseteq Node
<1>1. PeersInit => Inv
  <2> SUFFICES ASSUME PeersInit PROVE Inv
    OBVIOUS
  <2>1. /\ now = 0 /\ last = [n \in Node |-> Never] /\ anns = [n \in Node |-> {}]
        /\ wire = [n \in Node |-> [m \in Node |-> <<>>]]
    BY DEF PeersInit
  <2>2. Never \in Int /\ Never <= 0
    BY PeersAssumption DEF Never
  <2>3. IsFiniteSet({}) /\ <<>> \in Seq(Messages)
    BY FS_EmptySet
  <2>4. gone \subseteq Node
    BY DEF PeersInit
  <2> QED BY SMTT(60), <2>1, <2>2, <2>3, <2>4 DEF MadeByOwner
<1>2. Inv /\ [PeersNext]_vars => Inv'
  BY SMTT(60), StepMadeByOwner, StepGone
<1>3. Inv => GoneForgotten
  <2> SUFFICES ASSUME Inv, NEW o \in gone, NEW n \in Node,
                      AdjustedTime >= last[o] + Timeout
               PROVE  /\ \A x \in Entries(n, o) : ~IsInEffect(n, x)
                      /\ \A m \in Node : \A x \in Range(wire[m][n]) :
                            x.owner = o => ~Acceptable(n, x)
    BY DEF GoneForgotten
  <2>1. ASSUME NEW x \in Made, x.owner = o PROVE ~IsInEffect(n, x)
    <3>1. x.ts \in Int /\ x.ts <= last[o] /\ last[o] \in Int /\ now \in Int
      BY <2>1 DEF Made, MadeByOwner
    <3> QED BY SMTT(60), <3>1, PeersAssumption DEF IsInEffect, AdjustedTime, AddOn
  <2>2. \A x \in Entries(n, o) : x \in Made /\ x.owner = o
    BY DEF Entries, MadeByOwner
  <2>3. ASSUME NEW m \in Node, NEW x \in Range(wire[m][n]), x.owner = o
        PROVE  ~Acceptable(n, x)
    <3>1. x \in Messages
      BY SMTT(60) DEF MadeByOwner, Range
    <3>2. x # Version
      BY <2>3, PeersAssumption DEF Version
    <3> QED BY SMTT(60), <2>1, <2>3, <3>1, <3>2 DEF Messages, Acceptable
  <2> QED BY SMTT(60), <2>1, <2>2, <2>3
<1> HIDE DEF Inv
<1> QED BY <1>1, <1>2, <1>3, PTL DEF PeersSpec

=============================================================================
