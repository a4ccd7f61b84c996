---------------------------- MODULE NetworkProofs ----------------------------
(***************************************************************************)
(* What a node keeps of what its peers send.  In every network, whatever   *)
(* breaks and whoever is mute, a node that has the transaction never loses *)
(* track of a peer it has not offered it to (module Relay).  Whatever      *)
(* alerts there are, in whatever order they come, no alert is listed       *)
(* beside one that cancels it (module Alerts).  And of the transactions it *)
(* takes, the pool's two maps agree, the orphans' two maps agree and stay  *)
(* within their limit, every orphan left still waits for a parent, and no  *)
(* transaction is in the chain and in the pool (module MemPool).           *)
(***************************************************************************)
EXTENDS Relay, Alerts, MemPool, FiniteSetTheorems, TLAPS

(* The connections and the tables that decide whom a node offers to. *)
RelayTables ==
    /\ links \subseteq Links
    /\ has \in [Node -> BOOLEAN]
    /\ known \in [Node -> [Node -> BOOLEAN]]
    /\ toSend \in [Node -> SUBSET Node]

RelayInv == RelayTables /\ OfferedOrKnown

(* The origin has the transaction on the list of each of its peers. *)
LEMMA RelayInitial == RelayInit => RelayInv
<1> SUFFICES ASSUME RelayInit PROVE RelayInv
  OBVIOUS
<1>1. RelayTables
  BY RelayAssumption DEF RelayInit, RelayTables
<1>2. ASSUME NEW n \in Node, has[n], NEW p \in Peers(n)
      PROVE  p \in toSend[n]
  <2>1. n = Origin /\ p \in Node /\ {n, p} \in Links
    BY Zenon, <1>2 DEF RelayInit, Peers
  <2> QED BY <2>1 DEF RelayInit
<1> QED BY <1>1, <1>2 DEF RelayInv, OfferedOrKnown

(* SendMessages takes a peer off the list only with the peer known to have it. *)
LEMMA SendInvKeeps ==
    ASSUME RelayInv, NEW n \in Node, NEW p \in Node, SendInv(n, p)
    PROVE  RelayInv'
<1>1. CASE known[n][p]
  <2>1. UNCHANGED <<has, links, known>> /\ toSend' = [toSend EXCEPT ![n] = @ \ {p}]
    BY <1>1 DEF SendInv
  <2>2. RelayTables'
    BY <2>1 DEF RelayInv, RelayTables
  <2>3. ASSUME NEW a \in Node, has'[a], NEW b \in Node, b \in Peers(a)'
        PROVE  known'[a][b] \/ b \in toSend'[a]
    BY <1>1, <2>1, <2>3 DEF RelayInv, RelayTables, OfferedOrKnown, Peers
  <2> QED BY <2>2, <2>3 DEF RelayInv, OfferedOrKnown, Peers
<1>2. CASE ~known[n][p]
  <2>1. /\ UNCHANGED <<has, links>> /\ toSend' = [toSend EXCEPT ![n] = @ \ {p}]
        /\ known' = [known EXCEPT ![n][p] = TRUE]
    BY <1>2 DEF SendInv
  <2>2. RelayTables'
    BY <2>1 DEF RelayInv, RelayTables
  <2>3. ASSUME NEW a \in Node, has'[a], NEW b \in Node, b \in Peers(a)'
        PROVE  known'[a][b] \/ b \in toSend'[a]
    BY <2>1, <2>3 DEF RelayInv, RelayTables, OfferedOrKnown, Peers
  <2> QED BY <2>2, <2>3 DEF RelayInv, OfferedOrKnown, Peers
<1> QED BY <1>1, <1>2

(* "inv": one more peer is known to have it. *)
LEMMA HandleInvKeeps ==
    ASSUME RelayInv, NEW n \in Node, NEW p \in Node, HandleInv(n, p)
    PROVE  RelayInv'
<1>1. UNCHANGED <<has, links, toSend>> /\ known' = [known EXCEPT ![n][p] = TRUE]
  BY DEF HandleInv
<1>2. RelayTables'
  BY <1>1 DEF RelayInv, RelayTables
<1>3. ASSUME NEW a \in Node, has'[a], NEW b \in Node, b \in Peers(a)'
      PROVE  known'[a][b] \/ b \in toSend'[a]
  BY <1>1, <1>3 DEF RelayInv, RelayTables, OfferedOrKnown, Peers
<1> QED BY <1>2, <1>3 DEF RelayInv, OfferedOrKnown, Peers

(* "tx": a node that accepts the transaction lists every peer not known to have it. *)
LEMMA HandleTxKeeps ==
    ASSUME RelayInv, NEW n \in Node, NEW p \in Node, HandleTx(n, p)
    PROVE  RelayInv'
<1>1. UNCHANGED links /\ known' = [known EXCEPT ![n][p] = TRUE]
  BY DEF HandleTx
<1>2. CASE has[n]
  <2>1. UNCHANGED <<has, toSend>>
    BY <1>2 DEF HandleTx
  <2>2. RelayTables'
    BY <1>1, <2>1 DEF RelayInv, RelayTables
  <2>3. ASSUME NEW a \in Node, has'[a], NEW b \in Node, b \in Peers(a)'
        PROVE  known'[a][b] \/ b \in toSend'[a]
    BY <1>1, <2>1, <2>3 DEF RelayInv, RelayTables, OfferedOrKnown, Peers
  <2> QED BY <2>2, <2>3 DEF RelayInv, OfferedOrKnown, Peers
<1>3. CASE ~has[n]
  <2>1. /\ has' = [has EXCEPT ![n] = TRUE]
        /\ toSend' = [toSend EXCEPT ![n] = Relayed(n, known')]
    BY <1>3 DEF HandleTx
  <2>2. RelayTables'
    BY <1>1, <2>1 DEF RelayInv, RelayTables, Relayed, Peers
  <2>3. ASSUME NEW a \in Node, has'[a], NEW b \in Node, b \in Peers(a)'
        PROVE  known'[a][b] \/ b \in toSend'[a]
    <3>1. CASE a = n
      BY <1>1, <2>1, <2>3, <3>1 DEF RelayInv, RelayTables, Relayed, Peers
    <3>2. CASE a # n
      BY <1>1, <2>1, <2>3, <3>2 DEF RelayInv, RelayTables, OfferedOrKnown, Peers
    <3> QED BY <3>1, <3>2
  <2> QED BY <2>2, <2>3 DEF RelayInv, OfferedOrKnown, Peers
<1> QED BY <1>2, <1>3

(* A broken connection leaves the peers that remain as they were. *)
LEMMA DisconnectKeeps ==
    ASSUME RelayInv, NEW l \in Fragile, Disconnect(l)
    PROVE  RelayInv'
<1>1. /\ has' = has /\ links' = links \ {l}
      /\ toSend' = [n \in Node |-> IF n \in l THEN toSend[n] \ l ELSE toSend[n]]
      /\ known' = [n \in Node |-> [p \in Node |-> {n, p} # l /\ known[n][p]]]
  BY DEF Disconnect
<1>2. RelayTables'
  BY <1>1 DEF RelayInv, RelayTables
<1>3. ASSUME NEW a \in Node, has'[a], NEW b \in Node, b \in Peers(a)'
      PROVE  known'[a][b] \/ b \in toSend'[a]
  <2>1. {a, b} # l /\ b \in Peers(a)
    BY <1>1, <1>3 DEF Peers
  <2>2. known[a][b] \/ b \in toSend[a]
    BY <1>1, <1>3, <2>1 DEF RelayInv, OfferedOrKnown
  <2>3. known'[a][b] <=> known[a][b]
    BY <1>1, <2>1 DEF RelayInv, RelayTables
  <2>4. a \notin l \/ b \notin l
    <3>1. {a, b} \in Links /\ l \in Links
      BY <2>1, RelayAssumption DEF RelayInv, RelayTables, Peers
    <3>2. a # b
      BY <3>1, RelayAssumption
    <3>3. PICK c \in Node, d \in Node : l = {c, d}
      BY <3>1, RelayAssumption
    <3> QED BY <2>1, <3>2, <3>3
  <2>5. b \in toSend[a] => b \in toSend'[a]
    BY <1>1, <2>4
  <2> QED BY <2>2, <2>3, <2>5
<1> QED BY <1>2, <1>3 DEF RelayInv, OfferedOrKnown, Peers

(* The other steps touch none of the tables. *)
LEMMA OthersKeep ==
    ASSUME RelayInv, UNCHANGED <<has, links, known, toSend>>
    PROVE  RelayInv'
BY DEF RelayInv, RelayTables, OfferedOrKnown, Peers

(* Every step keeps the invariant. *)
LEMMA RelayStep == RelayInv /\ [RelayNext]_vars => RelayInv'
<1> SUFFICES ASSUME RelayInv, [RelayNext]_vars PROVE RelayInv'
  OBVIOUS
<1>1. ASSUME NEW n \in Node, NEW p \in Node, Step(n, p) PROVE RelayInv'
  <2>1. CASE SendInv(n, p)       BY <2>1, SendInvKeeps
  <2>2. CASE SendGetData(n, p)   BY <2>2, OthersKeep DEF SendGetData
  <2>3. CASE HandleInv(n, p)     BY <2>3, HandleInvKeeps
  <2>4. CASE HandleGetData(n, p) BY <2>4, OthersKeep DEF HandleGetData
  <2>5. CASE HandleTx(n, p)      BY <2>5, HandleTxKeeps
  <2> QED BY <1>1, <2>1, <2>2, <2>3, <2>4, <2>5 DEF Step
<1>2. ASSUME NEW l \in Fragile, Disconnect(l) PROVE RelayInv'
  BY <1>2, DisconnectKeeps
<1>3. CASE Tick
  BY <1>3, OthersKeep DEF Tick
<1>4. CASE UNCHANGED vars
  BY <1>4, OthersKeep DEF vars
<1> QED BY <1>1, <1>2, <1>3, <1>4 DEF RelayNext

(* OfferedOrKnown holds for any nodes, connections, breaks and mute peers: no *)
(* peer of a node that has the transaction drops off its lists without an     *)
(* offer having passed between them (net.h, RelayInventory, PushInventory).   *)
THEOREM AlwaysOfferedOrKnown == RelaySpec => []OfferedOrKnown
<1>1. RelayInv => OfferedOrKnown
  BY DEF RelayInv
<1> QED BY <1>1, RelayInitial, RelayStep, PTL DEF RelaySpec

-----------------------------------------------------------------------------
(* The list holds alerts, and the clock counts seconds. *)
AlertsInv ==
    mapAlerts \subseteq Alert /\ now \in Nat /\ NoneCancelledListed

(* Initially no alert is listed. *)
LEMMA AlertsInitial == AlertsInit => AlertsInv
BY DEF AlertsInit, AlertsInv, NoneCancelledListed

(* ProcessAlert clears what the alert cancels and refuses it where a listed one *)
(* cancels it, so that the list stays free of cancelled alerts. *)
LEMMA HandleAlertKeeps ==
    ASSUME AlertsInv, NEW p \in Peer, NEW a \in Alert, HandleAlert(p, a)
    PROVE  AlertsInv'
<1>1. Cleared(a) \subseteq mapAlerts /\ now' = now
  BY DEF Cleared, HandleAlert
<1>2. \A x, y : Cancels(x, y)' <=> Cancels(x, y)
  BY <1>1 DEF Cancels, IsInEffect
<1>3. \/ mapAlerts' = mapAlerts \/ mapAlerts' = Cleared(a)
      \/ mapAlerts' = Cleared(a) \cup {a} /\ ~Cancelled(a)
  BY DEF HandleAlert
<1>4. ASSUME NEW x \in mapAlerts', NEW y \in mapAlerts', x # y
      PROVE  ~Cancels(x, y)
  <2>1. CASE x \in mapAlerts /\ y \in mapAlerts
    BY <1>4, <2>1 DEF AlertsInv, NoneCancelledListed
  <2>2. CASE mapAlerts' = Cleared(a) \cup {a} /\ ~Cancelled(a)
    <3>1. \A b \in Cleared(a) : ~Cancels(a, b)
      BY DEF Cleared
    <3>2. \A b \in Cleared(a) : ~Cancels(b, a)
      BY <2>2 DEF Cancelled
    <3> QED BY <1>1, <1>4, <2>1, <2>2, <3>1, <3>2
  <2> QED BY <1>1, <1>3, <2>1, <2>2
<1>5. NoneCancelledListed'
  BY <1>2, <1>4 DEF NoneCancelledListed
<1> QED BY <1>1, <1>3, <1>5 DEF AlertsInv

(* An alert that is no longer in effect cancels nothing. *)
LEMMA AlertsTickKeeps == AlertsInv /\ AlertsTick => AlertsInv'
<1> SUFFICES ASSUME AlertsInv, AlertsTick PROVE AlertsInv'
  OBVIOUS
<1>1. mapAlerts' = mapAlerts /\ now' = now + 1 /\ now \in Nat /\ mapAlerts \subseteq Alert
  BY DEF AlertsTick, AlertsInv
<1>2. ASSUME NEW x \in mapAlerts, NEW y \in mapAlerts, Cancels(x, y)'
      PROVE  Cancels(x, y)
  <2>1. x.expires \in Nat
    BY <1>1, AlertsAssumption
  <2> QED BY <1>1, <1>2, <2>1 DEF Cancels, IsInEffect
<1> QED BY <1>1, <1>2 DEF AlertsInv, NoneCancelledListed

(* For any set of alerts and peers, no alert is ever listed beside one that *)
(* cancels it. *)
THEOREM NeverCancelledListed == AlertsSpec => []NoneCancelledListed
<1>1. AlertsInv /\ [AlertsNext]_alertVars => AlertsInv'
  <2> SUFFICES ASSUME AlertsInv, [AlertsNext]_alertVars PROVE AlertsInv'
    OBVIOUS
  <2>1. ASSUME UNCHANGED <<mapAlerts, now>> PROVE AlertsInv'
    BY <2>1 DEF AlertsInv, NoneCancelledListed, Cancels, IsInEffect
  <2> QED
    BY <2>1, HandleAlertKeeps, AlertsTickKeeps DEF AlertsNext, NewPeer, alertVars
<1>2. AlertsInv => NoneCancelledListed
  BY DEF AlertsInv
<1> QED BY AlertsInitial, <1>1, <1>2, PTL DEF AlertsSpec

-----------------------------------------------------------------------------
PoolInv ==
    /\ PoolTypeOK
    /\ PoolMapsAgree /\ OrphanMapsAgree /\ OrphansBounded /\ ConfirmedNotInPool

\* What a transaction spends, and what it spends from, are transactions and
\* outpoints of the model.
LEMMA InsType ==
    ASSUME NEW t \in Tx
    PROVE  Ins[t] \subseteq Spendable /\ Prevs(t) \subseteq Tx
BY TxAssumption DEF Spendable, Prevs, Outpoints

\* addUnchecked keeps the two maps in step when nothing in the pool spends an
\* input of the new transaction.
LEMMA AddUncheckedAgrees ==
    ASSUME PoolTypeOK, PoolMapsAgree, NEW t \in Tx, ~InConflict(pool, t),
           pool' = AddUnchecked(pool, t)
    PROVE  pool' \in Pools /\ PoolMapsAgree'
<1>1. pool'.mapTx = pool.mapTx \cup {t}
  BY DEF AddUnchecked
<1>2. \A o \in Spendable :
         pool'.mapNextTx[o] = IF o \in Ins[t] THEN t ELSE pool.mapNextTx[o]
  BY DEF AddUnchecked
<1>3. pool' \in Pools
  BY DEF AddUnchecked, Pools, PoolTypeOK
<1>4. \A o \in Ins[t] : pool.mapNextTx[o] = NoTx
  BY InsType DEF InConflict
<1>5. ASSUME NEW o \in Spendable, NEW u \in Tx
      PROVE  pool'.mapNextTx[o] = u <=> u \in pool'.mapTx /\ o \in Ins[u]
  <2>1. CASE o \in Ins[t]
    <3>1. pool.mapNextTx[o] # u
      BY <1>4, <2>1, TxAssumption
    <3>2. ~(u \in pool.mapTx /\ o \in Ins[u])
      BY <3>1 DEF PoolMapsAgree
    <3> QED BY <1>1, <1>2, <2>1, <3>2
  <2>2. CASE o \notin Ins[t]
    BY <1>1, <1>2, <2>2 DEF PoolMapsAgree
  <2> QED BY <2>1, <2>2
<1> QED BY <1>3, <1>5 DEF PoolMapsAgree

\* remove keeps them in step whether or not the pool holds the transaction.
LEMMA RemoveTxAgrees ==
    ASSUME PoolTypeOK, PoolMapsAgree, NEW t \in Tx, pool' = RemoveTx(pool, t)
    PROVE  /\ pool' \in Pools /\ PoolMapsAgree'
           /\ pool'.mapTx = pool.mapTx \ {t}
<1>1. CASE t \notin pool.mapTx
  <2>1. pool' = pool
    BY <1>1 DEF RemoveTx
  <2> QED BY <1>1, <2>1 DEF PoolMapsAgree, PoolTypeOK, Pools
<1>2. CASE t \in pool.mapTx
  <2>1. pool'.mapTx = pool.mapTx \ {t}
    BY <1>2 DEF RemoveTx
  <2>2. \A o \in Spendable :
           pool'.mapNextTx[o] = IF o \in Ins[t] THEN NoTx ELSE pool.mapNextTx[o]
    BY <1>2 DEF RemoveTx
  <2>3. pool' \in Pools
    BY <1>2 DEF RemoveTx, Pools, PoolTypeOK
  <2>4. ASSUME NEW o \in Spendable, NEW u \in Tx
        PROVE  pool'.mapNextTx[o] = u <=> u \in pool'.mapTx /\ o \in Ins[u]
    <3>1. CASE o \in Ins[t]
      <4>1. pool.mapNextTx[o] = t
        BY <1>2, <3>1 DEF PoolMapsAgree
      <4>2. u # t => ~(u \in pool.mapTx /\ o \in Ins[u])
        BY <4>1 DEF PoolMapsAgree
      <4> QED BY <2>1, <2>2, <3>1, <4>2, TxAssumption
    <3>2. CASE o \notin Ins[t]
      BY <2>1, <2>2, <3>2 DEF PoolMapsAgree
    <3> QED BY <3>1, <3>2
  <2> QED BY <2>1, <2>3, <2>4 DEF PoolMapsAgree
<1> QED BY <1>1, <1>2

\* accept takes only what is new to the pool, in conflict with nothing in it
\* and, when inputs are checked, not in the chain.
LEMMA AcceptedFacts ==
    ASSUME NEW p, NEW idx, NEW t, NEW f \in BOOLEAN,
           Accept(p, idx, t, f) = "accepted"
    PROVE  ~InConflict(p, t) /\ t \notin p.mapTx /\ (f => t \notin idx.tx)
BY DEF Accept

LEMMA OutcomeFacts ==
    ASSUME NEW p, NEW idx, NEW t, "accepted" \in AcceptOutcomes(p, idx, t)
    PROVE  ~InConflict(p, t) /\ t \notin p.mapTx /\ t \notin idx.tx
<1>1. Accept(p, idx, t, TRUE) = "accepted"
  BY Zenon DEF AcceptOutcomes
<1> QED BY Zenon, <1>1, AcceptedFacts

-----------------------------------------------------------------------------
LEMMA OrphansFinite ==
    ASSUME PoolTypeOK
    PROVE  IsFiniteSet(orphans)
BY TxAssumption, FS_Subset DEF PoolTypeOK

\* AddOrphanTx followed by LimitOrphanTxSize: whichever orphans are evicted,
\* the maps still agree and the limit holds.
LEMMA RecvMissingKeeps ==
    ASSUME PoolInv, NEW t \in Tx, RecvMissing(t)
    PROVE  PoolInv'
<1> DEFINE os == OrphansWith(t)
<1>1. PICK evicted \in SUBSET os :
         /\ Cardinality(evicted) = Excess(os)
         /\ orphans' = os \ evicted
         /\ byPrev' = ErasedBuckets(os, BucketsWith(t), evicted)
  BY DEF RecvMissing
<1>2. os \subseteq Tx /\ IsFiniteSet(os)
  BY OrphansFinite, TxAssumption, FS_Subset DEF OrphansWith, PoolInv, PoolTypeOK
<1>3. \A p \in Tx : BucketsWith(t)[p] = {o \in os : p \in Prevs(o)}
  <2>1. CASE t \in Big \cup orphans
    BY <2>1 DEF BucketsWith, OrphansWith, PoolInv, OrphanMapsAgree
  <2>2. CASE t \notin Big \cup orphans
    BY <2>2 DEF BucketsWith, OrphansWith, PoolInv, OrphanMapsAgree
  <2> QED BY <2>1, <2>2
<1>4. OrphanMapsAgree'
  <2>1. SUFFICES ASSUME NEW p \in Tx
                 PROVE  byPrev'[p] = {o \in orphans' : p \in Prevs(o)}
    BY DEF OrphanMapsAgree
  <2>2. byPrev'[p] = BucketsWith(t)[p] \ {o \in evicted \cap os : p \in Prevs(o)}
    BY <1>1 DEF ErasedBuckets
  <2> QED BY <1>1, <1>3, <2>2
<1>5. OrphansBounded'
  <2>1. IsFiniteSet(evicted)
    BY <1>2, FS_Subset
  <2>2. Cardinality(os \ evicted) = Cardinality(os) - Cardinality(evicted)
    <3>1. Cardinality(os \ evicted) = Cardinality(os) - Cardinality(os \cap evicted)
      BY Zenon, <1>2, <2>1, FS_Difference
    <3>2. os \cap evicted = evicted
      OBVIOUS
    <3> QED BY SMTT(60), <3>1, <3>2
  <2>3. Cardinality(os) \in Nat
    BY <1>2, FS_CardinalityType
  <2> QED BY <1>1, <2>2, <2>3, TxAssumption DEF Excess, OrphansBounded
<1>6. PoolTypeOK'
  <2>1. orphans' \subseteq Tx
    BY <1>1, <1>2
  <2>2. byPrev' \in [Tx -> SUBSET Tx]
    <3>1. \A p \in Tx : BucketsWith(t)[p] \subseteq Tx
      BY <1>2, <1>3
    <3> HIDE DEF os
    <3> QED BY <1>1, <3>1 DEF ErasedBuckets
  <2> QED BY <2>1, <2>2 DEF RecvMissing, PoolInv, PoolTypeOK
<1>7. PoolMapsAgree' /\ ConfirmedNotInPool'
  BY DEF RecvMissing, PoolInv, PoolMapsAgree, ConfirmedNotInPool
<1> QED BY <1>4, <1>5, <1>6, <1>7 DEF PoolInv

\* EraseOrphanTx of the whole erase queue.
LEMMA EraseOrphansKeeps ==
    ASSUME PoolInv, EraseOrphans
    PROVE  PoolInv'
<1>1. orphans' = orphans \ rx.erase
  BY DEF EraseOrphans
<1>2. \A p \in Tx : byPrev'[p] = byPrev[p] \ {o \in rx.erase \cap orphans : p \in Prevs(o)}
  BY DEF EraseOrphans, ErasedBuckets
<1>3. OrphanMapsAgree'
  BY <1>1, <1>2 DEF PoolInv, OrphanMapsAgree
<1>4. OrphansBounded'
  <2>1. Cardinality(orphans') <= Cardinality(orphans)
    BY <1>1, OrphansFinite, FS_Subset DEF PoolInv
  <2>2. Cardinality(orphans') \in Nat /\ Cardinality(orphans) \in Nat
    BY <1>1, OrphansFinite, FS_Subset, FS_CardinalityType DEF PoolInv
  <2> QED BY <2>1, <2>2, TxAssumption DEF PoolInv, OrphansBounded
<1>5. PoolTypeOK'
  <2>1. byPrev' \in [Tx -> SUBSET Tx]
    BY DEF EraseOrphans, ErasedBuckets, PoolInv, PoolTypeOK
  <2>2. rx' \in Handlers
    BY DEF EraseOrphans, Quiet, Handlers
  <2> QED BY <1>1, <2>1, <2>2 DEF EraseOrphans, PoolInv, PoolTypeOK
<1>6. PoolMapsAgree' /\ ConfirmedNotInPool'
  BY DEF EraseOrphans, PoolInv, PoolMapsAgree, ConfirmedNotInPool
<1> QED BY <1>3, <1>4, <1>5, <1>6 DEF PoolInv

\* A step that leaves the orphans alone and takes one transaction into the
\* pool.
LEMMA PoolTakes ==
    ASSUME PoolInv, NEW t \in Tx, ~InConflict(pool, t), t \notin txindex'.tx,
           pool' = AddUnchecked(pool, t),
           txindex' \in Indexes, txindex'.tx \subseteq txindex.tx,
           rx' \in Handlers, UNCHANGED <<orphans, byPrev>>
    PROVE  PoolInv'
<1>1. pool' \in Pools /\ PoolMapsAgree'
  BY AddUncheckedAgrees DEF PoolInv
<1>2. pool'.mapTx = pool.mapTx \cup {t}
  BY DEF AddUnchecked
<1>3. ConfirmedNotInPool'
  BY <1>2 DEF PoolInv, ConfirmedNotInPool
<1>4. PoolTypeOK'
  BY SMTT(60), <1>1 DEF PoolInv, PoolTypeOK
<1>5. OrphanMapsAgree' /\ OrphansBounded'
  BY DEF PoolInv, OrphanMapsAgree, OrphansBounded
<1> QED BY <1>1, <1>3, <1>4, <1>5 DEF PoolInv

\* A step that leaves the orphans and the pool alone.
LEMMA PoolKept ==
    ASSUME PoolInv, UNCHANGED pool, txindex' \in Indexes,
           txindex'.tx \subseteq txindex.tx,
           rx' \in Handlers, UNCHANGED <<orphans, byPrev>>
    PROVE  PoolInv'
BY DEF PoolInv, PoolTypeOK, PoolMapsAgree, OrphanMapsAgree, OrphansBounded,
       ConfirmedNotInPool

-----------------------------------------------------------------------------
LEMMA InitPoolInv == PoolInit => PoolInv
<1> SUFFICES ASSUME PoolInit PROVE PoolInv
  OBVIOUS
<1>1. txindex \in Indexes
  BY TxAssumption DEF PoolInit, IndexOf, Indexes, Spendable
<1>2. pool \in Pools /\ pool.mapTx = {} /\ \A o \in Spendable : pool.mapNextTx[o] = NoTx
  BY DEF PoolInit, EmptyPool, Pools
<1>3. PoolMapsAgree
  BY <1>2, TxAssumption DEF PoolMapsAgree
<1>4. PoolTypeOK
  BY <1>1, <1>2 DEF PoolInit, PoolTypeOK, Quiet, Handlers
<1>5. OrphanMapsAgree /\ ConfirmedNotInPool
  BY <1>2 DEF PoolInit, OrphanMapsAgree, ConfirmedNotInPool
<1>6. OrphansBounded
  BY FS_EmptySet, TxAssumption DEF PoolInit, OrphansBounded
<1> QED BY <1>3, <1>4, <1>5, <1>6 DEF PoolInv

\* Every step keeps the invariant.
LEMMA NextPoolInv == PoolInv /\ [PoolNext]_poolVars => PoolInv'
<1> SUFFICES ASSUME PoolInv, [PoolNext]_poolVars PROVE PoolInv'
  OBVIOUS
<1>0. txindex \in Indexes /\ pool \in Pools /\ rx \in Handlers
  BY SMTT(60) DEF PoolInv, PoolTypeOK
<1>1. ASSUME NEW t \in Tx, RecvAccepted(t) PROVE PoolInv'
  <2>1. ~InConflict(pool, t) /\ t \notin txindex.tx
    BY <1>1, OutcomeFacts DEF RecvAccepted
  <2>2. rx' \in Handlers
    BY <1>1 DEF RecvAccepted, Handlers
  <2> QED BY Zenon, <1>0, <1>1, <2>1, <2>2, PoolTakes DEF RecvAccepted
<1>2. ASSUME NEW t \in Tx, RecvMissing(t) PROVE PoolInv'
  BY <1>2, RecvMissingKeeps
<1>3. ASSUME NextInQueue PROVE PoolInv'
  <2>1. rx' \in Handlers
    <3>1. Head(rx.work) \in Tx /\ Tail(rx.work) \in Seq(Tx)
      BY <1>0, <1>3 DEF NextInQueue, Handlers
    <3>2. byPrev[Head(rx.work)] \subseteq Tx
      BY <3>1 DEF PoolInv, PoolTypeOK
    <3> QED BY ZenonT(60), <1>0, <1>3, <3>1, <3>2 DEF NextInQueue, Handlers
  <2> QED BY <1>0, <1>3, <2>1, PoolKept DEF NextInQueue
<1>4. ASSUME NEW t \in Tx, TryOrphan(t) PROVE PoolInv'
  <2>1. PICK r \in AcceptOutcomes(pool, txindex, t) :
           /\ pool' = IF r = "accepted" THEN AddUnchecked(pool, t) ELSE pool
           /\ rx' = [rx EXCEPT !.todo = @ \ {t},
                        !.work = IF r = "accepted" THEN Append(@, t) ELSE @,
                        !.erase = IF r = "missing" THEN @ ELSE @ \cup {t}]
    BY Zenon, <1>4 DEF TryOrphan
  <2>2. rx' \in Handlers
    <3> DEFINE w == IF r = "accepted" THEN Append(rx.work, t) ELSE rx.work
               e == IF r = "missing" THEN rx.erase ELSE rx.erase \cup {t}
    <3>1. rx' = [busy |-> rx.busy, work |-> w, todo |-> rx.todo \ {t}, erase |-> e]
      BY Zenon, <1>0, <2>1 DEF Handlers
    <3>2. w \in Seq(Tx)
      BY <1>0 DEF Handlers
    <3>3. e \subseteq Tx /\ rx.todo \ {t} \subseteq Tx /\ rx.busy \in BOOLEAN
      BY <1>0 DEF Handlers
    <3> HIDE DEF w, e
    <3> QED BY <3>1, <3>2, <3>3 DEF Handlers
  <2>3. CASE r = "accepted"
    <3>1. ~InConflict(pool, t) /\ t \notin txindex.tx
      BY <2>3, OutcomeFacts
    <3> QED BY <1>0, <1>4, <2>1, <2>2, <2>3, <3>1, PoolTakes DEF TryOrphan
  <2>4. CASE r # "accepted"
    BY <1>0, <1>4, <2>1, <2>2, <2>4, PoolKept DEF TryOrphan
  <2> QED BY <2>3, <2>4
<1>5. ASSUME EraseOrphans PROVE PoolInv'
  BY SMTT(60), <1>5, EraseOrphansKeeps
<1>6. ASSUME NEW t \in Tx, AcceptWalletTransaction(t) PROVE PoolInv'
  <2>1. ~InConflict(pool, t) /\ t \notin txindex.tx
    BY ZenonT(60), <1>6, AcceptedFacts DEF AcceptWalletTransaction
  <2> QED BY SMTT(60), <1>0, <1>6, <2>1, PoolTakes DEF AcceptWalletTransaction
<1>7. ASSUME NEW t \in Tx, Connected(t) PROVE PoolInv'
  <2>1. pool' \in Pools /\ PoolMapsAgree' /\ pool'.mapTx = pool.mapTx \ {t}
    BY <1>7, RemoveTxAgrees DEF Connected, PoolInv
  <2>2. txindex' \in Indexes /\ txindex'.tx = txindex.tx \cup {t}
    BY <1>0, <1>7, InsType DEF Connected, ConnectTx, Indexes
  <2>3. PoolTypeOK'
    BY <1>7, <2>1, <2>2 DEF Connected, PoolInv, PoolTypeOK
  <2>4. ConfirmedNotInPool'
    BY SMTT(60), <2>1, <2>2 DEF PoolInv, ConfirmedNotInPool
  <2>5. OrphanMapsAgree' /\ OrphansBounded'
    BY <1>7 DEF Connected, PoolInv, OrphanMapsAgree, OrphansBounded
  <2> QED BY <2>1, <2>3, <2>4, <2>5 DEF PoolInv
<1>8. ASSUME NEW t \in Tx, Disconnected(t) PROVE PoolInv'
  <2>1. txindex' \in Indexes /\ txindex'.tx = txindex.tx \ {t}
    BY <1>0, <1>8 DEF Disconnected, DisconnectTx, Indexes
  <2>2. CASE Accept(pool, txindex', t, FALSE) = "accepted"
    <3>1. ~InConflict(pool, t)
      BY Zenon, <2>2, AcceptedFacts
    <3> QED BY <1>0, <1>8, <2>1, <2>2, <3>1, PoolTakes DEF Disconnected
  <2>3. CASE Accept(pool, txindex', t, FALSE) # "accepted"
    BY <1>0, <1>8, <2>1, <2>3, PoolKept DEF Disconnected
  <2> QED BY Zenon, <2>2, <2>3
<1>9. ASSUME UNCHANGED poolVars PROVE PoolInv'
  BY <1>9, <1>0, PoolKept DEF poolVars
<1> QED BY SMTT(60), <1>1, <1>2, <1>3, <1>4, <1>5, <1>6, <1>7, <1>8, <1>9
        DEF PoolNext, TxHandler

-----------------------------------------------------------------------------
\* In every state mapTx and mapNextTx agree, so no outpoint is spent twice in
\* the pool: accept, addUnchecked and remove, whoever calls them.
THEOREM PoolMapsAlwaysAgree == PoolSpec => []PoolMapsAgree
BY InitPoolInv, NextPoolInv, PTL DEF PoolSpec, PoolInv

\* In every state the two orphan maps agree and hold at most MaxOrphans
\* transactions: AddOrphanTx, EraseOrphanTx and LimitOrphanTxSize.
THEOREM OrphanMapsAlwaysAgree == PoolSpec => [](OrphanMapsAgree /\ OrphansBounded)
BY InitPoolInv, NextPoolInv, PTL DEF PoolSpec, PoolInv

\* In no state is a transaction both in the chain and in the pool: accept,
\* and the removal of what a block confirms.
THEOREM ConfirmedNeverInPool == PoolSpec => []ConfirmedNotInPool
BY InitPoolInv, NextPoolInv, PTL DEF PoolSpec, PoolInv

\* The variables of the pool and of the "tx" handler keep their types.
THEOREM PoolTypesKept == PoolSpec => []PoolTypeOK
BY InitPoolInv, NextPoolInv, PTL DEF PoolSpec, PoolInv

-----------------------------------------------------------------------------
(* A parent that o waits for. *)
Waits(o) == \E p \in Prevs(o) : p \notin pool.mapTx \/ p \in Local \cup Unstable

(* The inductive form of OrphansAwaitPool, which holds within the handler too: *)
(* an orphan whose parents are all in the pool is in the bucket being tried, in *)
(* vEraseQueue, or behind an element of vWorkQueue. *)
OrphansTried ==
    \A o \in orphans :
        \/ Waits(o)
        \/ /\ rx.busy
           /\ \/ o \in rx.todo \cup rx.erase
              \/ \E i \in 1..Len(rx.work) : rx.work[i] \in Prevs(o)

\* An orphan goes on waiting while the pool takes nothing but transactions that
\* the wallet or a disconnected block puts there.
LEMMA WaitsStable ==
    ASSUME NEW o, Waits(o), pool'.mapTx \subseteq pool.mapTx \cup Local \cup Unstable
    PROVE  Waits(o)'
BY DEF Waits

\* accept says "missing" only when a parent is in neither the chain nor the pool.
LEMMA MissingWaits ==
    ASSUME NEW o, "missing" \in AcceptOutcomes(pool, txindex, o)
    PROVE  Waits(o)
<1>1. Accept(pool, txindex, o, TRUE) = "missing"
  BY ZenonT(60) DEF AcceptOutcomes
<1>2. ~InputsFound(pool, txindex, o)
  BY <1>1 DEF Accept
<1> QED BY <1>2 DEF InputsFound, Waits

\* The first transaction of a work queue wakes the orphans that spend it.
LEMMA RecvAcceptedTries ==
    ASSUME PoolInv, OrphansTried, NEW t \in Tx, RecvAccepted(t)
    PROVE  OrphansTried'
<1>1. /\ pool'.mapTx = pool.mapTx \cup {t} /\ orphans' = orphans /\ ~rx.busy
      /\ rx'.busy /\ rx'.work = <<t>>
  BY DEF RecvAccepted, AddUnchecked
<1> SUFFICES ASSUME NEW o \in orphans
             PROVE  Waits(o)' \/ \E i \in 1..Len(rx'.work) : rx'.work[i] \in Prevs(o)
  BY SMTT(60), <1>1 DEF OrphansTried
<1>2. PICK p \in Prevs(o) : p \notin pool.mapTx \/ p \in Local \cup Unstable
  BY <1>1 DEF OrphansTried, Waits
<1>3. CASE p = t
  <2>1. 1 \in 1..Len(rx'.work) /\ rx'.work[1] = t
    BY <1>1
  <2> QED BY <1>1, <1>2, <1>3, <2>1
<1>4. CASE p # t
  BY SMTT(60), <1>1, <1>2, <1>4 DEF Waits
<1> QED BY <1>3, <1>4

\* The bucket of the element that leaves the queue is the bucket to try.
LEMMA NextInQueueTries ==
    ASSUME PoolInv, OrphansTried, NextInQueue
    PROVE  OrphansTried'
<1>0. rx \in Handlers /\ OrphanMapsAgree
  BY DEF PoolInv, PoolTypeOK
<1>1. /\ rx.busy /\ rx.todo = {} /\ rx.work # <<>> /\ rx.work \in Seq(Tx)
      /\ UNCHANGED <<pool, orphans>>
      /\ rx'.busy /\ rx'.work = Tail(rx.work) /\ rx'.erase = rx.erase
      /\ rx'.todo = byPrev[Head(rx.work)]
  BY SMTT(60), <1>0 DEF NextInQueue, Handlers
<1> SUFFICES ASSUME NEW o \in orphans, ~Waits(o)
             PROVE  \/ o \in rx'.todo \cup rx'.erase
                    \/ \E i \in 1..Len(rx'.work) : rx'.work[i] \in Prevs(o)
  BY <1>1 DEF OrphansTried, Waits
<1>2. CASE o \in rx.todo \cup rx.erase
  BY <1>1, <1>2
<1>3. ASSUME NEW i \in 1..Len(rx.work), rx.work[i] \in Prevs(o)
      PROVE  \/ o \in rx'.todo
             \/ \E j \in 1..Len(rx'.work) : rx'.work[j] \in Prevs(o)
  <2>1. CASE i = 1
    <3>1. Head(rx.work) \in Prevs(o) /\ Head(rx.work) \in Tx
      BY <1>1, <1>3, <2>1
    <3> QED BY SMTT(60), <1>0, <1>1, <3>1 DEF OrphanMapsAgree
  <2>2. CASE i # 1
    <3>1. i - 1 \in 1..Len(rx'.work) /\ rx'.work[i - 1] = rx.work[i]
      BY SMTT(60), <1>1, <2>2
    <3> QED BY <1>3, <3>1
  <2> QED BY SMTT(60), <2>1, <2>2
<1> QED BY <1>2, <1>3 DEF OrphansTried

\* An orphan that was tried is accepted and queued, dropped, or still waits.
LEMMA TryOrphanTries ==
    ASSUME PoolInv, OrphansTried, NEW t \in Tx, TryOrphan(t)
    PROVE  OrphansTried'
<1>0. rx \in Handlers
  BY SMTT(60) DEF PoolInv, PoolTypeOK
<1>1. PICK r \in AcceptOutcomes(pool, txindex, t) :
         /\ pool' = IF r = "accepted" THEN AddUnchecked(pool, t) ELSE pool
         /\ rx' = [rx EXCEPT !.todo = @ \ {t},
                      !.work = IF r = "accepted" THEN Append(@, t) ELSE @,
                      !.erase = IF r = "missing" THEN @ ELSE @ \cup {t}]
  BY Zenon DEF TryOrphan
<1>2. /\ rx.busy /\ orphans' = orphans /\ rx'.busy
      /\ rx'.todo = rx.todo \ {t}
      /\ rx'.work = IF r = "accepted" THEN Append(rx.work, t) ELSE rx.work
      /\ rx'.erase = IF r = "missing" THEN rx.erase ELSE rx.erase \cup {t}
      /\ rx.work \in Seq(Tx)
  BY ZenonT(60), <1>0, <1>1 DEF TryOrphan, Handlers
<1>3. pool'.mapTx = IF r = "accepted" THEN pool.mapTx \cup {t} ELSE pool.mapTx
  BY <1>1 DEF AddUnchecked
<1>4. r = "missing" => Waits(t)'
  BY <1>3, MissingWaits DEF Waits
<1>5. \A i \in 1..Len(rx.work) : i \in 1..Len(rx'.work) /\ rx'.work[i] = rx.work[i]
  BY <1>2
<1>6. r = "accepted" => /\ Len(rx.work) + 1 \in 1..Len(rx'.work)
                        /\ rx'.work[Len(rx.work) + 1] = t
  BY <1>2
<1> SUFFICES ASSUME NEW o \in orphans
             PROVE  \/ Waits(o)' \/ o \in rx'.todo \cup rx'.erase
                    \/ \E i \in 1..Len(rx'.work) : rx'.work[i] \in Prevs(o)
  BY SMTT(60), <1>2 DEF OrphansTried
<1>7. CASE o = t
  BY SMTT(60), <1>2, <1>4, <1>7
<1>8. CASE o # t /\ o \in rx.todo \cup rx.erase
  BY SMTT(60), <1>2, <1>8
<1>9. CASE \E i \in 1..Len(rx.work) : rx.work[i] \in Prevs(o)
  BY SMTT(60), <1>5, <1>9
<1>10. CASE Waits(o)
  <2>1. PICK p \in Prevs(o) : p \notin pool.mapTx \/ p \in Local \cup Unstable
    BY SMTT(60), <1>10 DEF Waits
  <2>2. CASE r = "accepted" /\ p = t
    BY SMTT(60), <1>6, <2>1, <2>2
  <2>3. CASE ~(r = "accepted" /\ p = t)
    BY <1>3, <2>1, <2>3 DEF Waits
  <2> QED BY SMTT(60), <2>2, <2>3
<1> QED BY <1>7, <1>8, <1>9, <1>10 DEF OrphansTried

\* Every step keeps it.
LEMMA NextOrphansTried == PoolInv /\ OrphansTried /\ [PoolNext]_poolVars => OrphansTried'
<1> SUFFICES ASSUME PoolInv, OrphansTried, [PoolNext]_poolVars PROVE OrphansTried'
  BY SMTT(60)
<1>1. ASSUME NEW t \in Tx, RecvMissing(t) PROVE OrphansTried'
  <2>1. /\ orphans' \subseteq orphans \cup {t} /\ pool' = pool /\ ~rx.busy
        /\ "missing" \in AcceptOutcomes(pool, txindex, t)
    BY SMTT(60), <1>1 DEF RecvMissing, OrphansWith
  <2>2. \A o \in orphans' : Waits(o)
    BY SMTT(60), <2>1, MissingWaits DEF OrphansTried
  <2> QED BY <2>1, <2>2 DEF OrphansTried, Waits
<1>2. ASSUME EraseOrphans PROVE OrphansTried'
  <2>1. /\ orphans' = orphans \ rx.erase /\ pool' = pool
        /\ rx.todo = {} /\ rx.work = <<>>
    BY <1>2 DEF EraseOrphans
  <2>2. Len(rx.work) = 0
    BY <2>1
  <2>3. \A o \in orphans' : Waits(o)
    BY SMTT(60), <2>1, <2>2 DEF OrphansTried
  <2> QED BY <2>1, <2>3 DEF OrphansTried, Waits
<1>3. ASSUME NEW t \in Tx,
             AcceptWalletTransaction(t) \/ Connected(t) \/ Disconnected(t)
      PROVE  OrphansTried'
  <2>1. ~rx.busy /\ orphans' = orphans
    BY Zenon, <1>3 DEF AcceptWalletTransaction, Connected, Disconnected
  <2>2. pool'.mapTx \subseteq pool.mapTx \cup Local \cup Unstable
    <3>1. \/ pool' = AddUnchecked(pool, t) /\ t \in Local \cup Unstable
          \/ pool' = RemoveTx(pool, t)
          \/ pool' = pool
      BY Zenon, <1>3 DEF AcceptWalletTransaction, Connected, Disconnected
    <3>2. /\ AddUnchecked(pool, t).mapTx = pool.mapTx \cup {t}
          /\ RemoveTx(pool, t).mapTx \subseteq pool.mapTx
      BY DEF AddUnchecked, RemoveTx
    <3> QED BY <3>1, <3>2
  <2> QED BY SMTT(60), <2>1, <2>2, WaitsStable DEF OrphansTried
<1>4. ASSUME UNCHANGED poolVars PROVE OrphansTried'
  BY <1>4 DEF poolVars, OrphansTried, Waits
<1> QED BY <1>1, <1>2, <1>3, <1>4, RecvAcceptedTries, NextInQueueTries, TryOrphanTries
        DEF PoolNext, TxHandler

\* Between messages every orphan waits for a parent that is not in the pool, or
\* that came there without its orphans being looked at: the work queue of the
\* "tx" handler, for any transactions and any chain of orphans among them.
THEOREM OrphansAlwaysAwaitPool == PoolSpec => []OrphansAwaitPool
<1>1. PoolInit => OrphansTried
  BY DEF PoolInit, OrphansTried
<1>2. OrphansTried => OrphansAwaitPool
  BY DEF OrphansTried, OrphansAwaitPool, Waits
<1> QED BY <1>1, <1>2, InitPoolInv, NextPoolInv, NextOrphansTried, PTL DEF PoolSpec
=============================================================================
