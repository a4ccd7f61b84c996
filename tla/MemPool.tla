------------------------------- MODULE MemPool -------------------------------
(***************************************************************************)
(* The memory pool (CTxMemPool), the orphan transactions and the handler   *)
(* of the "tx" message.  The handler runs under cs_main from its first     *)
(* step to its last, so nothing else happens while rx.busy; its loops are  *)
(* steps of their own because each round decides on what the last one did. *)
(* The chain appears as the transaction index of the database: Connected   *)
(* and Disconnected stand for a block with one transaction; BestChain has  *)
(* the blocks.                                                             *)
(***************************************************************************)
EXTENDS Integers, Sequences, FiniteSets

CONSTANTS
    Tx,             \* transactions, named by their hash
    NoTx,           \* no transaction
    Ins,            \* Ins[t]: the outpoints <<tx, n>> that t spends
    Outs,           \* Outs[t]: the number of outputs of t
    Generated,      \* coinbase and coinstake transactions
    NonStandard,    \* refused before any look at the inputs
    Unpayable,      \* inputs found but fee, signature or maturity wrong
    Free,           \* below MIN_RELAY_TX_FEE: the rate limiter may refuse
    Big,            \* longer than 5000 bytes
    Local,          \* committed by our own wallet
    Unstable,       \* transactions whose block may be disconnected
    Confirmed,      \* transactions in the chain at the start
    MaxOrphans      \* MAX_ORPHAN_TRANSACTIONS

Outpoints == Tx \X Nat

ASSUME TxAssumption ==
    /\ IsFiniteSet(Tx) /\ NoTx \notin Tx
    /\ Ins \in [Tx -> SUBSET Outpoints]
    /\ Outs \in [Tx -> Nat]
    /\ Generated \subseteq Tx /\ NonStandard \subseteq Tx
    /\ Unpayable \subseteq Tx /\ Free \subseteq Tx /\ Big \subseteq Tx
    /\ Local \subseteq Tx /\ Unstable \subseteq Tx /\ Confirmed \subseteq Tx
    /\ MaxOrphans \in Nat

VARIABLES
    txindex,        \* tx: transactions with an index entry; spent: vSpent set
    pool,           \* mapTx, and mapNextTx as a function to Tx or NoTx
    orphans,        \* mapOrphanTransactions
    byPrev,         \* byPrev[p]: mapOrphanTransactionsByPrev[p]
    rx              \* the "tx" handler in progress: vWorkQueue, the orphans of
                    \* its current element still to try, vEraseQueue

poolVars == <<txindex, pool, orphans, byPrev, rx>>

-----------------------------------------------------------------------------
\* Outpoints that some transaction spends or creates.
OutpointsOf(t) == {<<t, n>> : n \in 0..(Outs[t] - 1)}
Prevs(t) == {o[1] : o \in Ins[t]}
Spendable == UNION {Ins[t] : t \in Tx}

EmptyPool == [mapTx |-> {}, mapNextTx |-> [o \in Spendable |-> NoTx]]
Quiet == [busy |-> FALSE, work |-> <<>>, todo |-> {}, erase |-> {}]

AddUnchecked(p, t) ==
    [mapTx |-> p.mapTx \cup {t},
     mapNextTx |-> [o \in Spendable |->
        IF o \in Ins[t] THEN t ELSE p.mapNextTx[o]]]

\* Fault: mapNextTx keeps the entries of the removed transaction.
RemoveTxOnly(p, t) == [p EXCEPT !.mapTx = @ \ {t}]

\* CTxMemPool::remove does nothing to a transaction it does not hold.
RemoveTx(p, t) ==
    IF t \in p.mapTx
    THEN [mapTx |-> p.mapTx \ {t},
          mapNextTx |-> [o \in Spendable |->
             IF o \in Ins[t] THEN NoTx ELSE p.mapNextTx[o]]]
    ELSE p

\* An input conflicts when some pool transaction spends it already.
InConflict(p, t) == \E o \in Ins[t] : p.mapNextTx[o] # NoTx

\* FetchInputs outside a block: the index first, then the pool.
InputsFound(p, idx, t) == Prevs(t) \subseteq idx.tx \cup p.mapTx
InputsInRange(t) == \A o \in Ins[t] : o[2] < Outs[o[1]]

\* CTxMemPool::accept, in the order of its checks; what it stores is
\* AddUnchecked.
Accept(p, idx, t, fCheckInputs) ==
    IF \/ t \in Generated \cup NonStandard \cup p.mapTx
       \/ fCheckInputs /\ t \in idx.tx
       \/ InConflict(p, t)
    THEN "refused"
    ELSE IF ~fCheckInputs THEN "accepted"
    ELSE IF ~InputsFound(p, idx, t) THEN "missing"
    ELSE IF \/ ~InputsInRange(t) \/ t \in Unpayable
            \/ Ins[t] \cap idx.spent # {}
         THEN "refused" ELSE "accepted"

\* The rate limiter's running count is left out: it may refuse a free
\* transaction whenever the other checks pass.
AcceptOutcomes(p, idx, t) ==
    LET r == Accept(p, idx, t, TRUE) IN
    IF r = "accepted" /\ t \in Free THEN {"accepted", "refused"} ELSE {r}

\* Fault: only one of the buckets is cleaned.
ErasedOneBucket(os, bp, gone) ==
    [p \in Tx |-> bp[p] \ {o \in gone \cap os :
                              p = CHOOSE q \in Prevs(o) : TRUE}]

\* EraseOrphanTx of every transaction in gone.  (A bucket that becomes empty
\* is dropped; the model does not tell an empty bucket from none.)
ErasedBuckets(os, bp, gone) ==
    [p \in Tx |-> bp[p] \ {o \in gone \cap os : p \in Prevs(o)}]

\* AddOrphanTx refuses a transaction it has and one that is too long.
OrphansWith(t) == IF t \in Big THEN orphans ELSE orphans \cup {t}
BucketsWith(t) ==
    IF t \in Big \cup orphans THEN byPrev
    ELSE [p \in Tx |-> IF p \in Prevs(t) THEN byPrev[p] \cup {t} ELSE byPrev[p]]

\* How many orphans LimitOrphanTxSize evicts.
Excess(os) ==
    IF Cardinality(os) > MaxOrphans THEN Cardinality(os) - MaxOrphans ELSE 0

-----------------------------------------------------------------------------
IndexOf(txs) == [tx |-> txs, spent |-> UNION {Ins[t] : t \in txs}]

PoolInit ==
    /\ txindex = IndexOf(Confirmed)
    /\ pool = EmptyPool
    /\ orphans = {} /\ byPrev = [p \in Tx |-> {}]
    /\ rx = Quiet

\* "tx", first part: a transaction the pool takes starts the work queue.
RecvAccepted(t) ==
    /\ ~rx.busy
    /\ "accepted" \in AcceptOutcomes(pool, txindex, t)
    /\ pool' = AddUnchecked(pool, t)
    /\ rx' = [busy |-> TRUE, work |-> <<t>>, todo |-> {}, erase |-> {t}]
    /\ UNCHANGED <<txindex, orphans, byPrev>>

\* "tx" with inputs nobody knows: stored as an orphan, and a random orphan is
\* evicted for every one above the limit.
RecvMissing(t) ==
    /\ ~rx.busy
    /\ "missing" \in AcceptOutcomes(pool, txindex, t)
    /\ \E evicted \in SUBSET OrphansWith(t) :
          /\ Cardinality(evicted) = Excess(OrphansWith(t))
          /\ orphans' = OrphansWith(t) \ evicted
          /\ byPrev' = ErasedBuckets(OrphansWith(t), BucketsWith(t), evicted)
    /\ UNCHANGED <<txindex, pool, rx>>

\* The next element of vWorkQueue: the orphans that spend it are to be tried.
NextInQueue ==
    /\ rx.busy /\ rx.todo = {} /\ rx.work # <<>>
    /\ rx' = [rx EXCEPT !.work = Tail(@), !.todo = byPrev[Head(rx.work)]]
    /\ UNCHANGED <<txindex, pool, orphans, byPrev>>

\* Fault: an orphan that was accepted does not wake the orphans behind it.
TryOrphanAlone(o) ==
    /\ rx.busy /\ o \in rx.todo
    /\ \E r \in AcceptOutcomes(pool, txindex, o) :
          /\ pool' = IF r = "accepted" THEN AddUnchecked(pool, o) ELSE pool
          /\ rx' = [rx EXCEPT !.todo = @ \ {o},
                              !.erase = IF r = "missing" THEN @ ELSE @ \cup {o}]
    /\ UNCHANGED <<txindex, orphans, byPrev>>

\* One orphan of the bucket (in hash order, that is in any order): accepted
\* and queued, kept because inputs are still missing, or dropped as invalid.
TryOrphan(o) ==
    /\ rx.busy /\ o \in rx.todo
    /\ \E r \in AcceptOutcomes(pool, txindex, o) :
          /\ pool' = IF r = "accepted" THEN AddUnchecked(pool, o) ELSE pool
          /\ rx' = [rx EXCEPT !.todo = @ \ {o},
                              !.work = IF r = "accepted" THEN Append(@, o) ELSE @,
                              !.erase = IF r = "missing" THEN @ ELSE @ \cup {o}]
    /\ UNCHANGED <<txindex, orphans, byPrev>>

\* The queue is empty: everything in vEraseQueue leaves the orphan maps.
EraseOrphans ==
    /\ rx.busy /\ rx.todo = {} /\ rx.work = <<>>
    /\ orphans' = orphans \ rx.erase
    /\ byPrev' = ErasedBuckets(orphans, byPrev, rx.erase)
    /\ rx' = Quiet
    /\ UNCHANGED <<txindex, pool>>

\* CommitTransaction and ReacceptWalletTransactions: no orphan is looked at.
AcceptWalletTransaction(t) ==
    /\ ~rx.busy /\ t \in Local
    /\ Accept(pool, txindex, t, TRUE) = "accepted"
    /\ pool' = AddUnchecked(pool, t)
    /\ UNCHANGED <<txindex, orphans, byPrev, rx>>

-----------------------------------------------------------------------------
\* What ConnectInputs asks of the index, and the rule that a transaction may
\* replace only one that is completely spent.
ConnectableTx(idx, t) ==
    /\ t \in idx.tx => OutpointsOf(t) \subseteq idx.spent
    /\ \A o \in Ins[t] : o[1] \in idx.tx /\ o[2] < Outs[o[1]] /\ o \notin idx.spent

\* A fresh index entry has no output spent.
ConnectTx(idx, t) ==
    [tx |-> idx.tx \cup {t}, spent |-> (idx.spent \ OutpointsOf(t)) \cup Ins[t]]

\* DisconnectInputs gives the inputs back and erases the entry.
DisconnectTx(idx, t) ==
    [tx |-> idx.tx \ {t}, spent |-> idx.spent \ (Ins[t] \cup OutpointsOf(t))]

\* A block with t joins the best chain.  Orphans are not looked at.  (No
\* transaction comes twice in one chain: inputs are spent, and a coinbase
\* starts with the height of its block.)
Connected(t) ==
    /\ ~rx.busy /\ t \notin txindex.tx /\ ConnectableTx(txindex, t)
    /\ txindex' = ConnectTx(txindex, t)
    /\ pool' = RemoveTx(pool, t)
    /\ UNCHANGED <<orphans, byPrev, rx>>

\* A block with t leaves it, and t goes back to the pool unchecked.
Disconnected(t) ==
    /\ ~rx.busy /\ t \in Unstable \cap txindex.tx
    /\ OutpointsOf(t) \cap txindex.spent = {}
    /\ txindex' = DisconnectTx(txindex, t)
    /\ pool' = IF Accept(pool, txindex', t, FALSE) = "accepted"
               THEN AddUnchecked(pool, t) ELSE pool
    /\ UNCHANGED <<orphans, byPrev, rx>>

TxHandler ==
    \/ \E t \in Tx : RecvAccepted(t) \/ RecvMissing(t) \/ TryOrphan(t)
    \/ NextInQueue \/ EraseOrphans

PoolNext ==
    \/ TxHandler
    \/ \E t \in Tx : \/ AcceptWalletTransaction(t)
                     \/ Connected(t) \/ Disconnected(t)

PoolSpec == PoolInit /\ [][PoolNext]_poolVars

-----------------------------------------------------------------------------
Indexes == [tx : SUBSET Tx, spent : SUBSET Spendable]
Pools == [mapTx : SUBSET Tx, mapNextTx : [Spendable -> Tx \cup {NoTx}]]
Handlers == [busy : BOOLEAN, work : Seq(Tx), todo : SUBSET Tx, erase : SUBSET Tx]

\* Every variable has its type: only outputs that can be spent are marked spent,
\* through any order of ConnectInputs and DisconnectInputs.
PoolTypeOK ==
    /\ txindex \in Indexes
    /\ pool \in Pools
    /\ orphans \subseteq Tx /\ byPrev \in [Tx -> SUBSET Tx]
    /\ rx \in Handlers

\* mapNextTx says exactly what the transactions in mapTx spend: accept,
\* addUnchecked and remove keep the two maps in step whichever transaction
\* comes by message, from the wallet, from a block or back from a
\* disconnected block, so no outpoint is spent twice within the pool.
PoolMapsAgree ==
    \A o \in Spendable : \A t \in Tx :
        pool.mapNextTx[o] = t <=> t \in pool.mapTx /\ o \in Ins[t]

\* The two orphan maps hold the same transactions: AddOrphanTx, EraseOrphanTx
\* and eviction never leave a transaction in a bucket that is gone from
\* mapOrphanTransactions, nor one missing from the bucket of a parent.
OrphanMapsAgree ==
    \A p \in Tx : byPrev[p] = {o \in orphans : p \in Prevs(o)}

\* LimitOrphanTxSize keeps mapOrphanTransactions within its limit after every
\* message.
OrphansBounded == Cardinality(orphans) <= MaxOrphans

\* No transaction is both in the chain and in the pool: connecting a block
\* removes its transactions, accept refuses what the index holds, and Reorganize
\* deletes what it has resurrected from one branch and finds in the other.
ConfirmedNotInPool == pool.mapTx \cap txindex.tx = {}

\* Between messages every orphan still waits for a parent that is not in the
\* pool: the work queue of the "tx" handler has tried each orphan after the
\* last of its parents came in, through any chain of orphans.  Nothing looks at
\* the orphans behind a transaction that our own wallet commits or that comes
\* back from a disconnected block.
OrphansAwaitPool ==
    ~rx.busy => \A o \in orphans :
        \E p \in Prevs(o) : p \notin pool.mapTx \/ p \in Local \cup Unstable
=============================================================================
