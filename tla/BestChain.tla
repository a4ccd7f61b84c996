------------------------------ MODULE BestChain ------------------------------
(***************************************************************************)
(* The block index, the best chain and the blocks without a parent, over   *)
(* the memory pool of MemPool.  ProcessBlock runs under cs_main from its   *)
(* first step to its last; the steps here end where the database commits,  *)
(* because a crash there keeps what is on disk and loses what is in        *)
(* memory.  A restart is LoadBlockIndex.                                   *)
(***************************************************************************)
EXTENDS MemPool, SequencesExt

CONSTANTS
    Block,          \* blocks, named by their hash
    NoBlock,        \* no block
    Genesis,        \* the genesis block
    Prev,           \* Prev[b]: hashPrevBlock
    Vtx,            \* Vtx[b]: the transactions of b, in order
    BlockTrust,     \* BlockTrust[b]: GetBlockTrust
    Stake,          \* Stake[b]: (prevoutStake, nStakeTime), or NoStake
    NoStake,        \* a proof-of-work block
    Invalid,        \* pass AcceptBlock and fail a check of ConnectBlock other
                    \* than those on the transaction index
    Unacceptable,   \* fail a check of AcceptBlock
    MaxCrashes      \* bound: crashes in the whole run

ASSUME BlockAssumption ==
    /\ IsFiniteSet(Block) /\ NoBlock \notin Block /\ Genesis \in Block
    /\ Prev \in [Block \ {Genesis} -> Block]
    /\ Vtx \in [Block -> Seq(Tx)]
    /\ BlockTrust \in [Block -> Nat \ {0}]
    /\ Invalid \subseteq Block /\ Unacceptable \subseteq Block
    /\ MaxCrashes \in Nat

VARIABLES
    \* In memory.
    mapBlockIndex,      \* its keys
    pnext,              \* pnext[b]: CBlockIndex::pnext
    pindexBest,         \* with hashBestChain, nBestHeight, bnBestChainTrust
    mapOrphanBlocks,    \* blocks whose parent is unknown
    setStakeSeen,       \* stakes of the blocks in mapBlockIndex
    setStakeSeenOrphan, \* stakes of the blocks in mapOrphanBlocks
    proc,               \* the ProcessBlock call in progress
    bestInvalidTrust,   \* bnBestInvalidTrust
    \* On disk, with txindex.
    disk,               \* index entries, their hashNext, hashBestChain
    \* History.
    nCrashes,           \* crashes so far
    torn                \* SetBestChain has worked from a best block in memory
                        \* that was not the one on disk

memVars == <<mapBlockIndex, pnext, pindexBest>>
seenVars == <<mapOrphanBlocks, setStakeSeen, setStakeSeenOrphan>>
histVars == <<nCrashes, torn>>
chainVars == <<mapBlockIndex, pnext, pindexBest, mapOrphanBlocks, setStakeSeen,
               setStakeSeenOrphan, proc, disk, bestInvalidTrust, nCrashes, torn>>
vars == <<poolVars, chainVars>>

-----------------------------------------------------------------------------
\* The chain from the genesis block to b, and its trust.
Chain[b \in Block] ==
    IF b = Genesis THEN <<b>> ELSE Append(Chain[Prev[b]], b)
ChainTrust[b \in Block] ==
    IF b = Genesis THEN BlockTrust[b] ELSE ChainTrust[Prev[b]] + BlockTrust[b]
Height(b) == Len(Chain[b]) - 1
Ancestors(b) == ToSet(Chain[b])

\* The last block that two chains share, and what lies above it.
Fork(b, c) ==
    CHOOSE f \in Ancestors(b) \cap Ancestors(c) :
        \A x \in Ancestors(b) \cap Ancestors(c) : Height(x) <= Height(f)
Above(f, b) == SubSeq(Chain[b], Len(Chain[f]) + 1, Len(Chain[b]))

Fails(idx) == [ok |-> FALSE, idx |-> idx]

\* ConnectBlock: every transaction against what the ones before it left.
ConnectTxs(idx, txs) ==
    FoldLeft(LAMBDA r, t : IF r.ok /\ ConnectableTx(r.idx, t)
                           THEN [ok |-> TRUE, idx |-> ConnectTx(r.idx, t)]
                           ELSE Fails(idx),
             [ok |-> TRUE, idx |-> idx], txs)
ConnectBlock(idx, b) == IF b \in Invalid THEN Fails(idx) ELSE ConnectTxs(idx, Vtx[b])

\* DisconnectBlock: last transaction first.
DisconnectBlock(idx, b) ==
    FoldLeft(LAMBDA r, t : IF r.ok /\ Prevs(t) \subseteq r.idx.tx
                           THEN [ok |-> TRUE, idx |-> DisconnectTx(r.idx, t)]
                           ELSE Fails(idx),
             [ok |-> TRUE, idx |-> idx], Reverse(Vtx[b]))

\* Connecting or disconnecting one block after the other, all or nothing:
\* the changes are in one database transaction.
EachBlock(Op(_, _), idx, bs) ==
    FoldLeft(LAMBDA r, b : IF r.ok THEN Op(r.idx, b) ELSE r,
             [ok |-> TRUE, idx |-> idx], bs)

\* The database part of Reorganize(b).
ReorganizeIndex(idx, best, b) ==
    LET f == Fork(best, b)
        down == EachBlock(DisconnectBlock, idx, Reverse(Above(f, best)))
    IN  IF down.ok THEN EachBlock(ConnectBlock, down.idx, Above(f, b)) ELSE down

\* Its effect on the pnext pointers, in memory or (as hashNext) on disk.
ReorganizeNext(next, best, b) ==
    LET f == Fork(best, b)
        cut == {Prev[x] : x \in ToSet(Above(f, best))}
        new == ToSet(Above(f, b))
    IN  [x \in Block |-> IF \E y \in new : Prev[y] = x
                         THEN CHOOSE y \in new : Prev[y] = x
                         ELSE IF x \in cut THEN NoBlock ELSE next[x]]

TxsOf(bs) == FlattenSeq([i \in DOMAIN bs |-> Vtx[bs[i]]])

RemoveAll(p, txs) == FoldLeft(RemoveTx, p, txs)

\* AcceptToMemoryPool(txdb, false) of each transaction that is not generated.
Resurrect(p, idx, txs) ==
    FoldLeft(LAMBDA q, t : IF Accept(q, idx, t, FALSE) = "accepted"
                           THEN AddUnchecked(q, t) ELSE q, p, txs)

\* Fault: first delete, then resurrect.
ReorganizePoolSwapped(p, idx, best, b) ==
    LET f == Fork(best, b) IN
    Resurrect(RemoveAll(p, TxsOf(Above(f, b))), idx,
              TxsOf(Reverse(Above(f, best))))

\* The pool part of Reorganize(b): resurrect, then delete.
ReorganizePool(p, idx, best, b) ==
    LET f == Fork(best, b) IN
    RemoveAll(Resurrect(p, idx, TxsOf(Reverse(Above(f, best)))),
              TxsOf(Above(f, b)))

\* The first block of the branch to b that has more trust than the best chain;
\* the blocks after it are connected one by one.
Intermediate(b) ==
    IF ChainTrust[b] <= ChainTrust[pindexBest] THEN b
    ELSE CHOOSE x \in Ancestors(b) :
            /\ ChainTrust[x] > ChainTrust[pindexBest]
            /\ \A y \in Ancestors(b) :
                  ChainTrust[y] > ChainTrust[pindexBest] => Height(x) <= Height(y)

-----------------------------------------------------------------------------
Idle == [step |-> "idle", block |-> NoBlock, orphan |-> FALSE,
         rest |-> <<>>, work |-> <<>>]

BlocksInit ==
    /\ mapBlockIndex = {Genesis} /\ pindexBest = Genesis
    /\ pnext = [b \in Block |-> NoBlock]
    /\ mapOrphanBlocks = {} /\ setStakeSeen = {} /\ setStakeSeenOrphan = {}
    /\ proc = Idle
    /\ disk = [index |-> {Genesis}, next |-> [b \in Block |-> NoBlock],
               best |-> Genesis]
    /\ bestInvalidTrust = 0
    /\ nCrashes = 0 /\ torn = FALSE

Init == PoolInit /\ BlocksInit

Stakes(bs) == {Stake[b] : b \in bs} \ {NoStake}
HasOrphanChild(b) == \E o \in mapOrphanBlocks : Prev[o] = b

\* Fault: one copy of a stake, whatever waits for the block.
StakeAllowedOnce(b, seen) == Stake[b] = NoStake \/ Stake[b] \notin seen

\* A stake seen before is accepted only for a block an orphan waits for.
StakeAllowed(b, seen) ==
    Stake[b] = NoStake \/ Stake[b] \notin seen \/ HasOrphanChild(b)

\* A block we have neither in the index nor as an orphan.
Receivable(b) ==
    /\ proc.step = "idle" /\ ~rx.busy
    /\ b \notin mapBlockIndex \cup mapOrphanBlocks
    /\ StakeAllowed(b, setStakeSeen)

\* ProcessBlock of a block whose parent is unknown.
StoreOrphan(b) ==
    /\ Receivable(b) /\ Prev[b] \notin mapBlockIndex
    /\ StakeAllowed(b, setStakeSeenOrphan)
    /\ mapOrphanBlocks' = mapOrphanBlocks \cup {b}
    /\ setStakeSeenOrphan' = setStakeSeenOrphan \cup Stakes({b})
    /\ UNCHANGED <<poolVars, memVars, setStakeSeen, proc, disk,
                   bestInvalidTrust, histVars>>

\* AcceptBlock and AddToBlockIndex up to the commit of the index entry.
AddToBlockIndex(b) ==
    /\ mapBlockIndex' = mapBlockIndex \cup {b}
    /\ setStakeSeen' = setStakeSeen \cup Stakes({b})
    /\ disk' = [disk EXCEPT !.index = @ \cup {b}]
    /\ UNCHANGED <<poolVars, pnext, pindexBest, mapOrphanBlocks,
                   setStakeSeenOrphan, bestInvalidTrust, histVars>>

\* Fault: the longer chain is the better one.
StepAfterIndexHeight(b) ==
    IF Height(b) > Height(pindexBest) THEN "best" ELSE "accepted"

\* Fault: every block goes to SetBestChain.
StepAfterIndexAlways(b) == "best"

\* A block with more trust than the best chain goes to SetBestChain.
StepAfterIndex(b) ==
    IF ChainTrust[b] > ChainTrust[pindexBest] THEN "best" ELSE "accepted"

\* ProcessBlock of a block whose parent is known.
ProcessBlock(b) ==
    /\ Receivable(b) /\ b # Genesis /\ Prev[b] \in mapBlockIndex
    /\ b \notin Unacceptable
    /\ AddToBlockIndex(b)
    /\ proc' = [Idle EXCEPT !.step = StepAfterIndex(b), !.block = b]

-----------------------------------------------------------------------------
\* InvalidChainFound
InvalidChainFound(b) ==
    bestInvalidTrust' =
        IF ChainTrust[b] > bestInvalidTrust THEN ChainTrust[b] ELSE bestInvalidTrust

\* SetBestChainInner when ConnectBlock succeeds: one commit, then memory.
ConnectBest(b, r) ==
    /\ txindex' = r.idx
    /\ disk' = [disk EXCEPT !.next[Prev[b]] = b, !.best = b]
    /\ pnext' = [pnext EXCEPT ![Prev[b]] = b]
    /\ pool' = RemoveAll(pool, Vtx[b])

\* SetBestChain of a block on top of the best chain.
ExtendBestChain ==
    /\ proc.step = "best" /\ Prev[proc.block] = pindexBest
    /\ \E r \in {ConnectBlock(txindex, proc.block)} :
          \/ /\ r.ok /\ ConnectBest(proc.block, r)
             /\ pindexBest' = proc.block
             /\ proc' = [proc EXCEPT !.step = "accepted"]
             /\ UNCHANGED bestInvalidTrust
          \/ /\ ~r.ok /\ InvalidChainFound(proc.block)
             /\ proc' = [proc EXCEPT !.step = "refused"]
             /\ UNCHANGED <<txindex, disk, pnext, pool, pindexBest>>
    /\ torn' = (torn \/ pindexBest # disk.best)
    /\ UNCHANGED <<mapBlockIndex, seenVars, orphans, byPrev, rx, nCrashes>>

\* SetBestChain of any other block: Reorganize to the intermediate block in
\* one commit, then memory.
ReorganizeChain ==
    /\ proc.step = "best" /\ Prev[proc.block] # pindexBest
    /\ \E i \in {Intermediate(proc.block)} :
       \E r \in {ReorganizeIndex(txindex, pindexBest, i)} :
          \/ /\ r.ok
             /\ txindex' = r.idx
             /\ disk' = [disk EXCEPT !.best = i,
                           !.next = ReorganizeNext(@, pindexBest, i)]
             /\ pnext' = ReorganizeNext(pnext, pindexBest, i)
             /\ pool' = ReorganizePool(pool, r.idx, pindexBest, i)
             /\ pindexBest' = IF i = proc.block THEN i ELSE pindexBest
             /\ proc' = [proc EXCEPT
                           !.step = IF i = proc.block THEN "accepted" ELSE "rest",
                           !.rest = Above(i, proc.block)]
             /\ UNCHANGED bestInvalidTrust
          \/ /\ ~r.ok /\ InvalidChainFound(proc.block)
             /\ proc' = [proc EXCEPT !.step = "refused"]
             /\ UNCHANGED <<txindex, disk, pnext, pool, pindexBest>>
    /\ torn' = (torn \/ pindexBest # disk.best)
    /\ UNCHANGED <<mapBlockIndex, seenVars, orphans, byPrev, rx, nCrashes>>

\* One of the blocks postponed by SetBestChain.  When none is left, and also
\* when one fails, the new best block in memory is the block SetBestChain was
\* called for.
ConnectRest ==
    /\ proc.step = "rest"
    /\ \E r \in {ConnectBlock(txindex, Head(proc.rest))} :
          /\ \/ /\ r.ok /\ ConnectBest(Head(proc.rest), r)
                /\ UNCHANGED bestInvalidTrust
             \/ /\ ~r.ok /\ InvalidChainFound(Head(proc.rest))
                /\ UNCHANGED <<txindex, disk, pnext, pool>>
          /\ IF r.ok /\ Len(proc.rest) > 1
             THEN /\ proc' = [proc EXCEPT !.rest = Tail(@)]
                  /\ UNCHANGED pindexBest
             ELSE /\ proc' = [proc EXCEPT !.step = "accepted", !.rest = <<>>]
                  /\ pindexBest' = proc.block
    /\ UNCHANGED <<mapBlockIndex, seenVars, orphans, byPrev, rx, histVars>>

-----------------------------------------------------------------------------
\* An orphan that was tried leaves the maps, accepted or not.
DropOrphan(b) ==
    /\ mapOrphanBlocks' = mapOrphanBlocks \ {b}
    /\ setStakeSeenOrphan' = setStakeSeenOrphan \ Stakes({b})

\* AcceptBlock returns true: the orphans behind the block are next.
BlockAccepted ==
    /\ proc.step = "accepted"
    /\ IF proc.orphan THEN DropOrphan(proc.block)
       ELSE UNCHANGED <<mapOrphanBlocks, setStakeSeenOrphan>>
    /\ proc' = [Idle EXCEPT !.step = "work", !.work = Append(proc.work, proc.block)]
    /\ UNCHANGED <<poolVars, memVars, setStakeSeen, disk, bestInvalidTrust,
                   histVars>>

\* It returns false: ProcessBlock ends, or goes on with the next orphan.
BlockRefused ==
    /\ proc.step = "refused"
    /\ IF proc.orphan THEN DropOrphan(proc.block)
       ELSE UNCHANGED <<mapOrphanBlocks, setStakeSeenOrphan>>
    /\ proc' = IF proc.orphan
               THEN [Idle EXCEPT !.step = "work", !.work = proc.work] ELSE Idle
    /\ UNCHANGED <<poolVars, memVars, setStakeSeen, disk, bestInvalidTrust,
                   histVars>>

WaitingFor(b) == {o \in mapOrphanBlocks : Prev[o] = b}

\* AcceptBlock of an orphan behind the first block of the work queue.
ProcessOrphan(o) ==
    /\ proc.step = "work" /\ o \in WaitingFor(Head(proc.work))
    /\ o \notin Unacceptable
    /\ AddToBlockIndex(o)
    /\ proc' = [proc EXCEPT !.step = StepAfterIndex(o), !.block = o,
                            !.orphan = TRUE]

\* The same when a check of AcceptBlock fails.
RefuseOrphan(o) ==
    /\ proc.step = "work" /\ o \in WaitingFor(Head(proc.work))
    /\ o \in Unacceptable
    /\ DropOrphan(o)
    /\ UNCHANGED <<poolVars, memVars, setStakeSeen, proc, disk,
                   bestInvalidTrust, histVars>>

\* Fault: the work queue is left after its first block.
NextWorkOnce ==
    /\ proc.step = "work" /\ WaitingFor(Head(proc.work)) = {}
    /\ proc' = Idle
    /\ UNCHANGED <<poolVars, memVars, seenVars, disk, bestInvalidTrust, histVars>>

\* No orphan is left behind the first block of the work queue.
NextWork ==
    /\ proc.step = "work" /\ WaitingFor(Head(proc.work)) = {}
    /\ proc' = IF Len(proc.work) = 1 THEN Idle ELSE [proc EXCEPT !.work = Tail(@)]
    /\ UNCHANGED <<poolVars, memVars, seenVars, disk, bestInvalidTrust, histVars>>

-----------------------------------------------------------------------------
\* Fault: LoadBlockIndex does not restore the links.
CrashNoLinks ==
    /\ nCrashes < MaxCrashes
    /\ nCrashes' = nCrashes + 1
    /\ mapBlockIndex' = disk.index
    /\ pnext' = [b \in Block |-> NoBlock]
    /\ pindexBest' = disk.best
    /\ setStakeSeen' = Stakes(disk.index)
    /\ mapOrphanBlocks' = {} /\ setStakeSeenOrphan' = {}
    /\ proc' = Idle
    /\ pool' = EmptyPool /\ orphans' = {} /\ byPrev' = [p \in Tx |-> {}]
    /\ rx' = Quiet
    /\ bestInvalidTrust' = 0
    /\ UNCHANGED <<txindex, disk, torn>>

\* The process dies, at any of its steps, and starts again: LoadBlockIndex
\* rebuilds the index from the disk, and the pool and the orphans are lost.
\* (It reads bnBestInvalidTrust into a variable of its own.)
Crash ==
    /\ nCrashes < MaxCrashes
    /\ nCrashes' = nCrashes + 1
    /\ mapBlockIndex' = disk.index
    /\ pnext' = disk.next
    /\ pindexBest' = disk.best
    /\ setStakeSeen' = Stakes(disk.index)
    /\ mapOrphanBlocks' = {} /\ setStakeSeenOrphan' = {}
    /\ proc' = Idle
    /\ pool' = EmptyPool /\ orphans' = {} /\ byPrev' = [p \in Tx |-> {}]
    /\ rx' = Quiet
    /\ bestInvalidTrust' = 0
    /\ UNCHANGED <<txindex, disk, torn>>

Transactions ==
    /\ proc.step = "idle"
    /\ TxHandler \/ \E t \in Tx : AcceptWalletTransaction(t)
    /\ UNCHANGED chainVars

Blocks ==
    \/ \E b \in Block : \/ ProcessBlock(b) \/ StoreOrphan(b)
                        \/ ProcessOrphan(b) \/ RefuseOrphan(b)
    \/ ExtendBestChain \/ ReorganizeChain \/ ConnectRest
    \/ BlockAccepted \/ BlockRefused \/ NextWork

Next == Transactions \/ Blocks \/ Crash

Spec == Init /\ [][Next]_vars

-----------------------------------------------------------------------------
\* The index that connecting the chain to b, block by block, would give.
Replay[b \in Block] ==
    IF b = Genesis THEN [ok |-> TRUE, idx |-> IndexOf(Confirmed)]
    ELSE LET before == Replay[Prev[b]]
         IN  IF before.ok THEN ConnectBlock(before.idx, b) ELSE before

\* Between two blocks, memory and disk agree on the index, on the best block
\* and on the links: "make sure it's successfully written to disk before
\* changing memory structure".  There is one exception: after a crash a block
\* may be left for SetBestChain to postpone, and when it fails then, the block
\* after it is the best one in memory and the disk stays behind; from there on
\* SetBestChain starts from the wrong block.
MemoryMatchesDisk ==
    proc.step = "idle" =>
        /\ mapBlockIndex = disk.index
        /\ ~torn /\ Replay[pindexBest].ok => pindexBest = disk.best /\ pnext = disk.next
        /\ torn \/ ~Replay[pindexBest].ok => nCrashes > 0

\* Between two blocks no chain that is known from end to end and connects has
\* more trust than the best chain: AddToBlockIndex tries each block in time.
\* A block whose turn a crash has taken away waits for the next one.
BestChainWins ==
    proc.step = "idle" /\ nCrashes = 0 =>
        \A b \in mapBlockIndex :
            Replay[b].ok => ChainTrust[b] <= ChainTrust[pindexBest]

\* Every block in the orphan maps waits for a parent that is unknown, as a block
\* is held "until we get it", or for one that we have and that fails to connect:
\* ProcessBlock returns before it looks at the orphans behind that one.
OrphansWait ==
    proc.step = "idle" /\ ~torn => \A o \in mapOrphanBlocks :
        Prev[o] \in mapBlockIndex => ~Replay[Prev[o]].ok

\* The links that lead along the chain to b and nowhere else.
LinksTo(b) ==
    [x \in Block |-> IF \E c \in Ancestors(b) \ {Genesis} : Prev[c] = x
                     THEN CHOOSE c \in Ancestors(b) \ {Genesis} : Prev[c] = x
                     ELSE NoBlock]

\* The database goes from the chain of one block to that of another with more
\* trust and shows nothing in between, through crashes and through
\* reorganisations that fail half way: at every moment, and so at every crash,
\* the transaction index and the hashNext links on disk are those of the chain
\* that hashBestChain names.  The exception is that of MemoryMatchesDisk: when
\* the best block in memory is not the one on disk, SetBestChain connects to an
\* index that is not the one of the block below.
LedgerOnDisk ==
    INSTANCE Ledger WITH
        Connects <- {b \in Block : Replay[b].ok},
        Trust <- ChainTrust,
        IndexAt <- [b \in Block |-> Replay[b].idx],
        LinksAt <- [b \in Block |-> LinksTo(b)],
        best <- disk.best,
        index <- txindex,
        links <- disk.next

\* SetBestChainInner and Reorganize implement Ledger under this mapping.
ImplementsLedger ==
    /\ LedgerOnDisk!Init
    /\ [][torn' \/ LedgerOnDisk!Next]_<<disk.best, txindex, disk.next>>
=============================================================================
