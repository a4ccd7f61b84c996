SPECIFICATION Spec
CONSTANTS
    g = g
    a1 = a1
    a2 = a2
    a3 = a3
    b1 = b1
    b2 = b2
    b3 = b3
    c2 = c2
    c3 = c3
    c4 = c4
    ka = ka
    kb = kb
    tp = tp
    tq = tq
    tr = tr
    ts = ts
    k1 = k1
    k2 = k2
    NoTx = NoTx
    NoBlock = NoBlock
    NoStake = NoStake
    Genesis = g
    Tx = {ka, kb, tp, tq, tr, ts}
    Ins <- InsOf
    Outs <- OutsOf
    Generated = {ka, kb}
    NonStandard = {}
    Unpayable = {}
    Free = {}
    Big = {}
    Local = {ts}
    Unstable = {}
    Confirmed = {}
    MaxOrphans = 1
    Block = {g, a1, a2, a3, b1, b2, b3, c2, c3, c4}
    Prev <- PrevTree
    Vtx <- VtxTree
    BlockTrust <- TrustTree
    Stake <- NoStakes
    Invalid = {}
    Unacceptable = {b3}
    MaxCrashes = 1
INVARIANTS MemoryMatchesDisk BestChainWins OrphansWait ConfirmedNotInPool
PROPERTY ImplementsLedger
CHECK_DEADLOCK FALSE
