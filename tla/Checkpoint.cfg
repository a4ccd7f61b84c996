SPECIFICATION CpSpec
CONSTANTS
    g = g
    a1 = a1
    a2 = a2
    a3 = a3
    b1 = b1
    b2 = b2
    b3 = b3
    c2 = c2
    c3 = c3
    c4 = c4
    ka = ka
    kb = kb
    tp = tp
    tq = tq
    tr = tr
    ts = ts
    k1 = k1
    k2 = k2
    NoTx = NoTx
    NoBlock = NoBlock
    NoStake = NoStake
    Genesis = g
    Tx = {ka, kb, tp, tq, tr, ts}
    Ins <- InsOf
    Outs <- OutsOf
    Generated = {ka, kb}
    NonStandard = {}
    Unpayable = {}
    Free = {}
    Big = {}
    Local = {}
    Unstable = {}
    Confirmed = {}
    MaxOrphans = 1
    Checkpointed = {a1, a2, b1, b2}
    Keys <- TwoKeys
    Hardened <- HardenedLater
    Block = {g, a1, a2, b1, b2, c2, c3}
    Prev <- PrevTree
    Vtx <- VtxTree
    BlockTrust <- TrustTree
    Stake <- Restakes
    Invalid = {b2}
    Unacceptable = {c3}
    MaxCrashes = 2
INVARIANTS SyncCheckpointAccepted CheckpointInBestChain
PROPERTY CheckpointAdvances
CHECK_DEADLOCK FALSE
