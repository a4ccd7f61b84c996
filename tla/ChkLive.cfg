SPECIFICATION CpLiveSpec
CONSTANTS
    g = g
    a1 = a1
    a2 = a2
    a3 = a3
    b1 = b1
    b2 = b2
    b3 = b3
    c2 = c2
    c3 = c3
    c4 = c4
    ka = ka
    kb = kb
    tp = tp
    tq = tq
    tr = tr
    ts = ts
    k1 = k1
    k2 = k2
    NoTx = NoTx
    NoBlock = NoBlock
    NoStake = NoStake
    Genesis = g
    Tx = {ka}
    Ins <- NoIns
    Outs <- OutsOf
    Generated = {ka}
    NonStandard = {}
    Unpayable = {}
    Free = {}
    Big = {}
    Local = {}
    Unstable = {}
    Confirmed = {}
    MaxOrphans = 1
    Checkpointed = {b2}
    Keys <- OneKey
    Hardened <- OnlyGenesis
    Block = {g, a1, a2, a3, b1, b2, c2}
    Prev <- PrevTree
    Vtx <- NoVtx
    BlockTrust <- TrustTree
    Stake <- Restakes
    Invalid = {}
    Unacceptable = {}
    MaxCrashes = 0
PROPERTIES  CheckpointedChainConverges
CHECK_DEADLOCK FALSE
