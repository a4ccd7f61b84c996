SPECIFICATION NetworkSpec
CONSTANTS
    no = no
    nr = nr
    nm = nm
    nw = nw
    Node <- MCNode
    Origin = no
    Links <- MCLinks
    Fragile <- MCFragile
    Mute <- MCMute
    RetryDelay = 2
    tg = tg
    ta = ta
    tb = tb
    tc = tc
    td = td
    te = te
    tf = tf
    NoTx = NoTx
    Tx = {tg, ta, tb, tc, td, te, tf}
    Ins <- InsTree
    Outs <- OutsTree
    Generated = {tg}
    NonStandard = {}
    Unpayable = {}
    Free = {tb}
    Big = {}
    Local = {td}
    Unstable = {td, te, tf}
    Confirmed = {tg}
    MaxOrphans = 2
    p1 = p1
    p2 = p2
    Alert <- MCAlert
    Peer <- MCPeer
    MaxTime = 3
    MaxScore = 3
    a1 = a1
    a2 = a2
    a3 = a3
    s1 = s1
    s2 = s2
    Addr <- MCAddr
    Source <- MCSource
    NewBucket <- MCNewBucket
    TriedBucket <- MCTriedBucket
    NewSize = 1
    TriedSize = 1
    PerAddress = 2
    Inspect = 4
    MaxPct = 50
    MaxGood = 4
INVARIANTS
    OfferedOrKnown
    PoolMapsAgree
    OrphanMapsAgree
    OrphansAwaitPool
    NoneCancelledListed
    Consistent
PROPERTIES
    TriedNotForgotten
    TransactionSpreads
