SPECIFICATION LiveSpec
CONSTANTS
    a = a  b = b  c = c  d = d  m1 = m1  m2 = m2  m3 = m3  m4 = m4
    Node = {a, b, c, d}
    Peers <- RingPeers
    Known <- RingKnown
    Message = {m1, m2, m3, m4}
    Source <- SourceOf
    Recipients <- RecipientsOf
    Onion = {m1, m3}
    Txs = {m4}
    Throwing = {m2}
    NumNodes = 2
    NumHops = 1
    NumRoutes = 1
    MaxSkins = 25
    MaxSent = 1
    MaxOffline = 1
PROPERTIES AtMostOnce  Delivered
CHECK_DEADLOCK FALSE
