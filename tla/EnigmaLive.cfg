SPECIFICATION FairSpec
CONSTANTS
    s = s
    a = a
    b = b
    s1 = s1
    s2 = s2
    a1 = a1
    a2 = a2
    b1 = b1
    Nodes = {s, a}
    Coins = {s1, a1}
    Owner <- OwnerPair
    Senders = {s}
    Cancellers = {s}
    Spenders = {s, a}
    Required = 1
    MaxRetries = 1
    MaxSends = 1
    MaxSec = 2
    MaxHeight = 1
PROPERTIES  OfferSettles
CHECK_DEADLOCK FALSE
