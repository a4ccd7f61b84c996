SPECIFICATION Spec
CONSTANTS
    s = s
    a = a
    b = b
    s1 = s1
    s2 = s2
    a1 = a1
    a2 = a2
    b1 = b1
    Nodes = {s, a}
    Coins = {s1, s2, a1, a2}
    Owner <- OwnerTwo
    Senders = {s}
    Cancellers = {}
    Spenders = {}
    Required = 2
    MaxRetries = 1
    MaxSends = 2
    MaxSec = 2
    MaxHeight = 0
INVARIANTS DistinctCloakers
CHECK_DEADLOCK FALSE
