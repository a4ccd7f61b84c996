SPECIFICATION Spec
CONSTANTS
    s = s
    a = a
    b = b
    s1 = s1
    s2 = s2
    a1 = a1
    a2 = a2
    b1 = b1
    Nodes = {s, a, b}
    Coins = {s1, a1, b1}
    Owner <- OwnerOne
    Senders = {s}
    Cancellers = {}
    Spenders = {}
    Required = 1
    MaxRetries = 1
    MaxSends = 1
    MaxSec = 2
    MaxHeight = 0
INVARIANTS FullRequestHasItsTx
CHECK_DEADLOCK FALSE
