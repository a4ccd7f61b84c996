SPECIFICATION PeersSpec
CONSTANTS
    a = a
    b = b
    c = c
    Node = {a, b, c}
    Announcer = {a}
    FirstLinks <- Triangle
    Timeout = 4
    MaxHops = 3
    BanTime = 2
    LastAnnounce = 3
    MaxTime = 7
    MaxFaults = 1
INVARIANTS StaysListed GoneForgotten
CHECK_DEADLOCK FALSE
