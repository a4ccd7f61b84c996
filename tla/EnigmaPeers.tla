----------------------------- MODULE EnigmaPeers -----------------------------
(***************************************************************************)
(* Announcements of Enigma nodes: each node broadcasts its session key, a  *)
(* new announcement before the old one expires; peers list it, relay it    *)
(* once per connection and drop it when it has expired.  Connections are   *)
(* made and lost; each is a pair of queues (TCP) served in order by the    *)
(* message thread.                                                         *)
(***************************************************************************)
EXTENDS Integers, SequencesExt, FiniteSetsExt

CONSTANTS
    Node,
    Announcer,      \* nodes that announce themselves
    FirstLinks,     \* connections that are up at first: <<who called, who was called>>
    Timeout,        \* CLOAKSHIELD_ANNOUNCE_TIMEOUT_SECS, in ticks
    MaxHops,        \* CLOAKSHIELD_MAX_HOPS
    BanTime,        \* ENIGMA_BANSECS_NO_RESPONSE, in ticks
    LastAnnounce,   \* bound: no announcement is made, no ban set after this time
    MaxTime,        \* bound: the time ends here
    MaxFaults       \* bound: bans and connections made later, together

ASSUME PeersAssumption ==
    /\ IsFiniteSet(Node) /\ Announcer \subseteq Node
    /\ "version" \notin Node
    /\ FirstLinks \subseteq Node \X Node
    /\ Timeout \in Nat \ {0} /\ MaxHops \in Nat \ {0}
    /\ {BanTime, LastAnnounce, MaxTime} \subseteq Nat
    /\ MaxFaults \in Nat

VARIABLES
    now,            \* the true time
    last,           \* last[n]: nLastEnigmaTime, Never at first
    anns,           \* anns[n]: mapEnigmaAnns, a set with one entry for each owner
    banned,         \* banned[n][o]: bannedUntil
    link,           \* connections, as in FirstLinks
    hello,          \* hello[n]: peers whose version message n has handled
    known,          \* known[n][m]: setKnownAnns of n's CNode for m
    wire,           \* wire[n][m]: messages from n to m
    taken,          \* history: taken[n][o], the latest timestamp n has listed
    gone,           \* nodes that have left
    nConnects, nBans

vars == <<now, last, anns, banned, link, hello, known, wire, taken, gone,
          nConnects, nBans>>

Never == 0 - 2 * Timeout
\* GetAdjustedTime; the clocks of the nodes agree.
AdjustedTime == now
Peers(n) == {m \in Node : {<<n, m>>, <<m, n>>} \cap link # {}}

Ann(o, t, h) == [owner |-> o, ts |-> t, hops |-> h]
Version == [owner |-> "version", ts |-> 0, hops |-> 0]
Sign(a) == <<a.owner, a.ts>>            \* GetSigningHash leaves the hops out
Entries(n, o) == {a \in anns[n] : a.owner = o}

\* What nMaxObservedTimeOffset is in enigmaann.cpp: util.h declares it static,
\* so that each source file has a variable of its own, and AddTimeData sets only
\* that of util.cpp.
AddOn(n) == 0

IsInEffect(n, a) == AdjustedTime < a.ts + Timeout + AddOn(n)
IsBanned(n, o) == AdjustedTime <= banned[n][o]

-----------------------------------------------------------------------------
PeersInit ==
    /\ now = 0 /\ link = FirstLinks
    /\ last = [n \in Node |-> Never]
    /\ anns = [n \in Node |-> {}]
    /\ banned = [n \in Node |-> [o \in Node |-> Never]]
    /\ hello = [n \in Node |-> Peers(n)]
    /\ known = [n \in Node |-> [m \in Node |-> {}]]
    /\ wire = [n \in Node |-> [m \in Node |-> <<>>]]
    /\ taken = [n \in Node |-> [o \in Node |-> Never]]
    /\ gone = {} /\ nConnects = 0 /\ nBans = 0

\* RelayTo of the announcements in as to the peers ms of n, on top of what ws
\* and ks have: each announcement once in a connection.
Relay(n, as, ms, ws, ks) ==
    LET new(m) == {a \in as : IsInEffect(n, a) /\ Sign(a) \notin ks[n][m]} IN
    /\ wire' = [ws EXCEPT ![n] = [m \in Node |->
                  IF m \in ms THEN ws[n][m] \o SetToSeq(new(m)) ELSE ws[n][m]]]
    /\ known' = [ks EXCEPT ![n] = [m \in Node |->
                  IF m \in ms THEN ks[n][m] \cup {Sign(a) : a \in new(m)}
                  ELSE ks[n][m]]]

\* mapEnigmaAnns[keyHash] = a: the entry of the same owner is replaced.
Listed(n, a) == [anns EXCEPT ![n] = (@ \ Entries(n, a.owner)) \cup {a}]

\* UpdateEnigmaAvailability and broadcastenigma: a quarter of the timeout
\* before the last announcement expires.
UpdateEnigmaAvailability(n) ==
    /\ n \in Announcer \ gone /\ now <= LastAnnounce
    /\ AdjustedTime >= last[n] + Timeout - Timeout \div 4
    /\ last' = [last EXCEPT ![n] = AdjustedTime]
    /\ \E a \in {Ann(n, AdjustedTime, 0)} :
          anns' = Listed(n, a) /\ Relay(n, {a}, Peers(n), wire, known)
    /\ UNCHANGED <<now, banned, link, hello, taken, gone, nConnects, nBans>>

\* The "version" message: the side that was called answers with its own, and
\* what n lists goes to the new peer.
HandleVersion(n, m) ==
    /\ wire[m][n] # <<>> /\ Head(wire[m][n]) = Version
    /\ hello' = [hello EXCEPT ![n] = @ \cup {m}]
    /\ \E ws \in {[wire EXCEPT ![m][n] = Tail(@)]} :
          Relay(n, anns[n], {m},
                IF <<m, n>> \in link THEN [ws EXCEPT ![n][m] = Append(@, Version)] ELSE ws,
                known)
    /\ UNCHANGED <<now, last, anns, banned, link, taken, gone, nConnects, nBans>>

\* Fault: setKnownAnns is not looked at.
NewsAnything(n, m, a) == ~IsBanned(n, a.owner)

\* The "ann" message is news for n: not sent to or by m before.
News(n, m, a) == Sign(a) \notin known[n][m] /\ ~IsBanned(n, a.owner)

\* Fault: the receiver puts its own time on the announcement.
ProcessedRestamped(n, a) == Ann(a.owner, AdjustedTime, a.hops + 1)

\* ProcessAnnouncement
Processed(n, a) == Ann(a.owner, a.ts, a.hops + 1)
Acceptable(n, a) == a.hops < MaxHops /\ IsInEffect(n, a) /\ a.owner # n

\* The "ann" message; one that comes before the version message is ignored.
HandleAnn(n, m) ==
    /\ wire[m][n] # <<>> /\ Head(wire[m][n]) # Version
    /\ \E a \in {Head(wire[m][n])}, ws \in {[wire EXCEPT ![m][n] = Tail(@)]} :
          IF m \in hello[n] /\ News(n, m, a) /\ Acceptable(n, a)
          THEN \E b \in {Processed(n, a)} :
               /\ anns' = Listed(n, b)
               /\ taken' = [taken EXCEPT ![n][b.owner] = Max({@, b.ts})]
               /\ Relay(n, {b}, Peers(n), ws,
                        [known EXCEPT ![n][m] = @ \cup {Sign(a)}])
          ELSE wire' = ws /\ UNCHANGED <<anns, taken, known>>
    /\ UNCHANGED <<now, last, banned, link, hello, gone, nConnects, nBans>>

\* CullEnigmaAnns, by ThreadEnigma2.
CullEnigmaAnns(n) ==
    /\ \E a \in anns[n] : ~IsInEffect(n, a)
    /\ anns' = [anns EXCEPT ![n] = {a \in @ : IsInEffect(n, a)}]
    /\ UNCHANGED <<now, last, banned, link, hello, known, wire, taken, gone,
                   nConnects, nBans>>

BanPeer(n, o) ==
    /\ nConnects + nBans < MaxFaults /\ now <= LastAnnounce /\ o \in Announcer \ {n}
    /\ nBans' = nBans + 1
    /\ banned' = [banned EXCEPT ![n][o] = Max({@, AdjustedTime}) + BanTime]
    /\ UNCHANGED <<now, last, anns, link, hello, known, wire, taken, gone,
                   nConnects>>
-----------------------------------------------------------------------------
\* n connects to m; n sends its version message first.
Connect(n, m) ==
    /\ nConnects + nBans < MaxFaults /\ m # n /\ m \notin Peers(n) /\ {n, m} \cap gone = {}
    /\ nConnects' = nConnects + 1
    /\ link' = link \cup {<<n, m>>}
    /\ wire' = [wire EXCEPT ![n][m] = <<Version>>]
    /\ UNCHANGED <<now, last, anns, banned, hello, known, taken, gone, nBans>>

\* The CNode objects of these connections are deleted.
Unlinked(pairs) ==
    LET cut(x, y) == {<<x, y>>, <<y, x>>} \cap pairs # {} IN
    /\ link' = link \ pairs
    /\ wire' = [x \in Node |-> [y \in Node |-> IF cut(x, y) THEN <<>> ELSE wire[x][y]]]
    /\ known' = [x \in Node |-> [y \in Node |-> IF cut(x, y) THEN {} ELSE known[x][y]]]
    /\ hello' = [x \in Node |-> {y \in hello[x] : ~cut(x, y)}]

\* A connection is lost with what is on its way.
Disconnect(n, m) ==
    /\ MaxFaults > 0 /\ <<n, m>> \in link
    /\ Unlinked({<<n, m>>})
    /\ UNCHANGED <<now, last, anns, banned, taken, gone, nConnects, nBans>>

\* CloakShieldShutdown; its message goes through CloakShield, not through the
\* connections here.
Leave(n) ==
    /\ n \in Announcer \ gone
    /\ gone' = gone \cup {n}
    /\ Unlinked({l \in link : n \in {l[1], l[2]}})
    /\ UNCHANGED <<now, last, anns, banned, taken, nConnects, nBans>>

\* HandleNodeOffline: the message of o has come to n.
HandleNodeOffline(n, o) ==
    /\ o \in gone /\ Entries(n, o) # {}
    /\ anns' = [anns EXCEPT ![n] = @ \ Entries(n, o)]
    /\ taken' = [taken EXCEPT ![n][o] = Never]
    /\ UNCHANGED <<now, last, banned, link, hello, known, wire, gone,
                   nConnects, nBans>>

Tick ==
    /\ now < MaxTime
    /\ now' = now + 1
    /\ UNCHANGED <<last, anns, banned, link, hello, known, wire, taken, gone,
                   nConnects, nBans>>

Handle(n, m) == HandleVersion(n, m) \/ HandleAnn(n, m)

PeersNext ==
    \/ \E n \in Node : \/ UpdateEnigmaAvailability(n) \/ CullEnigmaAnns(n) \/ Leave(n)
    \/ \E n, m \in Node : \/ Handle(n, m) \/ Connect(n, m) \/ Disconnect(n, m)
                          \/ BanPeer(n, m) \/ HandleNodeOffline(n, m)
    \/ Tick

PeersSpec == PeersInit /\ [][PeersNext]_vars

-----------------------------------------------------------------------------
\* Properties

\* "we resend an updated announcement before the previous one expires to account
\* for network delays": whoever has listed an announcement that is in effect
\* lists its owner, however late the copies of older announcements come, while
\* the first connections last and nobody was banned.  (A new connection may be a
\* shorter way, and what comes during a ban is not known when it comes again: an
\* older announcement may then come after a newer one, and it replaces it.)
StaysListed ==
    nConnects = 0 /\ nBans = 0 =>
        \A n, o \in Node : AdjustedTime < taken[n][o] + Timeout => Entries(n, o) # {}

\* A node that has left is forgotten when the last announcement it made has
\* expired, and stays forgotten: CullEnigmaAnns drops what anyone still lists, and
\* no copy that is still on its way, however often relayed, is listed again.
GoneForgotten ==
    \A o \in gone, n \in Node : AdjustedTime >= last[o] + Timeout =>
        /\ \A a \in Entries(n, o) : ~IsInEffect(n, a)
        /\ \A m \in Node : \A a \in Range(wire[m][n]) :
              a.owner = o => ~Acceptable(n, a)
=============================================================================
