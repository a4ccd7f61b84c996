------------------------------- MODULE AddrMan -------------------------------
(***************************************************************************)
(* The address manager: addresses heard of in the "new" buckets, several   *)
(* buckets for one address, and addresses that answered in the "tried"     *)
(* buckets, with the indexes over them.  Every call holds cs.  Times other *)
(* than that of the last success are left out: what depends on them        *)
(* (IsTerrible, the age of an entry, the random choices) may go any way.   *)
(***************************************************************************)
EXTENDS Integers, SequencesExt

CONSTANTS
    Addr,           \* routable addresses
    Source,         \* who tells us about addresses
    NewBucket,      \* NewBucket[a][s]: GetNewBucket
    TriedBucket,    \* TriedBucket[a]: GetTriedBucket
    NewSize,        \* ADDRMAN_NEW_BUCKET_SIZE
    TriedSize,      \* ADDRMAN_TRIED_BUCKET_SIZE
    PerAddress,     \* ADDRMAN_NEW_BUCKETS_PER_ADDRESS
    Inspect,        \* ADDRMAN_TRIED_ENTRIES_INSPECT_ON_EVICT
    MaxPct,         \* ADDRMAN_GETADDR_MAX_PCT
    MaxGood         \* bound: calls of Good

NewBuckets == UNION {{NewBucket[a][s] : s \in Source} : a \in Addr}
TriedBuckets == {TriedBucket[a] : a \in Addr}
Id == 1..(Cardinality(Addr) + 1)

ASSUME AddrManAssumption ==
    /\ IsFiniteSet(Addr)
    /\ DOMAIN NewBucket = Addr /\ DOMAIN TriedBucket = Addr
    /\ {NewSize, TriedSize, PerAddress, Inspect} \subseteq Nat \ {0}
    /\ MaxPct \in 0..100 /\ MaxGood \in Nat

VARIABLES
    mapInfo,        \* nId -> address, source, nRefCount, fInTried, nRandomPos, nLastSuccess
    mapAddr,        \* address -> nId
    vRandom,        \* all nIds
    vvNew,          \* bucket -> set of nIds
    vvTried,        \* bucket -> sequence of nIds
    nNew, nTried,
    nGood           \* calls of Good so far, the clock of nLastSuccess

addrVars == <<mapInfo, mapAddr, vRandom, vvNew, vvTried, nNew, nTried, nGood>>

-----------------------------------------------------------------------------
\* The tables as one record, which the functions below take and return.
Tables == [info |-> mapInfo, addr |-> mapAddr, rnd |-> vRandom, new |-> vvNew,
           tried |-> vvTried, nNew |-> nNew, nTried |-> nTried]

Become(t) ==
    /\ mapInfo' = t.info /\ mapAddr' = t.addr /\ vRandom' = t.rnd
    /\ vvNew' = t.new /\ vvTried' = t.tried
    /\ nNew' = t.nNew /\ nTried' = t.nTried

\* nIdCount never comes back to an id; here an id is fresh when nothing holds it.
FreshId(t) ==
    CHOOSE n \in Id : /\ n \notin DOMAIN t.info /\ n \notin ToSet(t.rnd)
                      /\ \A b \in NewBuckets : n \notin t.new[b]
                      /\ \A b \in TriedBuckets : n \notin ToSet(t.tried[b])

Create(t, a, s) ==
    LET n == FreshId(t) IN
    [t EXCEPT !.info = n :> [addr |-> a, source |-> s, refs |-> 0, tried |-> FALSE,
                             pos |-> Len(t.rnd) + 1, success |-> 0] @@ @,
              !.addr = a :> n @@ @,
              !.rnd = Append(@, n),
              !.nNew = @ + 1]

\* Mutant of SwapRandom: the second entry is not told its new position.
SwapRandomHalf(t, i, j) ==
    [t EXCEPT !.info[t.rnd[i]].pos = j,
              !.rnd = [@ EXCEPT ![i] = t.rnd[j], ![j] = t.rnd[i]]]

SwapRandom(t, i, j) ==
    [t EXCEPT !.info = [@ EXCEPT ![t.rnd[i]].pos = j, ![t.rnd[j]].pos = i],
              !.rnd = [@ EXCEPT ![i] = t.rnd[j], ![j] = t.rnd[i]]]

\* One bucket lets go of n; the last one deletes it.
Unref(t, n) ==
    IF t.info[n].refs > 1 THEN [t EXCEPT !.info[n].refs = @ - 1]
    ELSE LET u == SwapRandom(t, t.info[n].pos, Len(t.rnd)) IN
         [u EXCEPT !.info = Restrict(@, DOMAIN @ \ {n}),
                   !.addr = Restrict(@, DOMAIN @ \ {u.info[n].addr}),
                   !.rnd = Front(@),
                   !.nNew = @ - 1]

\* ShrinkNew may drop any entry of a bucket: a terrible one, or the oldest of
\* four that are picked at random.
ShrinkNew(t, b, n) == [Unref(t, n) EXCEPT !.new[b] = @ \ {n}]

\* The end of Add_: nId enters bucket b, in the place of x when b is full.
Enter(t, n, b, x) ==
    LET u == [t EXCEPT !.info[n].refs = @ + 1]
        v == IF Cardinality(u.new[b]) = NewSize THEN ShrinkNew(u, b, x) ELSE u
    IN  [v EXCEPT !.new[b] = @ \cup {n}]
-----------------------------------------------------------------------------
\* SelectTried: r[i] is the random position whose entry moves to i.  The
\* position kept for the oldest entry is r[i], where it was before the swap.
SelectTried(info, v, r) ==
    LET Swapped(w, i) == [w EXCEPT ![i] = w[r[i]], ![r[i]] = w[i]]
        Look(s, i) ==
            LET w == Swapped(s.v, i) IN
            IF s.oldest = 0 \/ info[w[i]].success < info[s.oldest].success
            THEN [v |-> w, oldest |-> w[i], pos |-> r[i]]
            ELSE [s EXCEPT !.v = w]
    IN  FoldLeft(Look, [v |-> v, oldest |-> 0, pos |-> 0], [i \in DOMAIN r |-> i])

\* The draws SelectTried can make in a bucket of len entries.
Draws(len) ==
    {r \in [1..Min({Inspect, len}) -> 1..len] : \A i \in DOMAIN r : i <= r[i]}

OutOfNew(t, n) ==
    [t EXCEPT !.info[n].refs = @ - Cardinality({b \in NewBuckets : n \in t.new[b]}),
              !.new = [b \in NewBuckets |-> @[b] \ {n}],
              !.nNew = @ - 1]

\* The entry that makes place in a tried bucket goes back to a new bucket: its
\* own, or origin, the one the promoted entry was found in.
Evict(t, old, origin) ==
    LET own == NewBucket[t.info[old].addr][t.info[old].source]
        b == IF Cardinality(t.new[own]) < NewSize THEN own ELSE origin
    IN  [t EXCEPT !.info[old].tried = FALSE, !.info[old].refs = 1,
                  !.new[b] = @ \cup {old}, !.nNew = @ + 1]

MakeTried(t, n, origin, r) ==
    LET u == OutOfNew(t, n)
        k == TriedBucket[u.info[n].addr]
        sel == SelectTried(u.info, u.tried[k], r)
        v == IF Len(u.tried[k]) < TriedSize
             THEN [u EXCEPT !.tried[k] = Append(@, n), !.nTried = @ + 1]
             ELSE [Evict(u, sel.v[sel.pos], origin)
                       EXCEPT !.tried[k] = [sel.v EXCEPT ![sel.pos] = n]]
    IN  [v EXCEPT !.info[n].tried = TRUE]

-----------------------------------------------------------------------------
AddrManInit ==
    /\ mapInfo = <<>> /\ mapAddr = <<>> /\ vRandom = <<>>
    /\ vvNew = [b \in NewBuckets |-> {}]
    /\ vvTried = [b \in TriedBuckets |-> <<>>]
    /\ nNew = 0 /\ nTried = 0 /\ nGood = 0

\* Add_ of an address we know goes on only with news, outside tried, below the
\* bound on buckets, and at random.
Known(a) == a \in DOMAIN mapAddr

Welcome(a) ==
    Known(a) => /\ ~mapInfo[mapAddr[a]].tried
                /\ mapInfo[mapAddr[a]].refs < PerAddress

Add(a, s) ==
    LET t == IF Known(a) THEN Tables ELSE Create(Tables, a, s)
        n == t.addr[a]
        b == NewBucket[a][s]
    IN  /\ Welcome(a)
        /\ n \notin t.new[b]
        /\ \E x \in t.new[b] \cup {n} :
              /\ x # n \/ Cardinality(t.new[b]) < NewSize
              /\ Become(Enter(t, n, b, x))
        /\ UNCHANGED nGood

Good(a) ==
    /\ nGood < MaxGood
    /\ Known(a)
    /\ nGood' = nGood + 1
    /\ LET n == mapAddr[a]
           t == [Tables EXCEPT !.info[n].success = nGood + 1]
       IN  IF mapInfo[n].tried THEN Become(t)
           ELSE \E origin \in {b \in NewBuckets : n \in vvNew[b]},
                   r \in Draws(Max({1, Len(vvTried[TriedBucket[a]])})) :
                   Become(MakeTried(t, n, origin, r))

\* GetAddr_ shuffles the front of vRandom, over the whole of it.
GetAddr ==
    LET nodes == (MaxPct * Len(vRandom)) \div 100 IN
    /\ \E r \in {f \in [1..nodes -> DOMAIN vRandom] : \A i \in 1..nodes : i <= f[i]} :
          Become(FoldLeft(LAMBDA t, i : SwapRandom(t, i, r[i]), Tables, [i \in 1..nodes |-> i]))
    /\ UNCHANGED nGood

\* What is read back from peers.dat: the new entries in the order of their ids,
\* the tried ones after them, as many as their bucket takes, and the new buckets
\* by the index of the entry in the file.  (The bound on an address's buckets is
\* tested again on loading; no file written from these tables exceeds it.)
Before(t, n) ==
    {m \in DOMAIN t.info : /\ t.info[m].tried /\ m < n
                           /\ TriedBucket[t.info[m].addr] = TriedBucket[t.info[n].addr]}

\* Mutant of Fits: one place fewer than the bucket has.
FitsBelow(t, n) == Cardinality(Before(t, n)) < TriedSize - 1

Fits(t, n) == Cardinality(Before(t, n)) < TriedSize

Loaded(t) ==
    LET ids == SetToSortSeq(DOMAIN t.info, <)
        news == SelectSeq(ids, LAMBDA n : t.info[n].refs > 0)
        kept == SelectSeq(ids, LAMBDA n : t.info[n].tried /\ Fits(t, n))
        file == news \o kept
        index(n) == CHOOSE i \in DOMAIN file : file[i] = n
        all == [i \in DOMAIN file |-> i]
        buckets == [b \in NewBuckets |-> {index(n) : n \in t.new[b]}]
    IN  [info |-> [i \in DOMAIN file |->
                      [t.info[file[i]] EXCEPT
                          !.pos = i,
                          !.tried = i > Len(news),
                          !.refs = Cardinality({b \in NewBuckets : i \in buckets[b]})]],
         addr |-> [a \in {t.info[file[i]].addr : i \in DOMAIN file} |->
                      CHOOSE i \in DOMAIN file : t.info[file[i]].addr = a],
         rnd |-> all,
         new |-> buckets,
         tried |-> [b \in TriedBuckets |->
                      SelectSeq(all, LAMBDA i : /\ i > Len(news)
                                                /\ TriedBucket[t.info[file[i]].addr] = b)],
         nNew |-> t.nNew,
         nTried |-> t.nTried - (Cardinality({n \in DOMAIN t.info : t.info[n].tried}) - Len(kept))]

\* StopNode dumps the tables, the next start reads them.
Restart == Become(Loaded(Tables)) /\ UNCHANGED nGood

AddrManNext ==
    \/ \E a \in Addr, s \in Source : Add(a, s)
    \/ \E a \in Addr : Good(a)
    \/ GetAddr
    \/ Restart

AddrManSpec == AddrManInit /\ [][AddrManNext]_addrVars

-----------------------------------------------------------------------------
\* Check_, the consistency check of a DEBUG_ADDRMAN build, would return 0 after
\* every call: the counters, the index by address, the random order with its
\* back pointers, the tried vectors and the reference counts of the new buckets
\* all describe the same entries (addrman.cpp, Check_).  No bucket holds more than
\* its size, also when an evicted entry finds its own bucket full and goes where
\* the promoted one was, of which MakeTried says "there is certainly place there".
Consistent ==
    LET tried == {n \in DOMAIN mapInfo : mapInfo[n].tried}
        new == DOMAIN mapInfo \ tried
        Places(n) == {p \in TriedBuckets \X (1..TriedSize) :
                         p[2] \in DOMAIN vvTried[p[1]] /\ vvTried[p[1]][p[2]] = n}
    IN  /\ Len(vRandom) = nTried + nNew
        /\ Cardinality(tried) = nTried /\ Cardinality(new) = nNew
        /\ \A n \in tried : /\ mapInfo[n].success > 0 /\ mapInfo[n].refs = 0
                            /\ Cardinality(Places(n)) = 1
        /\ \A n \in new : /\ mapInfo[n].refs \in 1..PerAddress
                          /\ mapInfo[n].refs = Cardinality({b \in NewBuckets : n \in vvNew[b]})
        /\ \A n \in DOMAIN mapInfo :
              /\ mapInfo[n].addr \in DOMAIN mapAddr /\ mapAddr[mapInfo[n].addr] = n
              /\ mapInfo[n].pos \in DOMAIN vRandom /\ vRandom[mapInfo[n].pos] = n
        /\ \A b \in TriedBuckets : ToSet(vvTried[b]) \subseteq tried
                                    /\ Len(vvTried[b]) <= TriedSize
        /\ \A b \in NewBuckets : vvNew[b] \subseteq new /\ Cardinality(vvNew[b]) <= NewSize

\* An address that is in the tried table is still known after the next call or a
\* restart: entries are "never deleted while in the tried table, only possibly
\* evicted back to the new table" (addrman.h, ShrinkNew).
TriedNotForgotten ==
    [][\A n \in DOMAIN mapInfo :
          mapInfo[n].tried => mapInfo[n].addr \in DOMAIN mapAddr']_addrVars
=============================================================================
