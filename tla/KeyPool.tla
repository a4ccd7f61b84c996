------------------------------- MODULE KeyPool -------------------------------
(***************************************************************************)
(* The key pool of a wallet: the numbered records of unused keys in        *)
(* wallet.dat, the set of their numbers in memory, and who draws on them.  *)
(* A spend, an RPC call or the GUI takes a key in one go under cs_wallet;  *)
(* CreateNewBlock reserves a key without it and returns it at its end.     *)
(* EncryptWallet replaces the pool record by record, and the program may   *)
(* stop at any point and read wallet.dat again.                            *)
(*                                                                         *)
(* Keys are numbered in the order in which they are generated.             *)
(***************************************************************************)
EXTENDS Integers, FiniteSetsExt, Functions

CONSTANTS
    Miner,          \* threads that call CreateNewBlock
    KeypoolSize,    \* -keypool
    MaxKeys,        \* bound: keys generated
    MaxRestarts     \* bound: restarts

ASSUME KeyPoolAssumption ==
    /\ {KeypoolSize, MaxKeys, MaxRestarts} \subseteq Nat
    /\ KeypoolSize + 1 <= MaxKeys

VARIABLES
    poolDb,         \* wallet.dat: nIndex -> key
    setKeyPool,     \* the indices in memory
    nKeys,          \* keys generated so far
    crypted, locked,
    task,           \* what EncryptWallet still does, holding cs_wallet
    miner,          \* per thread: pc, and the index it holds
    given,          \* key -> given to an address or to change never, once or more often
    restarts

keyVars == <<poolDb, setKeyPool, nKeys, crypted, locked, task, miner, given, restarts>>

DefaultKey == 1
Key == 1..MaxKeys
NoIndex == -1
Rest == [pc |-> "rest", index |-> NoIndex]

\* The first start: a pool of KeypoolSize + 1, whose first key is the default key.
KeyPoolInit ==
    /\ setKeyPool = 2..(KeypoolSize + 1)
    /\ poolDb = [i \in 2..(KeypoolSize + 1) |-> i]
    /\ nKeys = KeypoolSize + 1
    /\ crypted = FALSE /\ locked = FALSE /\ task = "none"
    /\ miner = [m \in Miner |-> Rest]
    /\ given = [k \in Key |-> IF k = DefaultKey THEN 1 ELSE 0]
    /\ restarts = 0

-----------------------------------------------------------------------------
Pool == [set |-> setKeyPool, db |-> poolDb, keys |-> nKeys]

\* CWalletDB::WritePool: new records, each in place of any with its number.
WritePoolRecords(new, db) ==
    [i \in DOMAIN new \cup DOMAIN db |-> IF i \in DOMAIN new THEN new[i] ELSE db[i]]

\* TopUpKeyPool numbers new keys after the highest index in memory.
TopUpKeyPool(p) ==
    LET missing == Max({0, KeypoolSize + 1 - Cardinality(p.set)})
        end == Max(p.set \cup {0})
        new == (end + 1)..(end + missing)
    IN  [set |-> p.set \cup new,
         db |-> WritePoolRecords([i \in new |-> p.keys + (i - end)], p.db),
         keys |-> p.keys + missing]

\* The pool a reservation draws from, and the index it draws.
Stocked == IF locked THEN Pool ELSE TopUpKeyPool(Pool)
First(p) == IF p.set = {} THEN NoIndex ELSE Min(p.set)
Reserved(p) == [p EXCEPT !.set = @ \ {First(p)}]
Readable(p) == First(p) # NoIndex => First(p) \in DOMAIN p.db
\* Mutant of Kept: the record stays in wallet.dat.
KeptInFile(p, i) == p

Kept(p, i) == [p EXCEPT !.db = Restrict(@, DOMAIN @ \ {i})]
Returned(p, i) == [p EXCEPT !.set = @ \cup ({i} \ {NoIndex})]

Become(p) ==
    /\ p.keys <= MaxKeys
    /\ setKeyPool' = p.set /\ poolDb' = p.db /\ nKeys' = p.keys

Give(k) == given' = [given EXCEPT ![k] = Min({2, @ + 1})]
Free == task = "none"

-----------------------------------------------------------------------------
\* GetKeyFromPool, and CreateTransaction with CommitTransaction for its change:
\* the key leaves the pool and wallet.dat under one hold of cs_wallet.
GetKeyFromPool ==
    LET p == Stocked IN
    /\ Free
    /\ Readable(p)
    /\ First(p) # NoIndex
    /\ Become(Kept(Reserved(p), First(p)))
    /\ Give(p.db[First(p)])
    /\ UNCHANGED <<crypted, locked, task, miner, restarts>>

\* The index is out of the set when ReadPool fails and the exception is thrown.
ReadFails ==
    LET p == Stocked IN
    /\ Free
    /\ ~Readable(p)
    /\ Become(Reserved(p))
    /\ UNCHANGED <<crypted, locked, task, miner, given, restarts>>

\* getinfo: GetOldestKeyPoolTime reserves a key and returns it; keypoolrefill.
Refill ==
    /\ Free
    /\ Readable(Stocked)
    /\ Become(Stocked)
    /\ UNCHANGED <<crypted, locked, task, miner, given, restarts>>

-----------------------------------------------------------------------------
\* CreateNewBlock takes a key for the coinbase from a pool that is locked for
\* no longer than that; with an empty pool it takes the default key. (Which key
\* the coinbase pays is left out: the index is all that CreateNewBlock returns.)
StartBlock(m) ==
    LET p == Stocked
        i == First(p)
    IN  /\ Free
        /\ miner[m].pc = "rest"
        /\ Readable(p)
        /\ Become(Reserved(p))
        /\ miner' = [miner EXCEPT ![m] =
              [pc |-> "build", index |-> i]]
        /\ UNCHANGED <<crypted, locked, task, given, restarts>>

\* The end of CreateNewBlock destroys its CReserveKey, which returns the index.
EndBlock(m) ==
    /\ Free
    /\ miner[m].pc = "build"
    /\ Become(Returned(Pool, miner[m].index))
    /\ miner' = [miner EXCEPT ![m].pc = "search", ![m].index = NoIndex]
    /\ UNCHANGED <<crypted, locked, task, given, restarts>>

\* CheckWork keeps the key of the miner's own CReserveKey, which never held one.
CheckWork(m) ==
    /\ Free
    /\ miner[m].pc = "search"
    /\ Become(Kept(Pool, miner[m].index))
    /\ miner' = [miner EXCEPT ![m] = Rest]
    /\ UNCHANGED <<crypted, locked, task, given, restarts>>

\* The block is stale, or no solution was found.
DropBlock(m) ==
    /\ miner[m].pc = "search"
    /\ miner' = [miner EXCEPT ![m] = Rest]
    /\ UNCHANGED <<poolDb, setKeyPool, nKeys, crypted, locked, task, given, restarts>>

-----------------------------------------------------------------------------
\* EncryptWallet commits the encrypted keys, then NewKeyPool erases the records
\* of the indices in memory and writes new keys from index 1 on, one by one.
EncryptWallet ==
    /\ Free /\ ~crypted
    /\ crypted' = TRUE /\ task' = "erase"
    /\ UNCHANGED <<poolDb, setKeyPool, nKeys, locked, miner, given, restarts>>

ErasePool ==
    LET left == setKeyPool \cap DOMAIN poolDb IN
    /\ task = "erase"
    /\ IF left # {}
       THEN Become(Kept(Pool, Min(left))) /\ UNCHANGED task
       ELSE Become([Pool EXCEPT !.set = {}]) /\ task' = "write"
    /\ UNCHANGED <<crypted, locked, miner, given, restarts>>

WritePool ==
    LET i == Cardinality(setKeyPool) + 1 IN
    /\ task = "write"
    /\ IF i <= KeypoolSize
       THEN /\ Become([set |-> setKeyPool \cup {i},
                       db |-> WritePoolRecords([j \in {i} |-> nKeys + 1], poolDb),
                       keys |-> nKeys + 1])
            /\ UNCHANGED <<task, locked>>
       ELSE /\ task' = "none" /\ locked' = TRUE
            /\ UNCHANGED <<poolDb, setKeyPool, nKeys>>
    /\ UNCHANGED <<crypted, miner, given, restarts>>

\* Lock, by the user or by the timer of walletpassphrase, and Unlock.
SetLocked ==
    /\ Free /\ crypted
    /\ locked' = ~locked
    /\ UNCHANGED <<poolDb, setKeyPool, nKeys, crypted, task, miner, given, restarts>>

\* The program stops, in the middle of anything, and LoadWallet reads the
\* records of wallet.dat into the set.
Restart ==
    /\ restarts < MaxRestarts
    /\ restarts' = restarts + 1
    /\ setKeyPool' = DOMAIN poolDb
    /\ locked' = crypted /\ task' = "none"
    /\ miner' = [m \in Miner |-> Rest]
    /\ UNCHANGED <<poolDb, nKeys, crypted, given>>

KeyPoolNext ==
    \/ GetKeyFromPool \/ ReadFails \/ Refill
    \/ \E m \in Miner : StartBlock(m) \/ EndBlock(m) \/ CheckWork(m) \/ DropBlock(m)
    \/ EncryptWallet \/ ErasePool \/ WritePool \/ SetLocked
    \/ Restart

KeyPoolSpec == KeyPoolInit /\ [][KeyPoolNext]_keyVars

-----------------------------------------------------------------------------
\* No key is given out twice, for an address or for change, whoever holds which
\* index when the wallet is encrypted, or when the program stops and rereads
\* wallet.dat: a key is taken from the pool "so it won't be used again"
\* (wallet.cpp, CommitTransaction).
GivenOnce == \A k \in Key \ {DefaultKey} : given[k] <= 1
=============================================================================
