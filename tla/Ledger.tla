-------------------------------- MODULE Ledger --------------------------------
(***************************************************************************)
(* What the database promises about the best chain, whatever happens to    *)
(* the process: the transaction index and the links from block to block    *)
(* are always those of one chain that connects from end to end, and they   *)
(* are replaced, in one step, only by those of a chain with more trust.    *)
(***************************************************************************)
EXTENDS Naturals

CONSTANTS
    Block,      \* blocks; each stands for the chain that ends with it
    Genesis,    \* the first block
    Connects,   \* the blocks whose chains connect
    Trust,      \* Trust[b]: the trust of the chain to b
    IndexAt,    \* IndexAt[b]: the transaction index of the chain to b
    LinksAt     \* LinksAt[b]: the links along the chain to b, and no others

VARIABLES
    best,       \* the block that hashBestChain names
    index,      \* the transaction index
    links       \* the hashNext links of the block index

Init == best = Genesis /\ index = IndexAt[Genesis] /\ links = LinksAt[Genesis]

\* The chain to b becomes the best chain.
Switch(b) ==
    /\ best' = b
    /\ b \in Connects /\ Trust[b] > Trust[best]
    /\ index' = IndexAt[b]
    /\ links' = LinksAt[b]

Next == \E b \in Block : Switch(b)

Spec == Init /\ [][Next]_<<best, index, links>>
===============================================================================
