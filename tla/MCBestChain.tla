----------------------------- MODULE MCBestChain -----------------------------
(***************************************************************************)
(* Instances of BestChain for TLC.                                         *)
(***************************************************************************)
EXTENDS BestChain

CONSTANTS
    g, a1, a2, a3, b1, b2, b3, c2, c3, c4,   \* blocks
    ka, kb, tp, tq, tr, ts,             \* transactions
    k1, k2                              \* stakes

\* Two branches from the genesis block, and a third one from a1.
PrevTree ==
    LET prev == a1 :> g @@ a2 :> a1 @@ a3 :> a2 @@ b1 :> g @@ b2 :> b1
                @@ b3 :> b2 @@ c2 :> a1 @@ c3 :> c2 @@ c4 :> c3
    IN  [b \in Block \ {g} |-> prev[b]]

\* ka and kb are the coinbases of a1 and b1; tp spends ka and tr spends it too,
\* tq spends tp, and ts spends kb.
InsOf == ka :> {} @@ kb :> {} @@ tp :> {<<ka, 0>>} @@ tq :> {<<tp, 0>>}
         @@ tr :> {<<ka, 0>>} @@ ts :> {<<kb, 0>>}
OutsOf == [t \in Tx |-> 1]

\* tp is in a2 and in c2; tr, in c3, spends what tp has spent.
VtxTree ==
    LET vtx == g :> <<>> @@ a1 :> <<ka>> @@ a2 :> <<tp, tq>> @@ a3 :> <<>>
               @@ b1 :> <<kb>> @@ b2 :> <<ts>> @@ b3 :> <<>> @@ c2 :> <<tp>>
               @@ c3 :> <<tr>> @@ c4 :> <<>>
    IN  [b \in Block |-> vtx[b]]
TrustTree == [b \in Block |-> CASE b \in {b2, c2} -> 2 [] b = a3 -> 3 [] OTHER -> 1]

\* Blocks without transactions.
NoVtx == [b \in Block |-> <<>>]
NoIns == [t \in Tx |-> {}]

\* Every block is a proof-of-work block.
NoStakes == [b \in Block |-> NoStake]

\* a2, b2 and c2 have the same stake.
Restakes == [b \in Block |-> CASE b \in {a2, b2, c2} -> k1 [] b = a3 -> k2
                              [] OTHER -> NoStake]
=============================================================================
