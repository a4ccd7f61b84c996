----------------------------- MODULE MCNetwork -----------------------------
(***************************************************************************)
(* Four parts of a node that share no variable, side by side in one run:   *)
(* the spread of a transaction over the network, the memory pool, the list *)
(* of alerts and the address manager.  A behaviour is one of one part; the *)
(* other three stay where they are.                                        *)
(***************************************************************************)
EXTENDS Relay, MemPool, Alerts, AddrMan

CONSTANTS
    no, nr, nm, nw,                 \* nodes
    tg, ta, tb, tc, td, te, tf,     \* transactions
    p1, p2,                         \* peers
    a1, a2, a3, s1, s2              \* addresses, and who tells of them

VARIABLE part                   \* "relay", "pool", "alerts" or "addresses"

\* The node nw hears of the transaction from the origin no, from nr and from the
\* mute nm; its connections to no and to nm may break.
MCNode == {no, nr, nm, nw}
MCLinks == {{no, nr}, {no, nm}, {no, nw}, {nr, nw}, {nm, nw}}
MCFragile == {{no, nw}, {nm, nw}}
MCMute == {nm}

\* tg is in the chain with two outputs; ta and tb spend one each, td spends the
\* same one as ta, tc needs ta and tb, te needs tc, and tf spends the same as tc.
InsTree == tg :> {} @@ ta :> {<<tg, 0>>} @@ tb :> {<<tg, 1>>} @@ td :> {<<tg, 0>>}
           @@ tc :> {<<ta, 0>>, <<tb, 0>>} @@ te :> {<<tc, 0>>}
           @@ tf :> {<<tb, 0>>}
OutsTree == [t \in Tx |-> IF t = tg THEN 2 ELSE 1]

\* Four ordinary alerts, two of them replacements of earlier ones, and the
\* reserved alert in a sound and in an unsound form.
MCPeer == {p1, p2}
Ordinary(id, cancel, cancels, expires) ==
    [id |-> id, cancel |-> cancel, cancels |-> cancels, expires |-> expires,
     reserved |-> FALSE, sound |-> TRUE]
ReservedId == 9
MCAlert ==
    {Ordinary(1, 0, {}, 3), Ordinary(2, 1, {}, 3), Ordinary(3, 0, {2}, 2), Ordinary(4, 0, {3}, 3)}
    \cup {[id |-> ReservedId, cancel |-> ReservedId - 1, cancels |-> {}, expires |-> 4,
           reserved |-> TRUE, sound |-> s] : s \in BOOLEAN}

\* Three addresses that two sources tell of.  The buckets are so few and so
\* small that entries share them, are pushed out of them and come back.
MCAddr == {a1, a2, a3}
MCSource == {s1, s2}
Straight == s1 :> 1 @@ s2 :> 2
Crossed == s1 :> 2 @@ s2 :> 1
MCNewBucket == a1 :> Straight @@ a2 :> Straight @@ a3 :> Crossed
MCTriedBucket == [n \in MCAddr |-> 1]

-----------------------------------------------------------------------------
NetworkInit ==
    /\ part \in {"relay", "pool", "alerts", "addresses"}
    /\ RelayInit /\ PoolInit /\ AlertsInit /\ AddrManInit

\* A step of the part relay, which leaves the variables of the others alone.
InRelay(A) == part = "relay" /\ A /\ UNCHANGED <<part, poolVars, alertVars, addrVars>>

NetworkNext ==
    \/ InRelay(RelayNext)
    \/ part = "pool" /\ PoolNext /\ UNCHANGED <<part, vars, alertVars, addrVars>>
    \/ part = "alerts" /\ AlertsNext /\ UNCHANGED <<part, vars, poolVars, addrVars>>
    \/ part = "addresses" /\ AddrManNext /\ UNCHANGED <<part, vars, poolVars, alertVars>>

\* The fairness of RelaySpec: every peer is served again and again, and time passes.
NetworkSpec ==
    /\ NetworkInit
    /\ [][NetworkNext]_<<part, vars, poolVars, alertVars, addrVars>>
    /\ WF_vars(InRelay(Tick))
    /\ \A n, p \in Node : WF_vars(InRelay(Step(n, p)))

\* In the runs of the part relay every node that answers gets the transaction,
\* although the first peer it asks may be mute or go away: another peer is asked
\* two minutes later (net.h, AskFor).
TransactionSpreads == part = "relay" => Spreads
=============================================================================
