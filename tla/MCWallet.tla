------------------------------ MODULE MCWallet ------------------------------
(***************************************************************************)
(* Three parts of the wallet that share no variable, side by side in one   *)
(* run: the loop of CreateTransaction, the money of a joint transaction,   *)
(* and the key pool.  A behaviour is one of one part; the other two stay   *)
(* where they are.                                                         *)
(***************************************************************************)
EXTENDS CreateTransaction, EnigmaAmounts, KeyPool

CONSTANTS m1, m2

VARIABLE part    \* "create", "amounts" or "keys"

TwoMiners == {m1, m2}

\* Wallets of up to three coins.  One unit is half a cent; four pieces are a
\* kilobyte, so that another input may ask for another cent of fee.  The coins:
\* deep ones of several values, a shallow one of somebody else's, our own
\* unconfirmed change, and one too young.
SmallOutputs ==
    [value : {1, 3, 7}, depth : {6}, mine : {TRUE}, nTime : {0}]
    \cup {[value |-> 4, depth |-> 1, mine |-> FALSE, nTime |-> 0],
          [value |-> 3, depth |-> 0, mine |-> TRUE, nTime |-> 0],
          [value |-> 5, depth |-> 6, mine |-> TRUE, nTime |-> 2]}

\* Joint transactions: one unit is the smallest output.
SmallRewards == [a \in Sends |-> a \div 2]

NoCreate ==
    /\ wallet = <<>> /\ control = <<>> /\ nValue = 0 /\ nTransactionFee = 0
    /\ nFeeRet = 0 /\ setCoins = {} /\ nChange = 0 /\ reserved = FALSE /\ pc = "none"

NoAmounts ==
    /\ phase = "none" /\ send = 0 /\ mine = 0 /\ inputs = <<>>
    /\ rewards = <<>> /\ paid = <<>> /\ change = <<>> /\ fee = 0

WalletInit ==
    \/ part = "create" /\ CreateInit /\ NoAmounts /\ KeyPoolInit
    \/ part = "amounts" /\ NoCreate /\ AmountsInit /\ KeyPoolInit
    \/ part = "keys" /\ NoCreate /\ NoAmounts /\ KeyPoolInit

CreateStep == part = "create" /\ CreateNext /\ UNCHANGED <<part, amountVars, keyVars>>
AmountsStep == part = "amounts" /\ AmountsNext /\ UNCHANGED <<part, createVars, keyVars>>
KeyPoolStep == part = "keys" /\ KeyPoolNext /\ UNCHANGED <<part, createVars, amountVars>>

WalletNext == CreateStep \/ AmountsStep \/ KeyPoolStep

WalletSpec ==
    /\ WalletInit
    /\ [][WalletNext]_<<part, createVars, amountVars, keyVars>>
    /\ WF_createVars(CreateStep)
=============================================================================
