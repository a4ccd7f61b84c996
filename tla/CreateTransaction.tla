-------------------------- MODULE CreateTransaction --------------------------
(***************************************************************************)
(* CWallet::CreateTransaction (wallet.cpp): the loop that selects coins    *)
(* for the payment and the fee, makes change, and starts again with a      *)
(* higher fee when the transaction has become too large for the one it     *)
(* pays.  Coin selection is random; a step takes any of its outcomes.  The *)
(* loop holds cs_main and cs_wallet, so nothing else changes the wallet.   *)
(*                                                                         *)
(* Amounts are in units of a part of a cent.  The size of a transaction is *)
(* the number of its inputs and outputs, of which PerKb make a kilobyte.   *)
(* Signing is taken to succeed: the coins are the wallet's own.            *)
(***************************************************************************)
EXTENDS Integers, FiniteSetsExt

CONSTANTS
    Coin,       \* names of the outputs the wallet may own
    Outputs,    \* what an output may be: [value, depth, mine, nTime]
    Payments,   \* amounts to send; SendMoney and the GUI refuse one that is not positive
    PayTxFees,  \* values of nTransactionFee (-paytxfee)
    SpendTime,  \* the time of the new transaction
    Cent,       \* CENT, and MIN_TX_FEE and MIN_TXOUT_AMOUNT with it
    PerKb,
    MaxSize     \* the size from which a transaction is refused

ASSUME CreateAssumption ==
    /\ IsFiniteSet(Coin)
    /\ Outputs \subseteq [value : Nat \ {0}, depth : Nat, mine : BOOLEAN, nTime : Nat]
    /\ Payments \subseteq Nat \ {0} /\ PayTxFees \subseteq Nat
    /\ {Cent, PerKb, MaxSize} \subseteq Nat \ {0}

VARIABLES
    wallet,     \* the spendable outputs (AvailableCoins), by name
    control,    \* coin control: the coins selected, and whether change goes to a given address
    nValue,     \* the sum to send
    nTransactionFee,
    nFeeRet,
    setCoins, nChange,   \* the transaction under construction
    reserved,   \* reservekey holds a key of the pool
    pc          \* "loop", "done", "unfunded" or "oversized"

asked == <<wallet, control, nValue, nTransactionFee>>
createVars == <<asked, nFeeRet, setCoins, nChange, reserved, pc>>

MIN_TX_FEE == Cent
MIN_TXOUT_AMOUNT == Cent

Worth(S) == MapThenSumSet(LAMBDA c : wallet[c].value, S)

(* The coins deep enough and not younger than the transaction. *)
Eligible(nConfMine, nConfTheirs) ==
    {c \in DOMAIN wallet :
        /\ wallet[c].depth >= (IF wallet[c].mine THEN nConfMine ELSE nConfTheirs)
        /\ wallet[c].nTime <= SpendTime}

(* What the random search may end with: a set that reaches the target, and *)
(* did so only with the coin added last.                                   *)
ApproximateBestSubset(vValue, target) ==
    {S \in SUBSET vValue :
        Worth(S) >= target /\ \E c \in S : Worth(S \ {c}) < target}

\* Mutant of SelectCoinsMinConf: a coin a cent or more above the target is
\* never used
SelectCoinsMinConfNoLarger(target, nConfMine, nConfTheirs) ==
    LET coins == Eligible(nConfMine, nConfTheirs)
        exact == {c \in coins : wallet[c].value = target}
        vValue == {c \in coins : wallet[c].value < target + Cent}
    IN IF exact # {} THEN {{c} : c \in exact}
       ELSE IF Worth(vValue) < target THEN {}
       ELSE ApproximateBestSubset(vValue, target)

(* The sets of coins it may return; none when it fails. *)
SelectCoinsMinConf(target, nConfMine, nConfTheirs) ==
    LET coins == Eligible(nConfMine, nConfTheirs)
        exact == {c \in coins : wallet[c].value = target}
        vValue == {c \in coins : wallet[c].value < target + Cent}
        larger == coins \ vValue
        lowestLarger == {c \in larger : \A d \in larger : wallet[c].value <= wallet[d].value}
        found == ApproximateBestSubset(vValue, target)
        retried(S) == Worth(S) # target /\ Worth(vValue) >= target + Cent
        best == {S \in found : ~ retried(S)}
                \cup (IF \E S \in found : retried(S)
                      THEN ApproximateBestSubset(vValue, target + Cent) ELSE {})
        biggerCoin(S) ==
            /\ larger # {}
            /\ \/ Worth(S) # target /\ Worth(S) < target + Cent
               \/ \E c \in lowestLarger : wallet[c].value <= Worth(S)
    IN IF exact # {} THEN {{c} : c \in exact}
       ELSE IF Worth(vValue) = target THEN {vValue}
       ELSE IF Worth(vValue) < target THEN {{c} : c \in lowestLarger}
       ELSE {S \in best : ~ biggerCoin(S)}
            \cup (IF \E S \in best : biggerCoin(S) THEN {{c} : c \in lowestLarger} ELSE {})

(* The confirmations asked of our own and of others' coins, try after try. *)
Tries == <<<<1, 6>>, <<1, 1>>, <<0, 1>>>>

SelectCoins(target) ==
    IF control.selected # {}
    THEN {S \in {control.selected} : Worth(S) >= target}
    ELSE LET tried == [k \in DOMAIN Tries |->
                          SelectCoinsMinConf(target, Tries[k][1], Tries[k][2])]
             successes == {k \in DOMAIN Tries : tried[k] # {}}
         IN IF successes = {} THEN {} ELSE tried[Min(successes)]

Size(S, change) == Cardinality(S) + 1 + (IF change > 0 THEN 1 ELSE 0)

Kilobytes(size) == 1 + size \div PerKb

(* max(nPayFee, nMinFee) *)
RequiredFee(size) == Max({nTransactionFee, MIN_TX_FEE}) * Kilobytes(size)

(* Change below a cent raises a fee below the minimum. *)
MoveToFee(fee, change) ==
    IF fee < MIN_TX_FEE /\ change > 0 /\ change < Cent
    THEN Min({change, MIN_TX_FEE - fee}) ELSE 0

(* The fee and the change, once change too small for an output is fee. *)
Settled(fee, change) ==
    LET moved == MoveToFee(fee, change)
        left == change - moved
    IN IF left > 0 /\ left < MIN_TXOUT_AMOUNT
       THEN [fee |-> fee + moved + left, change |-> 0]
       ELSE [fee |-> fee + moved, change |-> left]

CreateInit ==
    /\ wallet \in UNION {[S -> Outputs] : S \in SUBSET Coin}
    /\ control \in [selected : SUBSET DOMAIN wallet, dest : BOOLEAN]
    /\ nValue \in Payments
    /\ nTransactionFee \in PayTxFees
    /\ nFeeRet = nTransactionFee
    /\ setCoins = {} /\ nChange = 0
    /\ reserved = FALSE
    /\ pc = "loop"

(* GetReservedKey for change to a new address, ReturnKey without change. *)
ReserveChangeKey(change) ==
    reserved' = IF change = 0 THEN FALSE ELSE reserved \/ ~ control.dest

Unfunded ==
    /\ pc = "loop"
    /\ SelectCoins(nValue + nFeeRet) = {}
    /\ pc' = "unfunded"
    /\ UNCHANGED <<asked, nFeeRet, setCoins, nChange, reserved>>

(* One round that selects the coins S and makes a transaction of them. *)
Build(S, settled) ==
    /\ setCoins' = S
    /\ nChange' = settled.change
    /\ ReserveChangeKey(settled.change)
    /\ UNCHANGED asked

Oversized(S, settled) ==
    /\ Build(S, settled)
    /\ Size(S, settled.change) >= MaxSize
    /\ nFeeRet' = settled.fee
    /\ pc' = "oversized"

\* Mutant of RaiseFee: the next round starts from the fee of this one
RaiseFeeSame(S, settled) ==
    LET size == Size(S, settled.change)
    IN /\ Build(S, settled)
       /\ size < MaxSize
       /\ settled.fee < RequiredFee(size)
       /\ UNCHANGED <<nFeeRet, pc>>

RaiseFee(S, settled) ==
    LET size == Size(S, settled.change)
    IN /\ Build(S, settled)
       /\ size < MaxSize
       /\ settled.fee < RequiredFee(size)
       /\ nFeeRet' = RequiredFee(size)
       /\ UNCHANGED pc

\* Mutant of Finish: the fee is compared with the fee for one kilobyte
FinishOneKb(S, settled) ==
    LET size == Size(S, settled.change)
    IN /\ Build(S, settled)
       /\ size < MaxSize
       /\ settled.fee >= RequiredFee(1)
       /\ nFeeRet' = settled.fee
       /\ pc' = "done"

Finish(S, settled) ==
    LET size == Size(S, settled.change)
    IN /\ Build(S, settled)
       /\ size < MaxSize
       /\ settled.fee >= RequiredFee(size)
       /\ nFeeRet' = settled.fee
       /\ pc' = "done"

Round ==
    /\ pc = "loop"
    /\ \E S \in SelectCoins(nValue + nFeeRet) :
           LET settled == Settled(nFeeRet, Worth(S) - nValue - nFeeRet)
           IN Oversized(S, settled) \/ RaiseFee(S, settled) \/ Finish(S, settled)

CreateNext == Unfunded \/ Round

(* The loop is one thread's; nothing it waits for is outside it. *)
CreateSpec == CreateInit /\ [][CreateNext]_createVars /\ WF_createVars(CreateNext)

-----------------------------------------------------------------------------
(* The finished transaction is worth exactly the payment, the change and   *)
(* the fee CreateTransaction reports, after any number of rounds and       *)
(* whatever was moved from the change to the fee; the fee is the one its   *)
(* own size requires, although it was chosen before the coins; change is a *)
(* whole output or none; and the reserve key is held exactly for change to *)
(* a new address, so that a key reserved in a round that was given up is   *)
(* back in the pool.                                                       *)
FinishedSound ==
    pc = "done" =>
        /\ Worth(setCoins) = nValue + nChange + nFeeRet
        /\ nFeeRet >= RequiredFee(Size(setCoins, nChange))
        /\ nChange = 0 \/ nChange >= MIN_TXOUT_AMOUNT
        /\ reserved <=> nChange > 0 /\ ~ control.dest

(* CreateTransaction refuses for want of coins only when all the coins it  *)
(* may use, down to our own unconfirmed ones, cannot pay the sum and the   *)
(* fee: no preference for deeper coins, no cent of slack and no unlucky    *)
(* search loses a payment the wallet can make.                             *)
RefusedOnlyWhenShort ==
    pc = "unfunded" =>
        Worth(IF control.selected # {} THEN control.selected ELSE Eligible(0, 1))
            < nValue + nFeeRet

(* The loop ends: each round pays more than the one before, and the fee a  *)
(* transaction may be asked for is bounded by its size.                    *)
CreateEnds == <>(pc # "loop")
=============================================================================
