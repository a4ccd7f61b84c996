---------------------------- MODULE EnigmaAmounts ----------------------------
(***************************************************************************)
(* The money in a joint transaction: how the sender splits the reward among *)
(* the cloakers, every party's money among its outputs, and takes the       *)
(* network fee from its own change.  Amounts are integers as in the code,   *)
(* in units small enough to enumerate; random choices are sets.             *)
(***************************************************************************)
EXTENDS Integers, SequencesExt, FiniteSetsExt

CONSTANTS
    MinOut,      \* MIN_TXOUT_AMOUNT, also MIN_TX_FEE
    Cloakers,    \* nParticipantsRequired
    Sends,       \* the amounts that may be sent
    RewardOf,    \* RewardOf[amount]: ENIGMA_TOTAL_FEE_PERCENT of it, in units
    Reserve,     \* what the sender selects on top, for fees
    Excess,      \* by how much the selected coins may exceed what is asked for
    Weights,     \* the range of the random weights of the reward's shares
    Fees         \* the fees that the size of the transaction may lead to

VARIABLES
    phase,       \* "asked", "cloakers", "change", "signing" or "failed"
    send,        \* nSendAmount
    mine,        \* the sender's nInputAmount
    inputs,      \* inputs[k]: the nInputAmount of cloaker k
    rewards,     \* rewards[k]: participantReward
    paid,        \* paid[k]: the outputs for cloaker k
    change,      \* the sender's change outputs
    fee          \* the fee to be taken from the change

amountVars == <<phase, send, mine, inputs, rewards, paid, change, fee>>

ASSUME AmountsAssumption ==
    /\ MinOut \in Nat \ {0} /\ Cloakers \in Nat \ {0}
    /\ Sends \cup Excess \cup Weights \cup Fees \cup {Reserve} \subseteq Nat
    /\ 0 \notin Sends \cup Weights
    /\ RewardOf \in [Sends -> Nat]

Total(s) == FoldLeft(LAMBDA x, y : x + y, 0, s)

-----------------------------------------------------------------------------
(* GetRandRange: 0 when the range is empty. *)
RandRange(lo, hi) == IF hi - lo <= 0 THEN {0} ELSE lo..hi

(* One round of SplitAmount's loop: a part is kept if it leaves something   *)
(* and is no dust.                                                          *)
WithPart(amount, parts, amt) ==
    IF Total(parts) + amt < amount /\ amt > MinOut THEN Append(parts, amt) ELSE parts

(* What the loop may have collected after i rounds. *)
Collected(amount, maxparts) ==
    LET round[i \in 0..maxparts] ==
            IF i = 0 THEN {<<>>}
            ELSE UNION {{WithPart(amount, parts, amt) :
                             amt \in RandRange(MinOut, (amount - Total(parts)) \div (maxparts - (i - 1)))}
                        : parts \in round[i - 1]}
    IN  round[maxparts]

(* "handle dust" *)
WithDust(amount, maxparts, parts) ==
    LET remain == amount - Total(parts) IN
    IF remain = 0 THEN parts
    ELSE IF Len(parts) = maxparts \/ remain <= MinOut THEN [parts EXCEPT ![1] = @ + remain]
    ELSE Append(parts, remain)

(* Every result SplitAmount may have. *)
SplitAmount(amount, maxparts) ==
    IF amount \div maxparts <= MinOut THEN {<<amount>>}
    ELSE {WithDust(amount, maxparts, parts) : parts \in Collected(amount, maxparts)}

Splits(amount, counts) == UNION {SplitAmount(amount, n) : n \in counts}

(* Fault: the last share is computed like the others. *)
SharesRounded(reward, weights) ==
    [k \in 1..Cloakers |-> (reward * weights[k]) \div Total(weights)]

(* The shares of the reward; the last cloaker gets what rounding left. *)
Shares(reward, weights) ==
    LET share(k) == (reward * weights[k]) \div Total(weights)
        before == Total([k \in 1..(Cloakers - 1) |-> share(k)])
    IN  [k \in 1..Cloakers |-> IF k = Cloakers THEN reward - before ELSE share(k)]

-----------------------------------------------------------------------------
(* The send is asked for, and the cloakers have joined: SelectCoins has     *)
(* found at least the amount, the reward and the reserve, and each cloaker  *)
(* at least the amount and one smallest output.                             *)
AmountsInit ==
        /\ phase = "asked"
        /\ send \in Sends
        /\ \E e \in Excess : mine = send + RewardOf[send] + Reserve + e
        /\ \E e \in [1..Cloakers -> Excess] : inputs = [k \in 1..Cloakers |-> send + MinOut + e[k]]
        /\ rewards = <<>> /\ paid = <<>> /\ change = <<>> /\ fee = 0

CreateCloakerTxOutputs ==
    /\ phase = "asked"
    /\ \E weights \in [1..Cloakers -> Weights] : rewards' = Shares(RewardOf[send], weights)
    /\ phase' = "cloakers"
    /\ UNCHANGED <<send, mine, inputs, paid, change, fee>>

(* The outputs of the next cloaker: two to four. *)
PayCloaker ==
    /\ phase = "cloakers"
    /\ Len(paid) < Cloakers
    /\ \E parts \in Splits(inputs[Len(paid) + 1] + rewards[Len(paid) + 1], 2..4) :
           paid' = Append(paid, parts)
    /\ UNCHANGED <<phase, send, mine, inputs, rewards, change, fee>>

(* Fault: the OP_RETURN output is not accounted for. *)
AmountRemainAll ==
    (mine + Total(inputs)) - (send + Total([k \in 1..Cloakers |-> Total(paid[k])]))

(* The recipient's outputs add up to send however SplitAmount splits them,  *)
(* so they stay one amount here; the OP_RETURN output takes MinOut.         *)
AmountRemain ==
    (mine + Total(inputs)) - (send + Total([k \in 1..Cloakers |-> Total(paid[k])])) - MinOut

CreateEnigmaOutputs ==
    /\ phase = "cloakers"
    /\ Len(paid) = Cloakers
    /\ change' \in Splits(AmountRemain, 2..3)
    /\ phase' = "change"
    /\ UNCHANGED <<send, mine, inputs, rewards, paid, fee>>

(* An output of ours that can pay fee f and stay above the smallest output. *)
PaysFee(amount, f) == amount - MinOut > f

AddCorrectFee ==
    /\ phase = "change"
    /\ \E f \in Fees :
         LET able == {i \in DOMAIN change : PaysFee(change[i], f)} IN
         /\ fee' = f
         /\ IF able = {} THEN phase' = "failed" /\ UNCHANGED change
            ELSE /\ phase' = "signing"
                 /\ change' = [change EXCEPT ![Min(able)] = @ - f]
    /\ UNCHANGED <<send, mine, inputs, rewards, paid>>

AmountsNext == CreateCloakerTxOutputs \/ PayCloaker \/ CreateEnigmaOutputs \/ AddCorrectFee

AmountsSpec == AmountsInit /\ [][AmountsNext]_amountVars

-----------------------------------------------------------------------------
(* Properties *)

TxOutputs == FlattenSeq(paid) \o change

(* No coin is lost or made: what goes in comes out, but for the fee and the *)
(* OP_RETURN output, and no output is below the smallest that the network   *)
(* relays (SplitAmount, CreateCloakerTxOutputs, AddCorrectFee).             *)
Balanced ==
    phase = "signing" =>
        /\ mine + Total(inputs) = send + Total(TxOutputs) + MinOut + fee
        /\ \A i \in DOMAIN TxOutputs : TxOutputs[i] > MinOut

(* The whole reward is shared out, and every cloaker gets back its inputs:  *)
(* SignAndRespond refuses to sign otherwise ("output amount smaller than    *)
(* our inputs").                                                            *)
CloakersWillSign ==
    phase = "signing" =>
        /\ Total(rewards) = RewardOf[send]
        /\ \A k \in 1..Cloakers : Total(paid[k]) >= inputs[k]

=============================================================================
