SPECIFICATION WalletSpec
CONSTANTS
    Coin = {c1, c2, c3}
    c1 = c1
    c2 = c2
    c3 = c3
    Outputs <- SmallOutputs
    Payments = {1, 4, 6}
    PayTxFees = {1, 4}
    SpendTime = 1
    Cent = 2
    PerKb = 4
    MaxSize = 5
    MinOut = 1
    Cloakers = 2
    Sends = {1, 6}
    RewardOf <- SmallRewards
    Reserve = 5
    Excess = {0, 2}
    Weights = {3, 7}
    Fees = {1, 2}
    m1 = m1
    m2 = m2
    Miner <- TwoMiners
    KeypoolSize = 1
    MaxKeys = 6
    MaxRestarts = 1
INVARIANTS
    FinishedSound
    RefusedOnlyWhenShort
    Balanced
    CloakersWillSign
    
PROPERTY CreateEnds
CHECK_DEADLOCK FALSE
