SPECIFICATION Spec
CONSTANTS
    Owners <- MCOwners
    Wallet0 <- MCWallet
    Amounts = {1}
    Withdrawals = {w1, w2}
    Delays = {1}
    Free = Free
    Bets = {0, 1}
    Plans <- MCPlans
    Window = 1
    Expiries = {2}
    MaxNonce <- MCNonces
    MaxTime = 2
SYMMETRY MCSymmetry
VIEW MCView
INVARIANTS
    TypeOK
    LedgerBalanced
    FreshConsent
    NewestCounts
PROPERTIES
    KeepsCredit
CHECK_DEADLOCK FALSE
