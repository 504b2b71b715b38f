SPECIFICATION Spec
CONSTANTS
    b = b
    s = s
    m = m
    h = h
    h2 = h2
    Keys <- MCKeys
    Admins = {m}
    NoKey = NoKey
    Hashes <- MCHashes
    ZeroHash = ZeroHash
    NoHash = NoHash
    Offers <- MCOffers
    NoDeal = NoDeal
    Native = TRUE
    Wallet0 <- MCWallet
    Gifts = {100}
    MaxTime = 2
    MaxU64 = 400
INVARIANTS
    RefundAvailable
CHECK_DEADLOCK FALSE
