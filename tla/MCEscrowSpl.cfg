SPECIFICATION FairSpec
CONSTANTS
    b = b
    s = s
    m = m
    h = h
    h2 = h2
    Keys <- MCKeys
    Admins = {m}
    NoKey = NoKey
    Hashes <- MCHashes
    ZeroHash = ZeroHash
    NoHash = NoHash
    Offers <- AllOffers
    NoDeal = NoDeal
    Native = FALSE
    Wallet0 <- MCWallet
    Gifts = {100}
    MaxTime = 2
    MaxU64 = 400
INVARIANTS
    TypeOK
    Conserved
    Solvent
    PaidExactly
PROPERTIES
    NoPartyExitsAlone
    KeepsPromise
    NeverStuck
CHECK_DEADLOCK FALSE
