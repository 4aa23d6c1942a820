CONSTANTS
    t1 = t1
    User = {}
    Program = {p1, p2}
    Tree = {t1}
    TreeOwner <- MCTreeOwner
    TreeCapacity = 4
    Address = {a1}
    AddressOwner <- MCAddressOwner
    Lamports = {1}
    MaxU64 = 2
    Supply = 1
    Remaining <- MCRemaining
    None = None
    MaxAccounts = 1
    MaxNewAddresses = 1
    Payer = {f1, f2}
    NoPayer = NoPayer
    AssociatedMerkleTree = t1
    MaxContext = 2
    MaxLeaves = 2
SPECIFICATION TestSpec
PROPERTY OwnersConsent
SYMMETRY MCSymmetry
VIEW MCView
CHECK_DEADLOCK FALSE
