CONSTANTS
    t1 = t1
    t2 = t2
    s1 = s1
    User = {u}
    Program = {}
    Tree = {t1, t2}
    TreeOwner <- MCTreeOwner
    TreeCapacity = 3
    Address <- MCAddress
    AddressOwner <- MCAddressOwner
    Lamports = {0, 1}
    MaxU64 = 2
    Supply = 3
    Remaining <- MCTwoTrees
    None = None
    MaxAccounts = 2
    MaxNewAddresses = 1
    Recipient = {u, r}
    RpcPayer = r
    PubkeyOrder <- MCPubkeyOrder
    DefaultTree = t1
    AddressTree = AddressTree
    AddressQueue = AddressQueue
    Seed = {s1}
    Amount = {1, 2}
    ProofSizes = {1, 2}
    MaxLeaves = 3
SPECIFICATION ClientSpec
INVARIANTS
    AddressUnique
VIEW MCView
CHECK_DEADLOCK FALSE
