SPECIFICATION ClientSpec
CONSTANTS
    alice = alice
    bob = bob
    admin = admin
    Admin <- MCAdmin
    Mint = {m1}
    None = None
    Pool = Pool
    StateTree = StateTree
    NullifierQueue = NullifierQueue
    Holder <- MCHolder
    MintAuthority <- MCAuthority
    FreezeAuthority <- MCAuthority
    InitialSpl = 0
    MaxSupply = 2
    MaxAccounts = 2
    Payer = {p1, p2}
    MaxCached = 1
    MaxShared = 1
    Claimed <- MCClaimed
    MaxInputs = 2
    MaxOutputs = 2
    MaxLamports = 1
INVARIANTS PoolBacksTokens RequestsAccepted
PROPERTIES DelegateBound FrozenStays
VIEW View
SYMMETRY Symmetry
CHECK_DEADLOCK FALSE
