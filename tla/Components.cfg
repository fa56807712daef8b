SPECIFICATION Spec
CONSTANTS
    self = deployer
    Owners = {deployer, dao, carol}
    Codes = {c1, c2}
    Indices = {0, 1}
    NoCode = NoCode
    Deposits = {0, 3}
    Cost = 2
    MaxBalance = 3
    Receipts = {r1, r2}
    Admins = {dao, carol}
    AppHashes = {0, 1, 2}
    Urls = {none, u1, u2}
    NoUrl = none
    AppDeposits = {0, 1, 2}
    LogTokens = {logger, usdc}
    logger = logger
    LogAmounts = {0, 1, 2}
    MaxBatch = 2
    MaxNonce = 3
    Holders = {factory, alice, bob}
    factory = factory
    Names = {btc}
    Metadata = {md}
    MintAmounts = {0, 1, 2}
    MaxSupply = 2
    MaxDropped = 1
    no_registration = FALSE
    Jobs = {j1, j2}
    Networks = {mainnet, testnet}
    MAINNET = mainnet
    real_id = wallet
    Masters = {m1, m2}
    Handles = {h1, h2}
    None = None
    Nil = Nil
    MaxArcs = 2
    MaxConfigs = 3
    MaxRequests = 2
    BLOCK = 2
    BLOCKS = 2
    q = 7
    Paths = {0, 2, 9}
    Messages = {0, 1, 3, 7}
    MaxSigned = 2
    MpcAccounts = {"a", "b"}
    MpcPaths = {1, 2}
    MpcMessages = {1, 7}
    TweakDigest <- MCTweakDigest
    AppHash <- MCAppHash
    MpcDomains <- MCMpcDomains
    MpcNonces = {2, 6}
    MaxReceipts = 2
    MaxOpened = 2
    OffGroup = OffGroup
    BitsForBitPos = 2
    ByteBits = 2
    WordBytes = 2
    Bits = {0, 1, 3, 4, 6, 15}
    n1 = n1
    n2 = n2
    defuse = defuse
    other = other
    nobody = nobody
    Texts <- MCTexts
    AccountIds = {defuse, other}
    Recipients = {other, nobody}
    PayloadNonces = {n1, n2}
    Timestamps <- MCTimestamps
    TicksPerSecond = 2
    MaxEnvelopes = 1
    NoField = NoField
SYMMETRY Symmetry
INVARIANT LogsTellTheTruth
INVARIANT SupplyIsBacked
INVARIANT DepositsDoNotMix
 
INVARIANT ExecutedAsSigned
INVARIANT SignersAreSound
INVARIANT OurSignatureIsFound
INVARIANT SecretsAreUnique
 
PROPERTY DeployedWasApproved
PROPERTY CoveredDeploymentIsFree
 
PROPERTY BitmapsAreSets
CHECK_DEADLOCK FALSE
