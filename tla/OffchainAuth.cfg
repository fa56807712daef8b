SPECIFICATION Spec
CONSTANTS
    w = w
    x = x
    k = k
    p = p
    q = q
    mainnet = mainnet
    testnet = testnet
    Accounts = {w, x, k}
    Payloads = {p, q}
    ChainIds = {mainnet, testnet}
    chain_id = mainnet
    Chains <- MCChains
    Queries <- MCQueries
    max_sub_auths = 3
    max_depth = 2
    NoAnswer = NoAnswer
 
INVARIANT SdkIsUnderstood
 
PROPERTY AnsweredWithinLimits
CHECK_DEADLOCK FALSE
