SPECIFICATION Spec
CONSTANTS
    Accounts = {alice, bob}
    Slots = {s1, s2}
    wnear = wnear
    nft = nft
    rogue = rogue
    imt = imt
    Tokens = {wnear, imt}
    Nfts = {}
    Honest = {wnear}
    MaxAmount = 2
    MaxStorage = 1
    MaxLocked = 2
    Batches <- MCBatches
    Transfers <- MCTransfers
    Mints <- MCMints
    Reports <- MCReports
    Forced = {FALSE}
SYMMETRY Symmetry
PROPERTY LockedKeepsFunds
CHECK_DEADLOCK FALSE
