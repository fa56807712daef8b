SPECIFICATION Spec
CONSTANTS
    Accounts = {alice, bob}
    Slots = {s1, s2}
    wnear = wnear
    nft = nft
    rogue = rogue
    imt = imt
    Tokens = {wnear, nft, rogue}
    Nfts = {nft, rogue}
    Honest = {wnear, nft}
    MaxAmount = 2
    MaxStorage = 1
    MaxLocked = 0
    Batches <- MCBatches
    Transfers <- MCTransfers
    Mints <- MCMints
    Reports <- MCReports
    Forced = {FALSE, TRUE}
SYMMETRY Symmetry
INVARIANT Solvent
INVARIANT LedgerAddsUp
INVARIANT ResolversNeverPanic
PROPERTY OnlyFailedCallsStrand
CHECK_DEADLOCK FALSE
