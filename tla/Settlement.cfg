\* Batches of up to four intents; the fee is a quarter.
CONSTANTS
    alice = alice
    bob = bob
    carol = carol
    collector = collector
    ft = ft
    mt = mt
    None = None
    Accounts = {alice, bob, carol, collector}
    Fts = {ft}
    Mts = {mt}
    Nfts = {}
    fee = 1
    MaxPips = 4
    MaxDelta = 3
    MaxAmount = 7
    Initial <- MCInitial
    Deltas <- MCDeltas
    Moves = {2}
    MaxIntents = 4

SPECIFICATION Spec
SYMMETRY Symmetry

INVARIANT TransfersExplainBalances
PROPERTY BatchesSettle
CHECK_DEADLOCK FALSE
