SPECIFICATION Spec
CONSTANTS
    maker = maker
    taker = taker
    Senders = {maker, taker}
    taker_whitelist = {}
    price = 5
    TakerPrices = {5, 7}
    Denominator = 4
    partial_fills_allowed = TRUE
    fee = 1
    surplus = 2
    integrator_fee = 0
    MaxPips = 4
    CallLegs = {"maker_dst"}
    Deposits = {2, 4}
    MaxAmount = 4
    Slots = {s1, s2}
SYMMETRY Symmetry
INVARIANT Solvent
INVARIANT CallbacksAreCounted
INVARIANT FillsRespectPrice
PROPERTY ClosingSeparates
PROPERTY OnlyFailedCallsStrand
CHECK_DEADLOCK FALSE
