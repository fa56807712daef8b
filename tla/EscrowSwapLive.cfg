SPECIFICATION FairSpec
CONSTANTS
    maker = maker
    taker = taker
    Senders = {maker, taker}
    taker_whitelist = {taker}
    price = 2
    TakerPrices = {2}
    Denominator = 2
    partial_fills_allowed = FALSE
    fee = 0
    surplus = 0
    integrator_fee = 1
    MaxPips = 4
    CallLegs = {"maker_src"}
    Deposits = {1, 2}
    MaxAmount = 2
    Slots = {s1, s2}
PROPERTY EventuallyDeleted
CHECK_DEADLOCK FALSE
