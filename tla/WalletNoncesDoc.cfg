CONSTANTS
    Timeout = 2
    MaxTime = 8
    NonceValues = {n1, n2}
    Messages <- MCMessages
SPECIFICATION NoncesSpec
PROPERTY StoredForTwoTimeouts
