\* Execution and simulation agree on keys, nonces and balances that last.
CONSTANTS
    alice = alice
    bob = bob
    k1 = k1
    ft = ft
    Accounts = {alice, bob}
    Keys = {k1}
    Nonces = {1}
    Tokens = {ft}
    MaxAmount = 2
    MaxOps = 5

SPECIFICATION Spec

\* The batch ends: at its bound or at the first error.
 
INVARIANT BalancesAreSimulated
CHECK_DEADLOCK FALSE
