\* An event that the execution emits and the simulation does not.
CONSTANTS
    alice = alice
    bob = bob
    k1 = k1
    ft = ft
    Accounts = {alice}
    Keys = {k1}
    Nonces = {1}
    Tokens = {ft}
    MaxAmount = 1
    MaxOps = 3

SPECIFICATION Spec
INVARIANT SameEvents

\* The batch ends: at its bound or at the first error.
CHECK_DEADLOCK FALSE
