CONSTANTS
    Timeout = 1
    MaxTime = 5
    e1 = e1
    e2 = e2
    ExtensionIds <- MCAccounts
    Messages <- MCMessages
    Requests <- MCRequests
SPECIFICATION WalletSpec
INVARIANT NoReplay
 
PROPERTY NeverLockedOut
CHECK_DEADLOCK FALSE
