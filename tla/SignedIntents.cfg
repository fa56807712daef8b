CONSTANTS
    alice = alice
    k1 = k1
    k2 = k2
    s1 = s1
    s2 = s2
    s3 = s3
    legacyWord = legacyWord
    earlyWord = earlyWord
    lateWord = lateWord
    verifier = verifier
    other = other
    Accounts = {alice}
    ImplicitAccounts = {alice}
    Keys = {k1, k2}
    ImplicitAccountOf <- MCImplicitAccountOf
    Words = {legacyWord, earlyWord, lateWord}
    Bits = {0, 1}
    V1 <- MCV1
    Salts = {s1, s2, s3}
    SaltOf <- MCSaltOf
    DeadlineOf <- MCDeadlineOf
    Payloads <- MCPayloads
    LegacyNonces <- MCLegacy
    Self = verifier
    MaxTime = 3
    Ids = {alice, other}
    ImplicitIds = {alice, other}
    ImplicitKeyIds = {alice}
    StoredKeys = {k1}
    ImplicitIdOf <- MCImplicitAccountOf
    NoncesOf <- MCNoncesOf
    CleanableWords = {earlyWord}
    RandomSalts = {s1, s2}
    VERSIONED_MAGIC_PREFIX = 3

SPECIFICATION MCSpec
INVARIANT AtMostOnce
PROPERTY InvalidSaltsStayInvalid
PROPERTY LockedIsFrozen
PROPERTY OthersChangeNothing
PROPERTY UpgradesAreInvisible
