SPECIFICATION Spec
CONSTANTS
    Hashes = {1, 2}
    Peers = {}
    LegalPeers = {}
    Infos = {"hy", "solo"}
    ValidHybrids = {"hy"}
    MaxActive = 2
    RecentLimit = 1
    RecentMs = 0
    HintTtl = 1
    DormantDelay = 1
    LocalRetry = 0
    Backoff <- MCBackoff
    MaxAttempts = 2
    MaxHints = 1
    PageSize = 1
    MaxTime = 1
    MaxGen = 3
    Keys <- MCKeys
    LegacyRows <- LegacyHybrid
INVARIANTS
    RowsAreConsistent
    OneFailurePerLease
PROPERTIES
    KeepsPromise
    ScansLeaveRoom
