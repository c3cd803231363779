SPECIFICATION Spec
CONSTANTS
    Hashes = {1, 2}
    Peers = {1, 2}
    LegalPeers = {1}
    Infos = {"bad"}
    ValidHybrids = {}
    MaxActive = 1
    RecentLimit = 0
    RecentMs = 1
    HintTtl = 2
    DormantDelay = 1
    LocalRetry = 0
    Backoff <- MCBackoff
    MaxAttempts = 1
    MaxHints = 1
    PageSize = 1
    MaxTime = 2
    MaxGen = 1
    Keys <- MCKeys
    LegacyRows <- NoLegacy
INVARIANTS ActiveWithinLimit
PROPERTIES NewestHintsKept
