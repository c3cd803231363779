SPECIFICATION FairSpec
CONSTANTS
    Hashes = {1, 2, 3}
    Peers = {}
    LegalPeers = {}
    Infos = {}
    ValidHybrids = {}
    MaxActive = 7
    RecentLimit = 3
    RecentMs = 0
    HintTtl = 0
    DormantDelay = 1
    LocalRetry = 0
    Backoff <- MCBackoff
    MaxAttempts = 1
    MaxHints = 1
    PageSize = 1
    MaxTime = 1
    MaxGen = 0
    Keys <- MCKeys
    LegacyRows <- NoLegacy
PROPERTIES
    WaitingIsAdmitted
