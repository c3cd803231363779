SPECIFICATION ProgressSpec
CONSTANTS
    Callers = {"a", "b", "z", "big"}
    Bytes <- MCBytes
    ByteCapacity = 4
    CommandCapacity = 2
    Batches = {"empty", "short", "full", "long"}
    BatchSize <- MCBatchSize
    Segment = 2
    output_capacity = 2
    Freshness = TRUE
    MaxActive = 5
    concurrency = 1
    Recovery = 3
    RefreshEvery = 2
    Cap = 3
    LocalNodes = {"v4"}
    Seeds = 2
    Resolves <- MCResolves
    Allowed = {"a", "b", "c", "d"}
    MaxAddresses = 3
    MaxPings = 2
    Candidates = {1, 2, 3, 4}
    Places = {1, 2, 3, 4}
    Claims <- MCClaims
    lookup_parallelism = 2
    shortlist_size = 2
    max_queries = 3
    max_candidates = 3
    MaxDelay = 0
    MaxRefusals = 1
INVARIANTS
    StoreIsTruthful SamplesAreSaved RoundsAreHonest
PROPERTIES
    StoreLetsGo PauseIsJust QuietResumes ConsumerEnds LookupIsSound BootstrapPerseveres
CHECK_DEADLOCK FALSE
