SPECIFICATION TablesSpec
CONSTANTS
    Bits = 3
    BUCKET_SIZE = 2
    LocalIds <- MCLocalIds
    Nodes <- MCNodes
    Strangers <- MCStrangers
    Fading <- MCFading
    MaxProbes = 2
    Period = 2
    Sources = {"i", "j"}
    MaxTime = 6
    Hashes = {1, 2, 3}
    Endpoints = {1, 2, 3}
    ttl = 2
    max_hashes = 2
    max_peers = 3
    max_peers_per_hash = 2
    ExpireBudget = 1
    SAMPLE_INTERVAL = 2
    MAX_SAMPLES = 1
    MaxClock = 3
    Networks = {"p", "q", "r", "s"}
    Ips = {"x", "y"}
    MinVotes = 2
    MaxVotes = 3
    VoteLife = 2
    Cooldown = 3
    MaxBack = 1
    Classes = {"sampling"}
    Remotes = {"x", "y", "z"}
    Burst <- MCBurst
    IpBurst = 1
    MaxIps = 2
    Quiet = 2
    VerifyPause = 2
    verification_limit = 2
    PacketBytes = {1, 2}
    Clients = {"c"}
    Producers = {"p", "q"}
    CountLimit = 2
    ByteLimit = 2
    Size <- MCSize
    PageLimit = 1
    MaxActive = 1
    MaxStreams = 1
    MaxConnections = 1
    MaxSequence = 3
INVARIANTS
    TableIsKept TokenLifetime IndexesAgree StreamsAreFaithful
PROPERTIES
    OnlyBadMakeRoom SamplesAreCurrent IdentityIsKept VerificationsAreRare
