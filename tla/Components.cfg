SPECIFICATION ComponentsSpec
CONSTANTS
    Ids = {"a", "b", "c"}
    Ips = {"x", "y", "z"}
    Contacts <- MCContacts
    Parallelism = 2
    Capacity = 2
    Delays = {1}
    Long = 2
    Leases = {1, 2, 3}
    Shifts <- MCShifts
    MaxDue = 2
    Attempts = {"i", "j", "k", "l"}
    PeerIps = {"x", "y"}
    Nodes = {n1, n2}
    Started <- AppTasks
    StorageErrors = {"capacity", "closed"}
    MaxErrors = 1
    TrueSize = 3
    max_metadata_size = 3
    request_window = 2
    max_received_frames = 5
    connect_timeout = 1
    handshake_timeout = 2
    piece_timeout = 2
    peer_timeout = 7
    Families = {"v4", "v6"}
    RemoteNodes <- MCRemoteNodes
    Address <- MCAddress
    Answers <- MCAnswers
    hints <- MChints
    Accepted = {"h", "p", "q"}
    MAX_PEER_ATTEMPTS = 3
    lookup_parallelism = 1
    shortlist_size = 2
    max_queries = 2
    max_candidates = 1
    max_peers = 2
    channel_size = 2
INVARIANTS
    NoEarlySample MemoryAgreesWithTable NoClassIsStarved PeersAreJudgedFairly
    JobsEndForAReason OneConnectionPerIp FaultsAreContained OkIsComplete
SYMMETRY NodeSymmetry
CHECK_DEADLOCK FALSE
