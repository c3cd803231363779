SPECIFICATION Spec
CONSTANTS
    Callers = {"fetch", "ping"}
    Pings = {"ping"}
    Contacts = {"saved"}
    Addresses = {"x", "y"}
    Address <- MCAddress
    MaxPending = 3
    Reserved = 1
    IdSpace = 4
    CommandCapacity = 1
    MaxActive = 1
    MaxCalls = 2
    MaxRotations = 1
INVARIANTS UnverifiedIsSaved
