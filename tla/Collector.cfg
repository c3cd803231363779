SPECIFICATION FairSpec
CONSTANTS
    Jobs <- MCJobs
    Same <- MCSame
    Announced <- MCAnnounced
    Concurrency = 2
INVARIANTS NothingIsLost
PROPERTIES StopsInOrder PausedQuiesces StopEnds
CHECK_DEADLOCK FALSE
