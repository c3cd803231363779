SPECIFICATION SessionFairSpec
CONSTANTS
    Nodes = {n1}
    Started <- FetchAndSample
    StorageErrors = {"capacity"}
    MaxErrors = 1
PROPERTIES FatalEndsSession
CHECK_DEADLOCK FALSE
