SPECIFICATION SessionFairSpec
CONSTANTS
    Nodes = {n1}
    Started <- Everything
    StorageErrors = {"capacity"}
    MaxErrors = 1
PROPERTIES ShutdownEnds
CHECK_DEADLOCK FALSE
