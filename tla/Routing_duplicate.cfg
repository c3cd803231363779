SPECIFICATION Spec
CONSTANTS
    Bits = 3
    BUCKET_SIZE = 2
    LocalIds <- MCLocalIds
    Nodes <- MCNodes
    Strangers <- MCStrangers
    Fading <- MCFading
    MaxProbes = 2
INVARIANTS OneContactPerNode
