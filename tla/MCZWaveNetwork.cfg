CONSTANTS
    Nodes <- MCNodes
    Listed <- MCListed
    Start <- MCStart
    Posts <- MCPosts
    Position <- MCPosition
    MaxPosts = 1
    MaxEvents = 1
    MaxFaults = 1
SPECIFICATION FairSpec
INVARIANTS
    TypeOK
    QuietGetIsTrue
    QuietTable
PROPERTY Settles
CHECK_DEADLOCK FALSE
