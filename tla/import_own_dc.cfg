SPECIFICATION Spec
CONSTANTS
    Cluster = "c"
    Nodes <- MCNodes
    Always <- MCAlways
    NotRead <- MCNotRead
    Secret <- MCSecret
    Defaults <- MCDefaults
    Lives <- MCSame
    LeftAsIs <- MCLeftAsIs
    YourFiles <- MCOwnDC
    Earlier <- MCNothing
    Login <- MCLogin
    MaxChanges = 1
    MaxImports = 2
    MaxUnread = 1
    Adopt = TRUE
INVARIANT RingPlace
CHECK_DEADLOCK FALSE
