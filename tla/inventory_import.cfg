\* The nodes' files and directories: one of each kind, two accounts.  One change
\* by somebody else of each part.
SPECIFICATION ImportSpec
CONSTANTS
    Cluster = "c"
    Nodes <- MCNodes
    Always <- MCAlways
    NotRead <- MCNotRead
    Secret <- MCSecret
    Defaults <- MCDefaults
    Lives <- MCLives
    LeftAsIs <- MCLeftAsIs
    YourFiles <- MCYourFiles
    Earlier <- MCEarlier
    Login <- MCLogin
    MaxChanges = 1
    MaxImports = 2
    MaxUnread = 1
    Adopt = TRUE
    Yaml = "yaml"
    JvmOptions = {"jvm"}
    PublicFiles = {"env"}
    JmxFiles = {"password"}
    Dirs = {"data", "srv"}
    SystemDirs = {"srv"}
    Perms <- MCPerms
    DirPerms <- MCDirPerms
    Accounts <- MCAccounts
    OtherGroups <- MCOtherGroups
    Edits <- MCEdits
    MaxEdits = 1
    Life = {"cluster", "tokens"}
    Unwritten <- MCUnwritten
    Texts = {"text"}
    Numbers = {"number"}
    Toggles = {"toggle"}
    Data = "data"
    OtherDirs = {"hints"}
    Extras = {"old", "new"}
    Default <- MCDefault
    Under <- MCUnder
    Rejects <- MCRejects
    Files <- MCFiles
    Edited <- MCEdited
    Storages <- MCStorages
    Added <- MCAdded
    NoDir = NoDir
    NotThere = NotThere
    Unread = Unread
    Null = Null
INVARIANTS AsFound AsImported CanStart
PROPERTIES ReimportQuiet OthersKept KeptAsFound
CHECK_DEADLOCK FALSE
