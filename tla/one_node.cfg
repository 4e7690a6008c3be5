\* No node is expected down: the health checks of a rolling operation.  Any
\* order of the writes, starts, stops, reloads and records of the roles.  Any
\* statement of the schema may fail, applied or not.
SPECIFICATION OneNodeSpec
CONSTANTS
    MaxOthers = 1
    Addresses = {a1, a2, a3}
    NodeCodes = {"UN", "DN", "UJ"}
    Poll = 3
    DownExpected = {}
    Yaml = yaml
    OtherFiles = {env}
    Unit = unit
    MaxVersion = 1
    Perms <- MCPerms
    Keyspaces <- MCKeyspaces
    Groups <- MCGroups
    GroupHolds <- MCGroupHolds
    Objects <- MCObjects
    Asks <- MCAsks
INVARIANTS AsAskedOnce HealthyWhenAnswered SettingsTold PendingIsReal ObjectsAsAskedOnce
CHECK_DEADLOCK FALSE
