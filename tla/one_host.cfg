SPECIFICATION OneHostSpec
CONSTANTS
    Hosts <- MCHosts
    Firsts <- MCFirsts
    Wider <- MCWider
    Admin <- MCAdmin
    ActiveSets <- MCActiveSets
    Kbs <- MCKbs
    MaxRuns = 2
    MaxEvents = 2
    t1 = t1
    t2 = t2
    Targets = {t1, t2}
    Members = {m1, m2}
    ResetKinds = {"reset", "add", "replace", "cluster"}
    ClusterKeyspaces = {"shop"}
    MaxChanges = 1
INVARIANTS ReadAsAsked CanGoOn
PROPERTIES OsVolumesNotReloaded SettledRunQuiet MembersKept StartsClean
CHECK_DEADLOCK FALSE
