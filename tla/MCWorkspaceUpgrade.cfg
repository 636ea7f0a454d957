SPECIFICATION LiveSpec
CONSTANTS
    Processes = {p1, p2}
    Databases0 <- MCDatabases0
    MaxClock = 1
    MaxFaults = 2
    None = None
INVARIANTS DataSafe VersionHonest RebuildIsAlone
PROPERTIES JournalKept EventuallyUpgraded
