SPECIFICATION Spec
CONSTANTS
    PmpAddrBits = 26
    WordSize = 16777216
    MaxRuns = 2
    MaxFaults = 1
    Configs <- MCConfigs
    Bugs <- MCBugs
    Priority <- MCPriority
    NoDeleg <- MCNoDeleg
    Writable <- MCWritable
INVARIANTS TypeOK NoFalseAlarm DefectsAreSeen ClaimsHold FailuresNeverPass
PROPERTY IndexKeepsControls
