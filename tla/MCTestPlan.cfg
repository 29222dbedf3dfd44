SPECIFICATION Spec
CONSTANTS
    Limit = 2
    ScheduleLength = 2
    FileNames <- MCFileNames
    Depth = 2
    MaxEvents = 3
    MaxRuns = 2
    MaxKills = 1
    Versions <- MCVersions
    Edited = {1, 2, 3}
    Corpora <- MCCorpora
    Renderers <- MCRenderers
    Library <- MCLibrary
    Arguments <- MCArguments
INVARIANTS TypeOK PlanTellsTheTruth RowsFollowStructure HelpersAreReached RefusalKeepsPlan
PROPERTY GateStopsNewTargets
CHECK_DEADLOCK FALSE
