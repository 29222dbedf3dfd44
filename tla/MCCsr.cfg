SPECIFICATION Spec
CONSTANTS
    CounterSamples = 2
    MaxRuns = 2
    MaxFaults = 1
    ModelCsrs <- MCModelCsrs
    CounterBank <- MCCounterBank
    HighHalf <- MCHighHalf
    NeedsIsa <- MCNeedsIsa
    Filters <- MCFilters
    Harts <- MCHarts
    Ungeneratable <- MCUngeneratable
    Restless <- MCRestless
    Legalised <- MCLegalised
    Rv32Only <- MCRv32Only
    SpikeResets <- MCSpikeResets
INVARIANTS TypeOK RowsTellTheTruth RowsAreEarned InterruptionCostsOne
CHECK_DEADLOCK FALSE
