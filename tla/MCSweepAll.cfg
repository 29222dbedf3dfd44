SPECIFICATION FairSpec
CONSTANTS
    Verdicts <- MCVerdicts
    Labels <- MCLabels
    Requests <- MCRequests
    Insns <- MCInsns
INVARIANTS TypeOK ReportMatchesFiles FinishedAccountsForAll
PROPERTIES FinishedWorkSurvives ImplementsBatch EveryRunEnds
