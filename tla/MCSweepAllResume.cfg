SPECIFICATION Spec
CONSTANTS
    Verdicts <- MCVerdicts
    Labels <- MCLabels
    Requests <- MCRequests
    Insns <- MCInsns
INVARIANT ResumesOnlyFinished
