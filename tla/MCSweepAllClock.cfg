SPECIFICATION DriverFair
CONSTANTS
    Verdicts <- MCVerdicts
    Labels <- MCLiveLabels
    Requests <- MCLiveRequests
    Insns <- MCLiveInsns
PROPERTY WallClockEndsStream
