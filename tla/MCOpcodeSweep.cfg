SPECIFICATION Spec
CONSTANTS
    Order <- MCOrder
    Guard <- MCGuard
    Encodes <- MCEncodes
    Unknown <- MCUnknown
    Setups <- MCSetups
    Instances <- MCInstances
INVARIANTS
    TypeOK
    JudgedFresh
    OneBadRunIsNoVerdict
    SummaryAgrees
    IndexDescribesCorpus
    HeaderIsTrue
    OperandsAreLegal
    AccessesStayInRegion
    LayoutIsRecovered
PROPERTY ImplementsChild
