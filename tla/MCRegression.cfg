SPECIFICATION Spec
CONSTANTS
    Insns <- MCInsns
    Stem <- MCStem
    NoObservable <- MCNoObservable
    Scopes <- MCScopes
    Total <- MCTotal
    Counts <- MCCounts
    MaxEdits = 3
INVARIANTS
    TypeOK
    BaselineRatchets
    LossIsBounded
    
