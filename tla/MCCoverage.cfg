SPECIFICATION Spec
CONSTANTS
    Elfs <- MCElfs
    NoElf = "-"
    Width <- MCWidth
    Reach <- MCReach
    Views <- MCViews
INVARIANTS
    TypeOK
    SuiteTotalIsTrue
    EachElfAlone
    RedundantCanBeDropped
