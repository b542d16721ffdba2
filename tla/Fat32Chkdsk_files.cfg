SPECIFICATION SpecChk
CONSTANTS
    ClusterCount = 4
    Layouts = {1, 2}
    MaxDirClusters = 3
    ClusterSlots = 2
    MaxClusters = 2
    MaxDepth = 2
    MaxOps = 4
    ShortNames = {a, b}
    LongNames = {l}
SYMMETRY Symmetry
INVARIANTS TypeOK DamageIsConfined NothingIsLost 
PROPERTY ChkdskKeepsFiles
CHECK_DEADLOCK FALSE
