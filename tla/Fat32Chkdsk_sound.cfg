SPECIFICATION SpecChk
CONSTANTS
    ClusterCount = 4
    Layouts = {1, 2}
    MaxDirClusters = 3
    ClusterSlots = 2
    MaxClusters = 2
    MaxDepth = 2
    MaxOps = 3
    ShortNames = {a, b}
    LongNames = {l}
SYMMETRY Symmetry
INVARIANT SoundVolumeIsLeftAlone
CHECK_DEADLOCK FALSE
