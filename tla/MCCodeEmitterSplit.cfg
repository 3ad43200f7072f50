SPECIFICATION Spec
CONSTANTS
    BufferSize = 10
    Half = 2
    Bare = FALSE
    MaxWords = 11
    MaxLabels = 1
INVARIANTS TypeOK PcTracksFlash LabelsFollowCode OnlyPairsDeleted JumpsIntact
CHECK_DEADLOCK FALSE
