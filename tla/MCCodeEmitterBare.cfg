SPECIFICATION Spec
CONSTANTS
    BufferSize = 5
    Half = 1
    Bare = TRUE
    MaxWords = 6
    MaxLabels = 1
INVARIANTS LabelsFollowCode
CHECK_DEADLOCK FALSE
