SPECIFICATION MCSpec
CONSTANTS
    PageSize = 2
    FlashSize = 10
    CodeStart = 3
    CodeEnd = 8
    Value <- Words
    Erased = 12
    Keep = Keep
    NoPage = NoPage
    MaxWrite = 2
    OPCODE_JMP = 5
    OPCODE_CALL = 4
    Native <- Imports
    Helper <- Helpers
    HelperAt <- HelperAddress
    MaxResets = 2
INVARIANTS TypeOK LinkedAtEntry RefillInStep
PROPERTIES NeighboursKept Boots
CHECK_DEADLOCK FALSE
