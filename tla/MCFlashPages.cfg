SPECIFICATION MCSpec
CONSTANTS
    PageSize = 2
    FlashSize = 10
    CodeStart = 3
    CodeEnd = 8
    Value = {"word", "erased"}
    Erased = "erased"
    Keep = Keep
    NoPage = NoPage
    MaxWrite = 4
INVARIANTS TypeOK WriterInv
PROPERTIES HostCellsKept ImplementsLog CallsReturn
CHECK_DEADLOCK FALSE
