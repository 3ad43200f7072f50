SPECIFICATION Spec
CONSTANTS
    Modules <- SomeModules
    Encodings <- AllEncodings
    Heap = 0
    Behind = 255
    MaxUtf8Length = 2000
INVARIANTS TypeOK LoadedIsModule SectionsConsumed GlobalsStart Accepted
CHECK_DEADLOCK FALSE
