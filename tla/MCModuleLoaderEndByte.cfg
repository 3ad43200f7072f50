SPECIFICATION Spec
CONSTANTS
    Modules <- EndByteModules
    Encodings <- OneEncoding
    Heap = 0
    Behind = 255
    MaxUtf8Length = 2000
INVARIANT LoadedIsModule
CHECK_DEADLOCK FALSE
